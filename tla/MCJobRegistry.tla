--------------------------- MODULE MCJobRegistry ---------------------------
(* Two jobs, so that a prune can meet one running and one over.             *)
EXTENDS JobRegistry

CONSTANTS first, second, summary, yaml, browser

MCJobs == {first, second}
MCFiles == {summary, yaml}
MCReaders == {browser}
=============================================================================
