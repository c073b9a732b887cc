------------------------------- MODULE MCReads --------------------------------
(***************************************************************************)
(* What readers see while the store moves on, for TLC: the readers of the  *)
(* store, cursors of records and of issues, the page of the web interface  *)
(* and the get tool.  They share no state, so that each behaviour is of    *)
(* one of them, its subject, and what the others use is off, or as it is   *)
(* at first.                                                               *)
(***************************************************************************)
EXTENDS StoreReaders, LiveEvents, ReadSuite, TLC

CONSTANTS
    older, newer,             \* two errors of one issue, of event times 1 and 2
    oops, demo,               \* the issue, the project
    p1, p2                    \* archive parts

suiteVars == <<subject, readVars, liveVars, pageVars, listVars, getVars>>

-----------------------------------------------------------------------------

\* The store: two errors of a project.
MCProjectOf == [r \in Records |-> 1]
MCSignalOf == [r \in Records |-> "error"]
MCIssueOf == [r \in Records |-> oops]
MCStreamOf == [r \in Records |-> None]
MCTimeOf == [r \in Records |-> IF r = newer THEN 2 ELSE 1]

PartSymmetry == Permutations(Parts)

\* Of five records 1 is too early and 5 too late, 2 and 3 are of one millisecond.
MCRank == [r \in PageRecords |-> r]
MCMs == <<0, 1, 1, 2, 3>>

\* Of three errors of the get tool two are of one time.
MCErrorTime == [early |-> 1, late |-> 2, tied |-> 2]

ASSUME PageAssumption
ASSUME LiveAssumption
ASSUME Listing!IssueAssumption
ASSUME Get!McpAssumption

-----------------------------------------------------------------------------

SuiteInit ==
    /\ \/ subject \in {"store", "live", "pages"} /\ ListOff /\ GetOff
       \/ subject = "issues" /\ Listing!Init /\ GetOff
       \/ subject = "get" /\ ListOff /\ Get!Init
    /\ ReadersInit
    /\ LiveInit
    /\ subject # "live" => table = "logs"
    /\ PagesInit
    /\ subject # "pages" => hot = {}

SuiteNext ==
    /\ \/ /\ subject = "store" /\ ReadersNext
          /\ UNCHANGED <<liveVars, pageVars, listVars, getVars>>
       \/ /\ subject = "live" /\ LiveNext
          /\ UNCHANGED <<readVars, pageVars, listVars, getVars>>
       \/ /\ subject = "pages" /\ PagesNext
          /\ UNCHANGED <<readVars, liveVars, listVars, getVars>>
       \/ /\ subject = "issues" /\ Listing!Next
          /\ UNCHANGED <<readVars, liveVars, pageVars, getVars>>
       \/ /\ subject = "get" /\ Get!Next
          /\ UNCHANGED <<readVars, liveVars, pageVars, listVars>>
    /\ UNCHANGED subject

SuiteSpec == SuiteInit /\ [][SuiteNext]_suiteVars
=============================================================================
