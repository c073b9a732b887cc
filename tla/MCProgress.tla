------------------------------ MODULE MCProgress ------------------------------
(***************************************************************************)
(* What must come to an end, for TLC: the daemon, a live stream at its     *)
(* shutdown, a client that follows cursors, and the matcher of patterns.   *)
(* They share no state, so that each behaviour is of one of them, its      *)
(* subject, and what the others use is off, or as it is at first.          *)
(***************************************************************************)
EXTENDS Supervisor

CONSTANTS web, sentry, otlp, Requested, Star, off

VARIABLES
    subject,
    committed, unsent, sent, position, since, wire, heard, stream, table, timer,
    fetch, shown, failed, listener, bounds,
    hot, cold, at, cursor, todo, found, boundary, seen, held,
    value, pattern, value_index, pattern_index, star, checkpoint, answer

liveVars == <<committed, unsent, sent, position, since, wire, heard, stream, table, timer,
              fetch, shown, failed, listener, bounds>>
pagesVars == <<hot, cold, at, cursor, todo, found, boundary, seen, held>>
globVars == <<value, pattern, value_index, pattern_index, star, checkpoint, answer>>
suiteVars == <<subject, vars, liveVars, pagesVars, globVars>>

\* One table, a channel of one change.
Live == INSTANCE LiveEvents WITH
    Tables <- {"logs"}, Capacity <- 1, WireCapacity <- 1, MaxCommits <- 2,
    MaxSwitches <- 0, MaxBreaks <- 1, MaxFailures <- 1

\* Three records, two of one millisecond, in pages of one.
Pages == INSTANCE Pagination WITH
    PageRecords <- 1..3, Rank <- <<1, 2, 3>>, Ms <- <<1, 2, 2>>, Matching <- 1..3,
    Start <- 1, End <- 2, Limit <- 1

\* Values and patterns of up to 3 bytes.
Match == INSTANCE Wildcard WITH Bytes <- {"a", Star}, MaxValue <- 3, MaxPattern <- 3

-----------------------------------------------------------------------------

LiveOff ==
    /\ committed = off /\ unsent = off /\ sent = off /\ position = off /\ since = off
    /\ wire = off /\ heard = off /\ stream = off /\ table = off /\ timer = off
    /\ fetch = off /\ shown = off /\ failed = off /\ listener = off /\ bounds = off

PagesOff ==
    /\ hot = off /\ cold = off /\ at = off /\ cursor = off /\ todo = off
    /\ found = off /\ boundary = off /\ seen = off /\ held = off

MatchOff ==
    /\ value = off /\ pattern = off /\ value_index = off /\ pattern_index = off
    /\ star = off /\ checkpoint = off /\ answer = off

SuiteInit ==
    /\ Init
    /\ \/ subject = "daemon" /\ LiveOff /\ PagesOff /\ MatchOff
       \/ subject = "live" /\ Live!LiveInit /\ PagesOff /\ MatchOff
       \/ subject = "pages" /\ LiveOff /\ Pages!PagesInit /\ MatchOff
       \/ subject = "wildcard" /\ LiveOff /\ PagesOff /\ Match!Init

SuiteNext ==
    /\ \/ /\ subject = "daemon" /\ Next
          /\ UNCHANGED <<liveVars, pagesVars, globVars>>
       \/ /\ subject = "live" /\ Live!LiveNext
          /\ UNCHANGED <<vars, pagesVars, globVars>>
       \/ /\ subject = "pages" /\ Pages!PagesNext
          /\ UNCHANGED <<vars, liveVars, globVars>>
       \/ /\ subject = "wildcard" /\ Match!Next
          /\ UNCHANGED <<vars, liveVars, pagesVars>>
    /\ UNCHANGED subject

SuiteSpec == SuiteInit /\ [][SuiteNext]_suiteVars

\* The fairness of each module, for its subject.
Fairness ==
    /\ WF_vars(subject = "daemon" /\ Supervise)
    /\ WF_vars(subject = "daemon" /\ StopWriter)
    /\ WF_vars(subject = "daemon" /\ EndMaintenance)
    /\ \A l \in Listeners : /\ WF_vars(subject = "daemon" /\ Respond(l))
                            /\ WF_vars(subject = "daemon" /\ Drain(l))
    /\ WF_liveVars(subject = "live" /\ Live!Announce)
    /\ WF_liveVars(subject = "live" /\ Live!Subscribe)
    /\ WF_liveVars(subject = "live" /\ Live!Forward)
    /\ WF_liveVars(subject = "live" /\ Live!EndLagging)
    /\ WF_liveVars(subject = "live" /\ Live!EndAtShutdown)
    /\ WF_liveVars(subject = "live" /\ Live!Receive)
    /\ WF_liveVars(subject = "live" /\ Live!Closed)
    /\ WF_liveVars(subject = "live" /\ Live!Refresh)
    /\ WF_liveVars(subject = "live" /\ Live!ReadTable)
    /\ WF_liveVars(subject = "live" /\ Live!Show)
    /\ WF_liveVars(subject = "live" /\ Live!Drained)
    /\ WF_pagesVars(subject = "pages" /\ Pages!Reader)
    /\ WF_globVars(subject = "wildcard" /\ Match!Next)

FairSuite == SuiteSpec /\ Fairness

-----------------------------------------------------------------------------
(* Properties: those of the modules.                                       *)

\* Open streams do not keep the listener from stopping.
LiveShutdownCompletes == Live!ShutdownCompletes

\* What a page heard of comes to be shown, or an error is.
LiveHeardComesToShow == Live!HeardComesToShow

\* A client that follows cursors comes to the last page, and the matcher of
\* patterns to an answer.
LoopsEnd == Pages!LastPageComes /\ Match!Ends
=============================================================================
