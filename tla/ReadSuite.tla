------------------------------ MODULE ReadSuite -------------------------------
(***************************************************************************)
(* Requests that look at the store more than once, in a suite: pages of    *)
(* records, pages of issues and the get tool, each with a store of its own.*)
(***************************************************************************)
EXTENDS Suite, Pagination

CONSTANTS
    IssueIds, Times,          \* the issues listed, their event times
    Errors, ErrorTime,        \* the events of the get tool's issue
    Issue, MaxArrivals

VARIABLES
    last, step, mark, left, fetched, listed, quiet,
    tier, received, issue, call, kept, moved, lasting

listVars == <<last, step, mark, left, fetched, listed, quiet>>
getVars == <<tier, received, issue, call, kept, moved, lasting>>

Listing == INSTANCE IssuePages WITH
    Issues <- IssueIds, at <- step, cursor <- mark, todo <- left,
    seen <- listed

Get == INSTANCE McpGet WITH Records <- Errors, TimeOf <- ErrorTime, held <- kept

ListOff ==
    /\ last = off /\ step = off /\ mark = off /\ left = off
    /\ fetched = off /\ listed = off /\ quiet = off

GetOff ==
    /\ tier = off /\ received = off /\ issue = off /\ call = off /\ kept = off
    /\ moved = off /\ lasting = off

\* Pages of issues have every issue that did not change meanwhile, and are in
\* order if none does.
IssuesAreListed == subject = "issues" => Listing!IssuesAreListed

\* The get tool misses only records that moved, shows an issue with the latest
\* event that stayed, and fails only if an eviction came between.
GetFindsWhatStays == subject = "get" => Get!GetFindsWhatStays
=============================================================================
