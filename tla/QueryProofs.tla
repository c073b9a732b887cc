----------------------------- MODULE QueryProofs -----------------------------
(***************************************************************************)
(* Proofs about requests that look at the store more than once while it    *)
(* moves on: pages of records by cursor (Pagination), pages of issues      *)
(* (IssuePages) and the get tool of the MCP bridge (McpGet); and about the *)
(* loop that matches a pattern (Wildcard).                                 *)
(***************************************************************************)
EXTENDS ReadSuite, QuerySuite, FiniteSetTheorems, FunctionTheorems, TLAPS

-----------------------------------------------------------------------------
(* Places in an order, by counting: the k-th of a finite set has k - 1     *)
(* before it.                                                              *)

StrictOrder(S, R) ==
    /\ \A x \in S : <<x, x>> \notin R
    /\ \A x, y, z \in S : <<x, y>> \in R /\ <<y, z>> \in R => <<x, z>> \in R
    /\ \A x, y \in S : x = y \/ <<x, y>> \in R \/ <<y, x>> \in R

Before(S, R, x) == {y \in S : <<y, x>> \in R}
PlaceIn(S, R) == [x \in S |-> Cardinality(Before(S, R, x)) + 1]

LEMMA BeforeGrows ==
  ASSUME NEW S, IsFiniteSet(S), NEW R, StrictOrder(S, R),
         NEW x \in S, NEW y \in S
  PROVE  /\ Cardinality(Before(S, R, x)) \in 0..(Cardinality(S) - 1)
         /\ <<x, y>> \in R <=> Cardinality(Before(S, R, x)) < Cardinality(Before(S, R, y))
<1>1. /\ IsFiniteSet(Before(S, R, x)) /\ Cardinality(Before(S, R, x)) \in Nat
      /\ IsFiniteSet(Before(S, R, y)) /\ Cardinality(Before(S, R, y)) \in Nat
      /\ Cardinality(S) \in Nat
  BY FS_Subset, FS_CardinalityType DEF Before
<1>2. Before(S, R, x) \in SUBSET S /\ x \in S \ Before(S, R, x)
  BY DEF Before, StrictOrder
<1>3. Cardinality(Before(S, R, x)) < Cardinality(S)
  <2>1. Cardinality(Before(S, R, x)) <= Cardinality(S) /\ Cardinality(Before(S, R, x)) # Cardinality(S)
    BY <1>2, FS_Subset
  <2> QED  BY <2>1, <1>1
<1>4. ASSUME NEW a \in S, NEW b \in S, <<a, b>> \in R
      PROVE  Cardinality(Before(S, R, a)) < Cardinality(Before(S, R, b))
  <2>1. /\ Before(S, R, a) \in SUBSET Before(S, R, b)
        /\ a \in Before(S, R, b) /\ a \notin Before(S, R, a)
    BY <1>4 DEF Before, StrictOrder
  <2>2. /\ IsFiniteSet(Before(S, R, a)) /\ Cardinality(Before(S, R, a)) \in Nat
        /\ IsFiniteSet(Before(S, R, b)) /\ Cardinality(Before(S, R, b)) \in Nat
    BY FS_Subset, FS_CardinalityType DEF Before
  <2>3. /\ Cardinality(Before(S, R, a)) <= Cardinality(Before(S, R, b))
        /\ Cardinality(Before(S, R, a)) # Cardinality(Before(S, R, b))
    BY <2>1, <2>2, FS_Subset
  <2> QED  BY <2>2, <2>3
<1>5. x = y \/ <<x, y>> \in R \/ <<y, x>> \in R  BY DEF StrictOrder
<1>6. <<x, y>> \in R => Cardinality(Before(S, R, x)) < Cardinality(Before(S, R, y))  BY <1>4
<1>7. <<y, x>> \in R => Cardinality(Before(S, R, y)) < Cardinality(Before(S, R, x))  BY <1>4
<1>8. x = y => Cardinality(Before(S, R, y)) = Cardinality(Before(S, R, x))  OBVIOUS
<1> QED  BY <1>1, <1>3, <1>5, <1>6, <1>7, <1>8

LEMMA Ranking ==
  ASSUME NEW S, IsFiniteSet(S), NEW R, StrictOrder(S, R)
  PROVE  /\ PlaceIn(S, R) \in Bijection(S, 1..Cardinality(S))
         /\ \A x, y \in S : <<x, y>> \in R <=> PlaceIn(S, R)[x] < PlaceIn(S, R)[y]
<1> DEFINE n == Cardinality(S)
           f == PlaceIn(S, R)
<1>1. n \in Nat  BY FS_CardinalityType
<1>2. \A x \in S : f[x] = Cardinality(Before(S, R, x)) + 1  BY DEF PlaceIn
<1>3. \A x \in S : Cardinality(Before(S, R, x)) \in 0..(n - 1)  BY BeforeGrows
<1>4. \A x, y \in S : <<x, y>> \in R <=> Cardinality(Before(S, R, x)) < Cardinality(Before(S, R, y))
  BY BeforeGrows
<1>5. ASSUME NEW x \in S, NEW y \in S
      PROVE  <<x, y>> \in R <=> f[x] < f[y]
  <2>1. /\ f[x] = Cardinality(Before(S, R, x)) + 1
        /\ f[y] = Cardinality(Before(S, R, y)) + 1
    BY <1>2
  <2>2. /\ Cardinality(Before(S, R, x)) \in Nat
        /\ Cardinality(Before(S, R, y)) \in Nat
    BY <1>3
  <2> HIDE DEF f
  <2> QED  BY <1>4, <2>1, <2>2
<1>6. f \in [S -> 1..n]
  <2>1. ASSUME NEW x \in S  PROVE Cardinality(Before(S, R, x)) + 1 \in 1..n
    <3>1. Cardinality(Before(S, R, x)) \in 0..(n - 1)  BY <1>3
    <3> QED  BY <1>1, <3>1
  <2> QED  BY <2>1 DEF PlaceIn
<1>7. f \in Injection(S, 1..n)
  <2>1. ASSUME NEW x \in S, NEW y \in S, f[x] = f[y]  PROVE x = y
    <3>1. f[x] \in Nat /\ f[y] \in Nat  BY <1>6
    <3>2. ~(f[x] < f[y]) /\ ~(f[y] < f[x])  BY <2>1, <3>1
    <3> QED  BY <1>5, <3>2 DEF StrictOrder
  <2> QED  BY <1>6, <2>1 DEF Injection, IsInjective
<1>8. IsFiniteSet(1..n) /\ Cardinality(1..n) = n
  BY <1>1, FS_Interval
<1>9. f \in Surjection(S, 1..n)
  BY <1>7, <1>8, FS_Injection
<1> QED  BY <1>5, <1>7, <1>9 DEF Bijection

LEMMA MaxOfFinite ==
  ASSUME NEW S \in SUBSET Nat, IsFiniteSet(S), S # {}
  PROVE  \E m \in S : \A x \in S : x <= m
<1> DEFINE R == {p \in S \X S : p[1] < p[2]}
           f == PlaceIn(S, R)
<1>1. StrictOrder(S, R)  BY DEF StrictOrder
<1>2. f \in Bijection(S, 1..Cardinality(S)) /\ \A x, y \in S : <<x, y>> \in R <=> f[x] < f[y]
  BY <1>1, Ranking
<1>3. Cardinality(S) \in Nat \ {0}  BY FS_CardinalityType, FS_EmptySet
<1> HIDE DEF f
<1>4. PICK m \in S : f[m] = Cardinality(S)  BY <1>2, <1>3 DEF Bijection, Surjection
<1>5. \A x \in S : f[x] \in 1..Cardinality(S)  BY <1>2 DEF Bijection, Surjection
<1>6. \A x \in S : ~(f[m] < f[x])  BY <1>3, <1>4, <1>5
<1>7. \A x \in S : <<m, x>> \notin R  BY <1>2, <1>6
<1>8. \A x \in S : ~(m < x)  BY <1>7
<1> QED  BY <1>8

-----------------------------------------------------------------------------
(* The get tool.                                                           *)

GetCall ==
    [at : {"idle", "ids", "row", "archive", "file", "record", "issue", "latest",
           "hot", "cold", "files", "done", "not found", "failed"},
     id : Errors \cup {Issue, None}, target : Errors \cup {Issue, None},
     row : Get!IssueRow \cup {None}, listed : SUBSET (Errors \X Nat),
     answer : Errors \cup {None}]

\* The issue's row and the events behind it, and what holds for a call as long
\* as it lasts.
IssueInv ==
    /\ call \in GetCall
    /\ lasting \in BOOLEAN
    /\ issue = None => Get!Stored = {}
    /\ issue # None => \A r \in Get!Stored : ErrorTime[r] <= issue.last
    /\ issue # None /\ issue.latest # None =>
          issue.latest \in Get!Stored /\ ErrorTime[issue.latest] = issue.last
    /\ kept \subseteq Get!Stored
    /\ lasting => issue # None

\* What each step of the tool is there for.
StepInv ==
    /\ call.at \in {"ids", "row", "archive", "file"} => call.target # None
    /\ call.at \in {"row", "file"} => call.target \in Errors
    /\ call.at \in {"ids", "row", "archive", "file", "record", "issue"} /\ call.row = None =>
          call.target = call.id
    /\ call.at \in {"record", "issue", "not found"} => call.row = None
    /\ call.at \in {"latest", "hot", "cold", "files"} => call.row # None
    /\ call.row # None => call.id = Issue
    /\ call.at \in {"hot", "issue", "not found"} => call.answer = None
    /\ call.at \in {"latest", "record"} => call.answer \in {None, call.target}
    /\ call.at = "done" /\ call.row = None => call.id \in Errors /\ call.answer = call.id

\* A record that stays is where the next look will be, unless archival moved it
\* from the first tier before its row was fetched.
LookInv ==
    /\ call.at = "row" /\ call.target \in kept =>
          tier[call.target] = "hot" \/ call.target \in moved
    /\ call.at \in {"archive", "file"} /\ call.target \in kept =>
          tier[call.target] = "archived"
    /\ call.at \in {"record", "issue", "not found"} /\ call.answer = None /\ call.id \in kept =>
          call.id \in moved
    /\ call.at = "not found" /\ call.id = Issue => ~lasting
    /\ call.at = "file" => \A part \in call.listed : part[1] = call.target
    /\ call.at = "failed" => \E part \in call.listed : part[1] \in moved \ kept

\* A listed part is there unless its record was evicted during the call.
LeftInv ==
    \A part \in call.listed : part \in Get!ArchivedParts \/ part[1] \in moved \ kept

\* The row that was found tells of all that stays; what the search of the hot
\* tier did not beat is in the archive.
EventInv ==
    /\ call.row # None /\ call.row.retained = 0 => kept = {}
    /\ call.row # None /\ call.row.latest # None =>
          \A r \in kept : ErrorTime[r] <= ErrorTime[call.row.latest]
    /\ call.row # None /\ call.at \in {"ids", "row", "archive", "file", "latest"} =>
          call.target = call.row.latest
    /\ call.at = "cold" =>
          \A r \in kept : \/ tier[r] = "archived"
                          \/ call.answer # None /\ ErrorTime[r] <= ErrorTime[call.answer]
    /\ call.at = "files" =>
          \A r \in kept : \/ r \in Get!Listed
                          \/ call.answer # None /\ ErrorTime[r] <= ErrorTime[call.answer]
    /\ call.at = "done" /\ call.row # None =>
          \A r \in kept : call.answer # None /\ ErrorTime[r] <= ErrorTime[call.answer]

GetInv == Get!TypeOK /\ IssueInv /\ StepInv /\ LookInv /\ LeftInv /\ EventInv

\* Both modules count in the same way.
LEMMA GetCounts ==
  /\ \A S : Get!IsFiniteSet(S) <=> IsFiniteSet(S)
  /\ \A S : Get!Cardinality(S) = Cardinality(S)
BY DEF Get!IsFiniteSet, IsFiniteSet, Get!Cardinality, Cardinality

LEMMA GetBegins == ASSUME Get!McpAssumption PROVE Get!Init => GetInv
<1> SUFFICES ASSUME Get!Init  PROVE GetInv
  OBVIOUS
<1> USE DEF Get!Init, Get!McpAssumption
<1>1. Get!Stored = {}  BY DEF Get!Stored
<1>2. Get!TypeOK  BY <1>1, FS_EmptySet DEF Get!TypeOK, Get!Idle
<1>3. call \in GetCall
  <2>1. call = [at |-> "idle", id |-> None, target |-> None, row |-> None,
                listed |-> {}, answer |-> None]
    BY DEF Get!Idle
  <2> QED  BY <2>1 DEF GetCall
<1>4. IssueInv  BY <1>1, <1>3 DEF IssueInv
<1>5. StepInv  BY DEF StepInv, Get!Idle
<1>6. LookInv  BY DEF LookInv, Get!Idle
<1>7. EventInv  BY DEF EventInv, Get!Idle
<1>8. LeftInv  BY DEF LeftInv, Get!Idle
<1> QED  BY <1>2, <1>4, <1>5, <1>6, <1>7, <1>8 DEF GetInv

\* The number of records accepted so far is a number.
LEMMA ArrivalsType ==
  ASSUME Get!McpAssumption, Get!TypeOK
  PROVE  Get!Arrivals \in Nat
<1> DEFINE T == {0} \cup {received[r] : r \in Errors}
<1>1. IsFiniteSet({received[r] : r \in Errors})
  <2> DEFINE R == {received[r] : r \in Errors}
             f == [r \in Errors |-> received[r]]
  <2>1. f \in Surjection(Errors, R)  BY DEF Surjection
  <2>2. IsFiniteSet(Errors)  BY GetCounts DEF Get!McpAssumption
  <2> HIDE DEF R, f
  <2>3. IsFiniteSet(R)  BY <2>1, <2>2, FS_Surjection
  <2> QED  BY <2>3 DEF R
<1>2. IsFiniteSet(T)  BY <1>1, FS_Singleton, FS_Union
<1>3. T \in SUBSET Nat /\ T # {}  BY DEF Get!TypeOK
<1>4. \E m \in T : \A x \in T : x <= m  BY <1>2, <1>3, MaxOfFinite
<1> HIDE DEF T
<1>5. Get!Max(T) \in T  BY <1>3, <1>4 DEF Get!Max
<1> QED  BY <1>3, <1>5 DEF Get!Arrivals, T

\* Errors that come or go are counted.
LEMMA StoredCounts ==
  ASSUME Get!McpAssumption
  PROVE  /\ IsFiniteSet(Get!Stored)
         /\ Cardinality(Get!Stored) \in Nat
         /\ \A r \in Errors \ Get!Stored :
               Cardinality(Get!Stored \cup {r}) = Cardinality(Get!Stored) + 1
         /\ \A S \in SUBSET Get!Stored :
               Cardinality(Get!Stored \ S) = Cardinality(Get!Stored) - Cardinality(S)
<1>0. IsFiniteSet(Errors) /\ Get!Stored \in SUBSET Errors
  BY GetCounts DEF Get!Stored, Get!McpAssumption
<1>1. IsFiniteSet(Get!Stored) /\ Cardinality(Get!Stored) \in Nat
  BY <1>0, FS_Subset, FS_CardinalityType
<1>2. \A r \in Errors \ Get!Stored :
        Cardinality(Get!Stored \cup {r}) = Cardinality(Get!Stored) + 1
  BY <1>1, FS_AddElement
<1>3. ASSUME NEW S \in SUBSET Get!Stored
      PROVE  Cardinality(Get!Stored \ S) = Cardinality(Get!Stored) - Cardinality(S)
  <2>1. Get!Stored \cap S = S  OBVIOUS
  <2> QED  BY <1>1, <2>1, FS_Difference
<1> QED  BY <1>1, <1>2, <1>3

\* What a step of the store does to a call: it makes a record that stays leave
\* the hot tier for the archive at most.
Overtakes ==
    /\ call' = call
    /\ kept' \subseteq kept
    /\ moved \subseteq moved'
    /\ \A r \in kept' : \/ tier'[r] = tier[r]
                        \/ tier[r] = "hot" /\ tier'[r] = "archived" /\ r \in moved'
    /\ \A part \in Get!ArchivedParts : part \in Get!ArchivedParts' \/ part[1] \in moved' \ kept'
    /\ lasting' => lasting

LEMMA OvertakesKeeps ==
  ASSUME Get!McpAssumption, GetInv, Overtakes
  PROVE  StepInv' /\ LookInv' /\ LeftInv' /\ EventInv'
<1> USE DEF Overtakes
<1>1. StepInv'  BY DEF GetInv, StepInv
<1>2. LookInv'
  <2>1. call.at = "row" /\ call.target \in kept' =>
           tier'[call.target] = "hot" \/ call.target \in moved'
    BY DEF GetInv, LookInv
  <2>2. call.at \in {"archive", "file"} /\ call.target \in kept' =>
           tier'[call.target] = "archived"
    BY DEF GetInv, LookInv
  <2>3. /\ call.at \in {"record", "issue", "not found"} /\ call.answer = None
           /\ call.id \in kept' => call.id \in moved'
        /\ call.at = "not found" /\ call.id = Issue => ~lasting'
        /\ call.at = "file" => \A part \in call.listed : part[1] = call.target
        /\ call.at = "failed" => \E part \in call.listed : part[1] \in moved' \ kept'
    BY DEF GetInv, LookInv
  <2> QED  BY <2>1, <2>2, <2>3 DEF LookInv
<1>3. EventInv'  BY DEF GetInv, EventInv, Get!Listed
<1>4. LeftInv'  BY DEF GetInv, LeftInv
<1> QED  BY <1>1, <1>2, <1>3, <1>4

\* Only records of the issue that were not stored arrive.
LEMMA ArriveKeeps ==
  ASSUME Get!McpAssumption, GetInv, NEW r \in Errors, Get!Arrive(r)
  PROVE  Get!TypeOK' /\ IssueInv' /\ Overtakes
<1> USE DEF GetInv
<1>1. /\ tier \in [Errors -> {"absent", "hot", "archived"}]
      /\ tier[r] = "absent" /\ tier' = [tier EXCEPT ![r] = "hot"]
      /\ issue' = Get!Seen(r)
      /\ received' = [received EXCEPT ![r] = Get!Arrivals + 1]
      /\ call' = call /\ kept' = kept /\ moved' = moved /\ lasting' = lasting
  BY DEF Get!Arrive, Get!TypeOK
<1>2. Get!Stored' = Get!Stored \cup {r} /\ r \notin Get!Stored
  BY <1>1 DEF Get!Stored
<1>3. Cardinality(Get!Stored') = Cardinality(Get!Stored) + 1
      /\ Cardinality(Get!Stored) \in Nat
  BY <1>2, StoredCounts
<1>4. Overtakes
  <2>1. r \notin kept  BY <1>2 DEF IssueInv
  <2>2. \A part \in Get!ArchivedParts : part \in Get!ArchivedParts'
    BY <1>1 DEF Get!ArchivedParts, Get!TypeOK
  <2>3. \A s \in kept' : tier'[s] = tier[s]
    BY <1>1, <2>1 DEF IssueInv, Get!Stored
  <2> QED  BY <1>1, <2>2, <2>3 DEF Overtakes
<1> DEFINE row == IF issue # None THEN issue
                  ELSE [last |-> ErrorTime[r], retained |-> 0, latest |-> None]
<1>5. /\ row \in Get!IssueRow
      /\ row.retained = Cardinality(Get!Stored)
      /\ \A s \in Get!Stored : ErrorTime[s] <= row.last
      /\ row.latest # None => row.latest \in Get!Stored /\ ErrorTime[row.latest] = row.last
  <2>1. ErrorTime[r] \in Nat  BY DEF Get!McpAssumption
  <2>2. CASE issue # None
    BY <2>2, GetCounts DEF IssueInv, Get!TypeOK
  <2>3. CASE issue = None
    <3>1. Get!Stored = {}  BY <2>3 DEF IssueInv
    <3> QED  BY <2>1, <2>3, <3>1, FS_EmptySet DEF Get!IssueRow
  <2> QED  BY <2>2, <2>3
<1>6. issue' = IF ErrorTime[r] >= row.last
               THEN [last |-> ErrorTime[r], retained |-> row.retained + 1, latest |-> r]
               ELSE [row EXCEPT !.retained = @ + 1]
  BY <1>1 DEF Get!Seen
<1> HIDE DEF row
<1>7. /\ issue' \in Get!IssueRow
      /\ issue'.retained = Cardinality(Get!Stored')
      /\ \A s \in Get!Stored' : ErrorTime[s] <= issue'.last
      /\ issue'.latest # None =>
            issue'.latest \in Get!Stored' /\ ErrorTime[issue'.latest] = issue'.last
  <2>1. ErrorTime \in [Errors -> Nat] /\ Get!Stored \subseteq Errors
    BY DEF Get!McpAssumption, Get!Stored
  <2>2. CASE ErrorTime[r] >= row.last
    <3>1. issue' = [last |-> ErrorTime[r], retained |-> row.retained + 1, latest |-> r]
      BY <1>6, <2>2
    <3>2. row.last \in Nat /\ row.retained \in Nat  BY <1>5 DEF Get!IssueRow
    <3>3. \A s \in Get!Stored' : ErrorTime[s] <= issue'.last
      BY <1>2, <1>5, <2>1, <2>2, <3>1, <3>2
    <3> QED  BY <1>2, <1>3, <1>5, <2>1, <3>1, <3>2, <3>3 DEF Get!IssueRow
  <2>3. CASE ~(ErrorTime[r] >= row.last)
    <3>1. issue' = [row EXCEPT !.retained = @ + 1]
      BY <1>6, <2>3
    <3>2. row.last \in Nat /\ row.retained \in Nat  BY <1>5 DEF Get!IssueRow
    <3>3. /\ issue'.last = row.last /\ issue'.latest = row.latest
          /\ issue'.retained = row.retained + 1 /\ issue' \in Get!IssueRow
      BY <1>5, <3>1, <3>2 DEF Get!IssueRow
    <3>4. \A s \in Get!Stored' : ErrorTime[s] <= issue'.last
      BY <1>2, <1>5, <2>1, <2>3, <3>2, <3>3
    <3> QED  BY <1>2, <1>3, <1>5, <3>3, <3>4
  <2> QED  BY <2>2, <2>3
<1>8. issue' # None
  BY <1>7 DEF Get!McpAssumption
<1>9. Get!TypeOK'
  <2>1. Get!Arrivals \in Nat  BY ArrivalsType
  <2>2. received' \in [Errors -> Nat]  BY <1>1, <2>1 DEF Get!TypeOK
  <2>3. issue'.retained = Get!Cardinality(Get!Stored')  BY <1>7, GetCounts
  <2>4. /\ tier' \in [Errors -> {"absent", "hot", "archived"}]
        /\ call'.answer \in Errors \cup {None}
        /\ kept' \cup moved' \subseteq Errors
    BY <1>1 DEF Get!TypeOK
  <2> QED  BY <1>7, <2>2, <2>3, <2>4 DEF Get!TypeOK, Get!IssueRow
<1>10. IssueInv'
  BY <1>1, <1>2, <1>7, <1>8 DEF IssueInv
<1> QED  BY <1>4, <1>9, <1>10

\* A record that stays moves to the archive, one that goes is not kept.
LEMMA GetArchiveKeeps ==
  ASSUME Get!McpAssumption, GetInv, NEW time, Get!Archive(time)
  PROVE  Get!TypeOK' /\ IssueInv' /\ Overtakes
<1> USE DEF GetInv
<1>1. PICK old \in SUBSET {r \in Errors : tier[r] = "hot"} :
        /\ tier' = [r \in Errors |-> IF r \in old THEN "archived" ELSE tier[r]]
        /\ moved' = moved \cup old
        /\ UNCHANGED <<received, issue, call, kept, lasting>>
  <2> DEFINE o == {r \in Errors : tier[r] = "hot" /\ ErrorTime[r] <= time}
  <2> o \in SUBSET {r \in Errors : tier[r] = "hot"}  OBVIOUS
  <2> QED  BY DEF Get!Archive
<1>2. Get!Stored' = Get!Stored  BY <1>1 DEF Get!Stored, Get!TypeOK
<1>3. Get!TypeOK'  BY <1>1, <1>2 DEF Get!TypeOK
<1>4. IssueInv'  BY <1>1, <1>2 DEF IssueInv
<1>5. \A part \in Get!ArchivedParts : part \in Get!ArchivedParts'  BY <1>1 DEF Get!ArchivedParts
<1>6. \A r \in kept' : \/ tier'[r] = tier[r]
                       \/ tier[r] = "hot" /\ tier'[r] = "archived" /\ r \in moved'
  BY <1>1 DEF Get!TypeOK
<1>7. Overtakes  BY <1>1, <1>5, <1>6 DEF Overtakes
<1> QED  BY <1>3, <1>4, <1>7

LEMMA GetEvictKeeps ==
  ASSUME Get!McpAssumption, GetInv, NEW S \in SUBSET Errors, Get!Evict(S)
  PROVE  Get!TypeOK' /\ IssueInv' /\ Overtakes
<1> USE DEF GetInv
<1>1. /\ S # {} /\ S \subseteq Get!Stored
      /\ tier' = [r \in Errors |-> IF r \in S THEN "absent" ELSE tier[r]]
      /\ issue' = IF issue = None THEN None ELSE Get!Unseen(S)
      /\ kept' = kept \ S
      /\ moved' = moved \cup S
      /\ UNCHANGED <<received, call, lasting>>
  <2>1. S # {} /\ S \subseteq Get!Stored
    BY DEF Get!Evict, Get!Stored
  <2> QED  BY <2>1 DEF Get!Evict
<1>2. Get!Stored' = Get!Stored \ S  BY <1>1 DEF Get!Stored, Get!TypeOK
<1>3. issue # None  BY <1>1 DEF IssueInv
<1>4. issue' = [issue EXCEPT !.retained = @ - Cardinality(S),
                             !.latest = IF @ \in S THEN None ELSE @]
  BY <1>1, <1>3, GetCounts DEF Get!Unseen
<1>5. issue \in Get!IssueRow /\ issue.retained = Cardinality(Get!Stored)
  BY <1>3, GetCounts DEF Get!TypeOK
<1>6. /\ Cardinality(Get!Stored') = Cardinality(Get!Stored) - Cardinality(S)
      /\ Cardinality(Get!Stored') \in Nat
  <2>1. Cardinality(Get!Stored \ S) = Cardinality(Get!Stored) - Cardinality(S)
    BY <1>1, StoredCounts
  <2>2. IsFiniteSet(Get!Stored \ S)  BY StoredCounts, FS_Difference
  <2> QED  BY <1>2, <2>1, <2>2, FS_CardinalityType
<1>7. /\ issue'.last = issue.last
      /\ issue'.retained = Cardinality(Get!Stored')
      /\ issue'.latest = IF issue.latest \in S THEN None ELSE issue.latest
      /\ issue' \in Get!IssueRow
  BY <1>4, <1>5, <1>6 DEF Get!IssueRow
<1>8. issue' # None  BY <1>7 DEF Get!McpAssumption
<1>9. Get!TypeOK'
  <2>1. issue'.retained = Get!Cardinality(Get!Stored')  BY <1>7, GetCounts
  <2>2. tier' \in [Errors -> {"absent", "hot", "archived"}]
    BY <1>1 DEF Get!TypeOK
  <2>3. /\ call'.answer \in Errors \cup {None}
        /\ kept' \cup moved' \subseteq Errors
        /\ received' \in [Errors -> Nat]
    BY <1>1 DEF Get!TypeOK
  <2> QED  BY <1>7, <2>1, <2>2, <2>3 DEF Get!TypeOK
<1>10. IssueInv'
  BY <1>1, <1>2, <1>3, <1>7, <1>8 DEF IssueInv
<1>11. Overtakes
  <2>1. \A part \in Get!ArchivedParts : part \in Get!ArchivedParts' \/ part[1] \in moved' \ kept'
    BY <1>1 DEF Get!ArchivedParts, Get!TypeOK
  <2>2. \A r \in kept' : tier'[r] = tier[r]  BY <1>1 DEF Get!TypeOK
  <2> QED  BY <1>1, <2>1, <2>2 DEF Overtakes
<1> QED  BY <1>9, <1>10, <1>11

\* An issue goes when nothing of it is stored.
LEMMA GetEvictIssueKeeps ==
  ASSUME Get!McpAssumption, GetInv, Get!EvictIssue
  PROVE  Get!TypeOK' /\ IssueInv' /\ Overtakes
<1> USE DEF GetInv, Get!EvictIssue
<1>1. Get!Stored' = Get!Stored  BY DEF Get!Stored
<1>2. Get!TypeOK'  BY <1>1 DEF Get!TypeOK
<1>3. IssueInv'  BY <1>1 DEF IssueInv
<1>4. Overtakes  BY DEF Overtakes, Get!ArchivedParts
<1> QED  BY <1>2, <1>3, <1>4

LEMMA MutateKeeps ==
  ASSUME Get!McpAssumption, GetInv, Get!Mutate
  PROVE  GetInv'
<1>1. Get!TypeOK' /\ IssueInv' /\ Overtakes
  BY ArriveKeeps, GetArchiveKeeps, GetEvictKeeps, GetEvictIssueKeeps
  DEF Get!Mutate
<1> QED  BY <1>1, OvertakesKeeps DEF GetInv

\* Steps of the tool leave the store alone, and list no part that is not there.
LEMMA LookLeavesStore ==
  ASSUME Get!McpAssumption, GetInv, UNCHANGED Get!Store, call' \in GetCall,
         call'.listed \subseteq call.listed \cup Get!ArchivedParts
  PROVE  Get!TypeOK' /\ IssueInv' /\ LeftInv'
<1>1. Get!Stored' = Get!Stored  BY DEF Get!Stored, Get!Store
<1>2. Get!TypeOK'  BY <1>1 DEF GetInv, Get!TypeOK, Get!Store, GetCall
<1>3. IssueInv'  BY <1>1 DEF GetInv, IssueInv, Get!Store
<1>4. Get!ArchivedParts' = Get!ArchivedParts  BY DEF Get!ArchivedParts, Get!Store
<1>5. LeftInv'  BY <1>4 DEF GetInv, LeftInv, Get!Store
<1> QED  BY <1>2, <1>3, <1>5

LEMMA BeginKeeps ==
  ASSUME Get!McpAssumption, GetInv, NEW id \in Errors \cup {Issue}, Get!Begin(id)
  PROVE  GetInv'
<1> USE DEF GetInv
<1>1. /\ call' = [at |-> "ids", id |-> id, target |-> id, row |-> None,
                   listed |-> {}, answer |-> None]
      /\ kept' = Get!Stored /\ moved' = {} /\ lasting' = (issue # None)
      /\ UNCHANGED <<tier, received, issue>>
  BY DEF Get!Begin, Get!Idle
<1>2. Get!Stored' = Get!Stored /\ Get!Stored \subseteq Errors
  BY <1>1 DEF Get!Stored
<1>3. call' \in GetCall  BY <1>1 DEF GetCall
<1>4. Get!TypeOK'  BY <1>1, <1>2 DEF Get!TypeOK
<1>5. IssueInv'  BY <1>1, <1>2, <1>3 DEF IssueInv
<1>6. id # None  BY DEF Get!McpAssumption
<1>7. StepInv'  BY <1>1, <1>6 DEF StepInv
<1>8. LookInv'  BY <1>1 DEF LookInv
<1>9. EventInv'  BY <1>1 DEF EventInv
<1>10. LeftInv'  BY <1>1 DEF LeftInv
<1> QED  BY <1>4, <1>5, <1>7, <1>8, <1>9, <1>10

LEMMA LookHotKeeps ==
  ASSUME Get!McpAssumption, GetInv, Get!LookHot
  PROVE  GetInv'
<1> USE DEF GetInv
<1>1. call \in GetCall /\ UNCHANGED Get!Store  BY DEF Get!LookHot, IssueInv
<1>2. /\ call' \in GetCall
      /\ call'.at = IF call.target # Issue /\ tier[call.target] = "hot" THEN "row" ELSE "archive"
      /\ call'.id = call.id /\ call'.target = call.target
      /\ call'.row = call.row /\ call'.answer = call.answer
      /\ call'.listed = call.listed
      /\ call.at = "ids"
  BY <1>1 DEF Get!LookHot, Get!Goto, GetCall
<1>3. Get!TypeOK' /\ IssueInv' /\ LeftInv'  BY <1>1, <1>2, LookLeavesStore
<1> USE <1>1, <1>2 DEF Get!Store
<1>4. StepInv'  BY DEF StepInv, GetCall, Get!McpAssumption
<1>5. LookInv'  BY DEF LookInv, StepInv, IssueInv, Get!TypeOK, Get!Stored, Get!McpAssumption
<1>6. EventInv'
  BY DEF EventInv, StepInv, LookInv, IssueInv, Get!TypeOK, Get!Stored, GetCall, Get!IssueRow
<1> QED  BY <1>3, <1>4, <1>5, <1>6

LEMMA FetchRowKeeps ==
  ASSUME Get!McpAssumption, GetInv, Get!FetchRow
  PROVE  GetInv'
<1> USE DEF GetInv
<1>1. call \in GetCall /\ UNCHANGED Get!Store  BY DEF Get!FetchRow, IssueInv
<1>2. /\ call' \in GetCall
      /\ call'.at = IF call.row = None THEN "record" ELSE "latest"
      /\ call'.id = call.id /\ call'.target = call.target
      /\ call'.row = call.row /\ call'.listed = {}
      /\ call'.answer = IF tier[call.target] = "hot" THEN call.target ELSE None
      /\ call.at = "row"
  BY <1>1 DEF Get!FetchRow, Get!Fetched, GetCall, StepInv
<1>3. Get!TypeOK' /\ IssueInv' /\ LeftInv'  BY <1>1, <1>2, LookLeavesStore
<1> USE <1>1, <1>2 DEF Get!Store
<1>4. StepInv'  BY DEF StepInv, GetCall, Get!McpAssumption
<1>5. LookInv'  BY DEF LookInv, StepInv, IssueInv, Get!TypeOK, Get!Stored, Get!McpAssumption
<1>6. EventInv'
  BY DEF EventInv, StepInv, LookInv, IssueInv, Get!TypeOK, Get!Stored, GetCall, Get!IssueRow
<1> QED  BY <1>3, <1>4, <1>5, <1>6

LEMMA RecordAnsweredKeeps ==
  ASSUME Get!McpAssumption, GetInv, Get!RecordAnswered
  PROVE  GetInv'
<1> USE DEF GetInv
<1>1. call \in GetCall /\ UNCHANGED Get!Store  BY DEF Get!RecordAnswered, IssueInv
<1>2. /\ call' \in GetCall
      /\ call'.at = IF call.answer # None THEN "done" ELSE "issue"
      /\ call'.id = call.id /\ call'.target = call.target
      /\ call'.row = call.row /\ call'.answer = call.answer
      /\ call'.listed = call.listed
      /\ call.at = "record"
  BY <1>1 DEF Get!RecordAnswered, Get!Goto, GetCall
<1>3. Get!TypeOK' /\ IssueInv' /\ LeftInv'  BY <1>1, <1>2, LookLeavesStore
<1> USE <1>1, <1>2 DEF Get!Store
<1>4. StepInv'  BY DEF StepInv, GetCall, Get!McpAssumption
<1>5. LookInv'  BY DEF LookInv, StepInv, IssueInv, Get!TypeOK, Get!Stored, Get!McpAssumption
<1>6. EventInv'
  BY DEF EventInv, StepInv, LookInv, IssueInv, Get!TypeOK, Get!Stored, GetCall, Get!IssueRow
<1> QED  BY <1>3, <1>4, <1>5, <1>6

LEMMA LatestAnsweredKeeps ==
  ASSUME Get!McpAssumption, GetInv, Get!LatestAnswered
  PROVE  GetInv'
<1> USE DEF GetInv
<1>1. call \in GetCall /\ UNCHANGED Get!Store  BY DEF Get!LatestAnswered, IssueInv
<1>2. /\ call' \in GetCall
      /\ call'.at = IF call.answer = None /\ call.row.retained > 0 THEN "hot" ELSE "done"
      /\ call'.id = call.id /\ call'.target = call.target
      /\ call'.row = call.row /\ call'.answer = call.answer
      /\ call'.listed = call.listed
      /\ call.at = "latest"
  BY <1>1 DEF Get!LatestAnswered, Get!Goto, GetCall
<1>3. Get!TypeOK' /\ IssueInv' /\ LeftInv'  BY <1>1, <1>2, LookLeavesStore
<1> USE <1>1, <1>2 DEF Get!Store
<1>4. StepInv'  BY DEF StepInv, GetCall, Get!McpAssumption
<1>5. LookInv'  BY DEF LookInv, StepInv, IssueInv, Get!TypeOK, Get!Stored, Get!McpAssumption
<1>6. call.row \in Get!IssueRow /\ call.target = call.row.latest
  BY DEF GetCall, StepInv, EventInv
<1>7. call.answer = None /\ ~(call.row.retained > 0) => kept = {}
  BY <1>6 DEF EventInv, StepInv, Get!IssueRow
<1>8. call.answer # None => \A r \in kept : ErrorTime[r] <= ErrorTime[call.answer]
  BY <1>6 DEF EventInv, StepInv
<1>9. EventInv'  BY <1>7, <1>8 DEF EventInv, StepInv
<1> QED  BY <1>3, <1>4, <1>5, <1>9

\* An archived record is looked up, anything else was not found.
LEMMA LookArchiveKeeps ==
  ASSUME Get!McpAssumption, GetInv, Get!LookArchive
  PROVE  GetInv'
<1> USE DEF GetInv
<1>1. call \in GetCall /\ UNCHANGED Get!Store /\ call.at = "archive"
  BY DEF Get!LookArchive, IssueInv
<1>2. /\ call' \in GetCall
      /\ call'.id = call.id /\ call'.target = call.target /\ call'.row = call.row
      /\ \/ /\ call.target # Issue /\ tier[call.target] = "archived"
            /\ call'.at = "file" /\ call'.answer = call.answer
            /\ call'.listed = {<<call.target, received[call.target]>>}
         \/ /\ ~(call.target # Issue /\ tier[call.target] = "archived")
            /\ call'.at = IF call.row = None THEN "record" ELSE "latest"
            /\ call'.answer = None /\ call'.listed = {}
  <2>1. call.target \in Errors \cup {Issue}  BY <1>1 DEF StepInv, GetCall
  <2>2. CASE call.target # Issue /\ tier[call.target] = "archived"
    <3> DEFINE parts == {<<call.target, received[call.target]>>}
    <3>1. parts \in SUBSET (Errors \X Nat)  BY <2>1, <2>2 DEF Get!TypeOK
    <3>2. call' = [call EXCEPT !.at = "file", !.listed = parts]
      BY <2>2 DEF Get!LookArchive
    <3> HIDE DEF parts
    <3>3. /\ call' \in GetCall
          /\ call'.id = call.id /\ call'.target = call.target /\ call'.row = call.row
          /\ call'.at = "file" /\ call'.answer = call.answer /\ call'.listed = parts
      BY <1>1, <3>1, <3>2 DEF GetCall
    <3> QED  BY <2>2, <3>3 DEF parts
  <2>3. CASE ~(call.target # Issue /\ tier[call.target] = "archived")
    BY <1>1, <2>3 DEF Get!LookArchive, Get!Fetched, GetCall
  <2> QED  BY <2>2, <2>3
<1>3. call.target \in Errors \cup {Issue}  BY <1>1 DEF StepInv, GetCall
<1>4. call'.listed \subseteq Get!ArchivedParts  BY <1>2, <1>3 DEF Get!ArchivedParts
<1>5. call'.at = "file" => \A part \in call'.listed : part[1] = call'.target
  BY <1>2
<1>6. Get!TypeOK' /\ IssueInv' /\ LeftInv'  BY <1>1, <1>2, <1>4, LookLeavesStore
<1> USE <1>1, <1>2, <1>3 DEF Get!Store
<1>7. StepInv'  BY DEF StepInv, GetCall, Get!McpAssumption
<1>8. LookInv'
  BY <1>5 DEF LookInv, StepInv, IssueInv, Get!TypeOK, Get!Stored, Get!McpAssumption
<1>9. EventInv'  BY DEF EventInv, StepInv, LookInv, IssueInv
<1> QED  BY <1>6, <1>7, <1>8, <1>9

\* A part that is gone takes the request with it, or its record.
LEMMA ReadPartKeeps ==
  ASSUME Get!McpAssumption, GetInv, Get!ReadPart
  PROVE  GetInv'
<1> USE DEF GetInv
<1>1. call \in GetCall /\ UNCHANGED Get!Store /\ call.at = "file"
  BY DEF Get!ReadPart, IssueInv
<1>2. /\ call' \in GetCall
      /\ call'.id = call.id /\ call'.target = call.target /\ call'.row = call.row
      /\ \/ /\ call'.at = IF call.row = None THEN "record" ELSE "latest"
            /\ call'.answer = IF call.listed \subseteq Get!ArchivedParts THEN call.target ELSE None
            /\ call'.listed = {}
         \/ /\ ~(call.listed \subseteq Get!ArchivedParts)
            /\ call'.at = "failed" /\ call'.answer = call.answer
            /\ call'.listed = call.listed
  BY <1>1 DEF Get!ReadPart, Get!Fetched, Get!Goto, GetCall, StepInv
<1>3. Get!TypeOK' /\ IssueInv' /\ LeftInv'  BY <1>1, <1>2, LookLeavesStore
<1>7. ~(call.listed \subseteq Get!ArchivedParts) =>
         /\ call.target \notin kept
         /\ \E part \in call.listed : part[1] \in moved \ kept
  BY <1>1 DEF LeftInv, LookInv
<1> USE <1>1, <1>2, <1>7 DEF Get!Store
<1>4. StepInv'  BY DEF StepInv, GetCall, Get!McpAssumption
<1>5. LookInv'  BY DEF LookInv, StepInv, IssueInv, Get!McpAssumption
<1>6. EventInv'  BY DEF EventInv, StepInv, LookInv, IssueInv
<1> QED  BY <1>3, <1>4, <1>5, <1>6

\* The row that is found tells of every record that is stored then.
LEMMA FindIssueKeeps ==
  ASSUME Get!McpAssumption, GetInv, Get!FindIssue
  PROVE  GetInv'
<1> USE DEF GetInv
<1>1. /\ call \in GetCall /\ UNCHANGED Get!Store
      /\ call.at = "issue" /\ call.row = None /\ call.answer = None
      /\ call.target = call.id
  BY DEF Get!FindIssue, IssueInv, StepInv
<1>2. CASE call.id # Issue \/ issue = None
  <2>1. /\ call' \in GetCall
        /\ call'.at = "not found"
        /\ call'.id = call.id /\ call'.target = call.target
        /\ call'.row = None /\ call'.answer = None /\ call'.listed = call.listed
    BY <1>1, <1>2 DEF Get!FindIssue, Get!Goto, GetCall
  <2>2. Get!TypeOK' /\ IssueInv' /\ LeftInv'  BY <1>1, <2>1, LookLeavesStore
  <2> USE <1>1, <1>2, <2>1 DEF Get!Store
  <2>3. StepInv'  BY DEF StepInv
  <2>4. LookInv'  BY DEF LookInv, IssueInv
  <2>5. EventInv'  BY DEF EventInv
  <2> QED  BY <2>2, <2>3, <2>4, <2>5
<1>3. CASE call.id = Issue /\ issue # None
  <2>1. issue \in Get!IssueRow  BY <1>3 DEF Get!TypeOK
  <2>2. /\ call' \in GetCall
        /\ call'.at = IF issue.latest = None THEN "latest" ELSE "ids"
        /\ call'.id = Issue /\ call'.target = issue.latest
        /\ call'.row = issue /\ call'.answer = None /\ call'.listed = call.listed
    BY <1>1, <1>3, <2>1 DEF Get!FindIssue, GetCall, Get!IssueRow
  <2>3. Get!TypeOK' /\ IssueInv' /\ LeftInv'  BY <1>1, <2>2, LookLeavesStore
  <2>4. issue.retained = 0 => kept = {}
    <3>1. issue.retained = Cardinality(Get!Stored)
      BY <1>3, GetCounts DEF Get!TypeOK
    <3>2. issue.retained = 0 => Get!Stored = {}
      BY <3>1, StoredCounts, FS_EmptySet
    <3> QED  BY <3>2 DEF IssueInv
  <2>5. issue.latest # None => \A r \in kept : ErrorTime[r] <= ErrorTime[issue.latest]
    BY <1>3 DEF IssueInv
  <2> USE <1>1, <1>3, <2>2 DEF Get!Store
  <2>6. StepInv'  BY DEF StepInv
  <2>7. LookInv'  BY DEF LookInv
  <2>8. EventInv'  BY <2>4, <2>5 DEF EventInv
  <2> QED  BY <2>3, <2>6, <2>7, <2>8
<1> QED  BY <1>2, <1>3

\* The newest hot record, or none: what stays and is not in the archive is not
\* newer.
LEMMA SearchHotKeeps ==
  ASSUME Get!McpAssumption, GetInv, Get!SearchHot
  PROVE  GetInv'
<1> USE DEF GetInv
<1>1. /\ call \in GetCall /\ UNCHANGED Get!Store
      /\ call.at = "hot" /\ call.row # None
  BY DEF Get!SearchHot, IssueInv, StepInv
<1>2. PICK r \in Get!Newest(Get!InTier("hot")) :
        call' = [call EXCEPT !.at = "cold", !.answer = r]
  BY DEF Get!SearchHot
<1>3. /\ r \in Errors \cup {None}
      /\ \A s \in Get!InTier("hot") : r # None /\ ErrorTime[s] <= ErrorTime[r]
  BY DEF Get!Newest, Get!InTier, Get!McpAssumption
<1>4. /\ call' \in GetCall
      /\ call'.at = "cold" /\ call'.answer = r
      /\ call'.id = call.id /\ call'.target = call.target /\ call'.row = call.row
      /\ call'.listed = call.listed
  BY <1>1, <1>2, <1>3 DEF GetCall
<1>5. Get!TypeOK' /\ IssueInv' /\ LeftInv'  BY <1>1, <1>4, LookLeavesStore
<1>6. \A s \in kept : tier[s] = "archived" \/ s \in Get!InTier("hot")
  BY DEF IssueInv, Get!Stored, Get!InTier, Get!TypeOK
<1> USE <1>1, <1>4 DEF Get!Store
<1>7. StepInv'  BY DEF StepInv
<1>8. LookInv'  BY DEF LookInv
<1>9. EventInv'  BY <1>3, <1>6 DEF EventInv
<1> QED  BY <1>5, <1>7, <1>8, <1>9

\* What stays in the archive is listed.
LEMMA ListArchiveKeeps ==
  ASSUME Get!McpAssumption, GetInv, Get!ListArchive
  PROVE  GetInv'
<1> USE DEF GetInv
<1>1. /\ call \in GetCall /\ UNCHANGED Get!Store
      /\ call.at = "cold" /\ call.row # None
  BY DEF Get!ListArchive, IssueInv, StepInv
<1>2. Get!ArchivedParts \in SUBSET (Errors \X Nat)  BY DEF Get!ArchivedParts, Get!TypeOK
<1>3. /\ call' \in GetCall
      /\ call'.at = "files" /\ call'.listed = Get!ArchivedParts /\ call'.answer = call.answer
      /\ call'.id = call.id /\ call'.target = call.target /\ call'.row = call.row
  BY <1>1, <1>2 DEF Get!ListArchive, GetCall
<1>4. Get!TypeOK' /\ IssueInv' /\ LeftInv'  BY <1>1, <1>3, LookLeavesStore
<1>5. \A r \in kept : tier[r] = "archived" => r \in Get!Listed'
  <2>1. \A r \in kept : tier[r] = "archived" => <<r, received[r]>> \in Get!ArchivedParts
    BY DEF Get!ArchivedParts, Get!TypeOK
  <2>2. Get!Listed' = {part[1] : part \in Get!ArchivedParts}  BY <1>3 DEF Get!Listed
  <2>3. \A r : <<r, received[r]>>[1] = r  OBVIOUS
  <2> QED  BY <2>1, <2>2, <2>3
<1> USE <1>1, <1>3 DEF Get!Store
<1>6. StepInv'  BY DEF StepInv
<1>7. LookInv'  BY DEF LookInv
<1>8. EventInv'  BY <1>5 DEF EventInv
<1> QED  BY <1>4, <1>6, <1>7, <1>8

\* If all of it is still there, it is read.
LEMMA SearchArchiveKeeps ==
  ASSUME Get!McpAssumption, GetInv, Get!SearchArchive
  PROVE  GetInv'
<1> USE DEF GetInv
<1>1. /\ call \in GetCall /\ UNCHANGED Get!Store
      /\ call.at = "files" /\ call.row # None
  BY DEF Get!SearchArchive, IssueInv, StepInv
<1> DEFINE rows == Get!Listed \cup ({call.answer} \ {None})
<1>2. CASE call.listed \subseteq Get!ArchivedParts
  <2>1. PICK r \in Get!Newest(rows) :
          call' = [call EXCEPT !.at = "done", !.answer = r]
    BY <1>2 DEF Get!SearchArchive, Get!Search
  <2>2. rows \subseteq Errors /\ None \notin rows
    <3>1. call.listed \subseteq Errors \X Nat  BY <1>1 DEF GetCall
    <3>2. Get!Listed \subseteq Errors  BY <3>1 DEF Get!Listed
    <3>3. {call.answer} \ {None} \subseteq Errors  BY <1>1 DEF GetCall
    <3> QED  BY <3>2, <3>3 DEF Get!McpAssumption
  <2>3. /\ r \in Errors \cup {None}
        /\ \A s \in rows : r # None /\ ErrorTime[s] <= ErrorTime[r]
    BY <2>2 DEF Get!Newest
  <2>4. \A s \in kept : \/ s \in rows
                        \/ call.answer \in rows /\ ErrorTime[s] <= ErrorTime[call.answer]
    BY <1>1 DEF EventInv
  <2> HIDE DEF rows
  <2>5. \A s \in kept : r # None /\ ErrorTime[s] <= ErrorTime[r]
    <3>1. ErrorTime \in [Errors -> Nat] /\ kept \subseteq Errors
      BY DEF Get!McpAssumption, Get!TypeOK
    <3> QED  BY <2>2, <2>3, <2>4, <3>1
  <2>6. /\ call' \in GetCall
        /\ call'.at = "done" /\ call'.answer = r /\ call'.listed = call.listed
        /\ call'.id = call.id /\ call'.target = call.target /\ call'.row = call.row
    BY <1>1, <2>1, <2>3 DEF GetCall
  <2>7. Get!TypeOK' /\ IssueInv' /\ LeftInv'  BY <1>1, <2>6, LookLeavesStore
  <2> USE <1>1, <2>6 DEF Get!Store
  <2>8. StepInv'  BY DEF StepInv
  <2>9. LookInv'  BY DEF LookInv
  <2>10. EventInv'  BY <2>5 DEF EventInv
  <2> QED  BY <2>7, <2>8, <2>9, <2>10
<1>3. CASE ~(call.listed \subseteq Get!ArchivedParts)
  <2>1. \E part \in call.listed : part[1] \in moved \ kept
    BY <1>3 DEF LeftInv
  <2>2. /\ call' \in GetCall
        /\ call'.at = "failed" /\ call'.listed = call.listed
        /\ call'.id = call.id /\ call'.target = call.target /\ call'.row = call.row
        /\ call'.answer = call.answer
    BY <1>1, <1>3 DEF Get!SearchArchive, Get!Search, Get!Goto, GetCall
  <2>3. Get!TypeOK' /\ IssueInv' /\ LeftInv'  BY <1>1, <2>2, LookLeavesStore
  <2> USE <1>1, <2>2 DEF Get!Store
  <2>4. StepInv'  BY DEF StepInv
  <2>5. LookInv'  BY <2>1 DEF LookInv
  <2>6. EventInv'  BY DEF EventInv
  <2> QED  BY <2>3, <2>4, <2>5, <2>6
<1> QED  BY <1>2, <1>3

LEMMA ReturnKeeps ==
  ASSUME Get!McpAssumption, GetInv, Get!Return
  PROVE  GetInv'
<1> USE DEF GetInv
<1>1. /\ UNCHANGED Get!Store
      /\ call' = [at |-> "idle", id |-> None, target |-> None, row |-> None,
                  listed |-> {}, answer |-> None]
  BY DEF Get!Return, Get!Idle
<1>2. call' \in GetCall  BY <1>1 DEF GetCall
<1>3. Get!TypeOK' /\ IssueInv' /\ LeftInv'  BY <1>1, <1>2, LookLeavesStore
<1>4. StepInv' /\ LookInv' /\ EventInv'
  BY <1>1 DEF StepInv, LookInv, EventInv
<1> QED  BY <1>3, <1>4

LEMMA GetInvKept == ASSUME Get!McpAssumption PROVE Get!Spec => []GetInv
<1>1. Get!Init => GetInv  BY GetBegins
<1>2. GetInv /\ [Get!Next]_(Get!vars) => GetInv'
  <2> SUFFICES ASSUME GetInv, [Get!Next]_(Get!vars)  PROVE GetInv'
    OBVIOUS
  <2>1. CASE Get!Next
    BY <2>1, MutateKeeps, BeginKeeps, LookHotKeeps, FetchRowKeeps, LookArchiveKeeps,
       ReadPartKeeps, RecordAnsweredKeeps, FindIssueKeeps, LatestAnsweredKeeps,
       SearchHotKeeps, ListArchiveKeeps, SearchArchiveKeeps, ReturnKeeps
    DEF Get!Next, Get!Tool
  <2>2. CASE UNCHANGED Get!vars
    <3>1. Get!Stored' = Get!Stored  BY <2>2 DEF Get!vars, Get!Stored
    <3>2. Get!TypeOK' /\ IssueInv'
      BY <2>2, <3>1 DEF Get!vars, GetInv, Get!TypeOK, IssueInv
    <3>3. StepInv' /\ LookInv'
      BY <2>2 DEF Get!vars, GetInv, StepInv, LookInv
    <3>4. Get!ArchivedParts' = Get!ArchivedParts /\ Get!Listed' = Get!Listed
      BY <2>2 DEF Get!vars, Get!ArchivedParts, Get!Listed
    <3>5. LeftInv'  BY <2>2, <3>4 DEF Get!vars, GetInv, LeftInv
    <3>6. EventInv'  BY <2>2, <3>4 DEF Get!vars, GetInv, EventInv
    <3> QED  BY <3>2, <3>3, <3>5, <3>6 DEF GetInv
  <2> QED  BY <2>1, <2>2
<1> QED  BY <1>1, <1>2, PTL DEF Get!Spec

\* The get tool of the bridge (mcp.rs), which asks the daemon up to four times
\* while records move and go: it misses no record that stayed where it was, it
\* shows an issue with the latest event that stayed, and it fails only when an
\* eviction took what it was about to read.
THEOREM GetToolFindsWhatStays ==
  ASSUME Get!McpAssumption
  PROVE  Get!Spec => []GetFindsWhatStays
<1>1. GetInv => GetFindsWhatStays
  <2> SUFFICES ASSUME GetInv  PROVE Get!GetFindsWhatStays
    BY DEF GetFindsWhatStays
  <2> USE DEF GetInv
  <2>1. Get!NotFoundIsRight
    BY DEF Get!NotFoundIsRight, LookInv, StepInv
  <2>2. Get!IssueHasItsEvent
    BY DEF Get!IssueHasItsEvent, EventInv, StepInv, Get!McpAssumption
  <2>3. Get!ShowsTheLatest
    BY DEF Get!ShowsTheLatest, EventInv, StepInv, Get!McpAssumption
  <2>4. Get!FailsOnlyWhenEvicted
    BY DEF Get!FailsOnlyWhenEvicted, LookInv
  <2> QED  BY <2>1, <2>2, <2>3, <2>4 DEF Get!GetFindsWhatStays
<1> QED  BY <1>1, GetInvKept, PTL

-----------------------------------------------------------------------------
(* Cursor pages of records.  What sorting and truncating keep of rows.     *)

LEMMA NewerOrders ==
  ASSUME PageAssumption, NEW rows \in SUBSET PageRecords
  PROVE  /\ IsFiniteSet(rows) /\ Cardinality(rows) \in Nat
         /\ \A r \in rows : Newer(r, rows) \in 0..(Cardinality(rows) - 1)
         /\ \A r, s \in rows : Rank[r] > Rank[s] <=> Newer(r, rows) < Newer(s, rows)
         /\ \A k \in 1..Cardinality(rows) : \E r \in rows : Newer(r, rows) = k - 1
<1> DEFINE R == {p \in rows \X rows : Rank[p[1]] > Rank[p[2]]}
           place == PlaceIn(rows, R)
<1>1. /\ IsFiniteSet(rows) /\ Cardinality(rows) \in Nat
      /\ Rank \in [PageRecords -> Nat \ {0}]
      /\ \A r, s \in PageRecords : Rank[r] = Rank[s] => r = s
  BY FS_Subset, FS_CardinalityType DEF PageAssumption
<1>2. StrictOrder(rows, R)
  <2>1. \A r, s \in rows : <<r, s>> \in R <=> Rank[r] > Rank[s]  OBVIOUS
  <2>2. \A r \in rows : Rank[r] \in Nat  BY <1>1
  <2> HIDE DEF R
  <2>3. \A r \in rows : <<r, r>> \notin R  BY <2>1, <2>2
  <2>4. ASSUME NEW r \in rows, NEW s \in rows, NEW t \in rows,
               <<r, s>> \in R, <<s, t>> \in R
        PROVE  <<r, t>> \in R
    <3>1. Rank[r] > Rank[s] /\ Rank[s] > Rank[t]  BY <2>1, <2>4
    <3>2. Rank[r] > Rank[t]  BY <2>2, <3>1
    <3> QED  BY <2>1, <3>2
  <2>5. ASSUME NEW r \in rows, NEW s \in rows
        PROVE  r = s \/ <<r, s>> \in R \/ <<s, r>> \in R
    <3>1. Rank[r] = Rank[s] \/ Rank[r] > Rank[s] \/ Rank[s] > Rank[r]  BY <2>2
    <3> QED  BY <1>1, <2>1, <3>1
  <2> QED  BY <2>3, <2>4, <2>5 DEF StrictOrder
<1>3. \A r \in rows : Before(rows, R, r) = {s \in rows : Rank[s] > Rank[r]}
  BY DEF Before
<1>4. \A r \in rows : Newer(r, rows) = Cardinality(Before(rows, R, r))
  BY <1>3 DEF Newer
<1>5. \A r, s \in rows : <<r, s>> \in R <=> Rank[r] > Rank[s]  OBVIOUS
<1>6. /\ place \in Bijection(rows, 1..Cardinality(rows))
  BY <1>1, <1>2, Ranking
<1>7. \A r \in rows : place[r] = Newer(r, rows) + 1  BY <1>4 DEF PlaceIn
<1> HIDE DEF R, place
<1>8. ASSUME NEW r \in rows  PROVE Newer(r, rows) \in 0..(Cardinality(rows) - 1)
  <2>1. Cardinality(Before(rows, R, r)) \in 0..(Cardinality(rows) - 1)
    BY <1>1, <1>2, BeforeGrows
  <2> QED  BY <1>4, <2>1
<1>9. ASSUME NEW r \in rows, NEW s \in rows
      PROVE  Rank[r] > Rank[s] <=> Newer(r, rows) < Newer(s, rows)
  <2>1. <<r, s>> \in R <=> Cardinality(Before(rows, R, r)) < Cardinality(Before(rows, R, s))
    BY <1>1, <1>2, BeforeGrows
  <2>2. /\ Newer(r, rows) = Cardinality(Before(rows, R, r))
        /\ Newer(s, rows) = Cardinality(Before(rows, R, s))
    BY <1>4
  <2> QED  BY <1>5, <2>1, <2>2
<1>10. ASSUME NEW k \in 1..Cardinality(rows)
       PROVE  \E r \in rows : Newer(r, rows) = k - 1
  <2>1. PICK r \in rows : place[r] = k  BY <1>6 DEF Bijection, Surjection
  <2>2. Newer(r, rows) + 1 = k /\ Newer(r, rows) \in Nat  BY <1>7, <1>8, <2>1
  <2> QED  BY <2>2
<1> QED  BY <1>1, <1>8, <1>9, <1>10

\* Sorting keeps all rows, newest first.
LEMMA NewestSorts ==
  ASSUME PageAssumption, NEW rows \in SUBSET PageRecords
  PROVE  /\ Sorted(rows) \in Seq(rows)
         /\ Len(Sorted(rows)) = Cardinality(rows)
         /\ ToSet(Sorted(rows)) = rows
         /\ \A i, j \in 1..Cardinality(rows) :
               i < j => Rank[Sorted(rows)[i]] > Rank[Sorted(rows)[j]]
<1> DEFINE n == Cardinality(rows)
           s == Sorted(rows)
<1>1. n \in Nat  BY NewerOrders
<1>2. ASSUME NEW k \in 1..n
      PROVE  s[k] \in rows /\ Newer(s[k], rows) = k - 1
  <2>1. \E r \in rows : Newer(r, rows) = k - 1  BY NewerOrders
  <2>2. s[k] = CHOOSE r \in rows : Newer(r, rows) = k - 1  BY DEF Sorted
  <2> QED  BY <2>1, <2>2
<1>3. s \in [1..n -> rows]  BY <1>2 DEF Sorted
<1> HIDE DEF n, s
<1>4. s \in Seq(rows) /\ Len(s) = n  BY <1>1, <1>3
<1>5. ASSUME NEW r \in rows  PROVE \E k \in 1..n : s[k] = r
  <2>1. Newer(r, rows) \in 0..(n - 1)  BY NewerOrders DEF n
  <2>2. Newer(r, rows) + 1 \in 1..n  BY <1>1, <2>1
  <2>3. PICK k \in 1..n : k = Newer(r, rows) + 1  BY <2>2
  <2>4. Newer(s[k], rows) = Newer(r, rows)  BY <1>2, <2>1, <2>3
  <2>5. s[k] \in rows  BY <1>2
  <2>6. ~(Rank[s[k]] > Rank[r]) /\ ~(Rank[r] > Rank[s[k]])
    BY <2>1, <2>4, <2>5, NewerOrders
  <2>7. s[k] = r  BY <2>5, <2>6 DEF PageAssumption
  <2> QED  BY <2>7
<1>6. ToSet(s) = rows  BY <1>2, <1>4, <1>5 DEF ToSet
<1>7. \A i, j \in 1..n : i < j => Rank[s[i]] > Rank[s[j]]
  BY <1>1, <1>2, NewerOrders
<1> QED  BY <1>4, <1>6, <1>7 DEF n, s

\* Truncating keeps the newest, as many as a page may have.
LEMMA TopCuts ==
  ASSUME PageAssumption, NEW rows \in SUBSET PageRecords
  PROVE  /\ Top(rows) \in SUBSET rows
         /\ Cardinality(Top(rows)) =
               IF Cardinality(rows) > Limit THEN Limit ELSE Cardinality(rows)
         /\ \A r \in rows \ Top(rows) :
               Cardinality(rows) > Limit /\ \A t \in Top(rows) : Rank[t] > Rank[r]
<1> DEFINE n == Cardinality(rows)
           m == IF n > Limit THEN Limit ELSE n
           f == [r \in Top(rows) |-> Newer(r, rows) + 1]
<1>1. n \in Nat /\ Limit \in Nat \ {0}  BY NewerOrders DEF PageAssumption
<1>2. Top(rows) \in SUBSET rows  BY DEF Top
<1>3. \A r \in rows : Newer(r, rows) \in 0..(n - 1)  BY NewerOrders
<1>4. ASSUME NEW r \in rows \ Top(rows), NEW t \in Top(rows)
      PROVE  Rank[t] > Rank[r]
  BY <1>1, <1>3, NewerOrders DEF Top
<1>5. ASSUME NEW r \in rows \ Top(rows)  PROVE n > Limit
  BY <1>1, <1>3 DEF Top
<1>6. f \in Bijection(Top(rows), 1..m)
  <2>1. \A r \in Top(rows) : Newer(r, rows) + 1 \in 1..m
    BY <1>1, <1>3 DEF Top
  <2>2. f \in [Top(rows) -> 1..m]  BY <2>1
  <2>3. ASSUME NEW r \in Top(rows), NEW s \in Top(rows), f[r] = f[s]
        PROVE  r = s
    <3>1. Newer(r, rows) = Newer(s, rows)  BY <1>2, <1>3, <2>3
    <3>2. ~(Rank[s] > Rank[r]) /\ ~(Rank[r] > Rank[s])
      BY <1>2, <1>3, <3>1, NewerOrders
    <3> QED  BY <1>2, <3>2 DEF PageAssumption
  <2>4. ASSUME NEW k \in 1..m  PROVE \E r \in Top(rows) : f[r] = k
    <3>1. k \in 1..n  BY <1>1
    <3>2. PICK r \in rows : Newer(r, rows) = k - 1  BY <3>1, NewerOrders
    <3>3. r \in Top(rows) /\ f[r] = k  BY <1>1, <3>2 DEF Top
    <3> QED  BY <3>3
  <2> QED  BY <2>2, <2>3, <2>4 DEF Bijection, Injection, Surjection, IsInjective
<1>7. IsFiniteSet(1..m) /\ Cardinality(1..m) = m /\ m \in Nat
  <2>1. m \in Nat  BY <1>1
  <2> HIDE DEF m
  <2>2. IsFiniteSet(1..m) /\ Cardinality(1..m) = IF 1 > m THEN 0 ELSE m - 1 + 1
    BY <2>1, FS_Interval
  <2> QED  BY <2>1, <2>2
<1>8. IsFiniteSet(Top(rows))  BY <1>2, FS_Subset, NewerOrders
<1> HIDE DEF f
<1>9. ExistsBijection(Top(rows), 1..m)  BY <1>6 DEF ExistsBijection
<1>10. Cardinality(Top(rows)) = m  BY <1>7, <1>8, <1>9, FS_Bijection
<1> QED  BY <1>2, <1>4, <1>5, <1>10

\* What has a page full of newer rows does not get into a page.
LEMMA TopStaysAbove ==
  ASSUME PageAssumption, NEW page \in SUBSET PageRecords, NEW T \in SUBSET page,
         Cardinality(T) >= Limit, NEW r \in PageRecords, \A t \in T : Rank[t] > Rank[r]
  PROVE  \A p \in Top(page) : Rank[p] > Rank[r]
<1> SUFFICES ASSUME NEW p \in Top(page), ~(Rank[p] > Rank[r])  PROVE FALSE
  OBVIOUS
<1>1. Rank \in [PageRecords -> Nat \ {0}] /\ p \in page /\ Limit \in Nat \ {0}
  BY DEF PageAssumption, Top
<1> DEFINE above == {s \in page : Rank[s] > Rank[p]}
<1>2. T \in SUBSET above  BY <1>1
<1>3. IsFiniteSet(above) /\ Cardinality(above) \in Nat /\ Cardinality(T) \in Nat
  BY NewerOrders
<1>4. Cardinality(T) <= Cardinality(above)  BY <1>2, <1>3, FS_Subset
<1>5. Newer(p, page) = Cardinality(above)  BY DEF Newer
<1> QED  BY <1>1, <1>3, <1>4, <1>5 DEF Top

-----------------------------------------------------------------------------
(* The invariant of a client that reads page after page.                   *)

\* What was stored since the first page is still stored, in one tier; the
\* cursor is where the pages so far, all of them full, end.
CursorInv ==
    /\ held \subseteq Present
    /\ hot \cap cold = {}
    /\ at = "first" => cursor = None
    /\ at \in {"first", "scan"} /\ cursor = None => seen = <<>>
    /\ at = "between" => cursor # None
    /\ at # "last" => Len(seen) % Limit = 0
    /\ at \in {"scan", "between"} /\ cursor # None =>
          \A i \in 1..Len(seen) : Rank[seen[i]] >= cursor

\* The scan takes what the page asks for, newest millisecond first, and stops
\* at a millisecond only when it has more than a page.
ScanInv ==
    /\ found \subseteq {r \in Wanted : Beyond(r)}
    /\ \A f \in found, t \in todo : Ms[t] <= Ms[f]
    /\ boundary # None =>
          Cardinality(found) > Limit /\ \A f \in found : Ms[f] >= boundary

\* What the scan looks for it will meet, has taken, or is too old for the page.
MissInv ==
    \A r \in held \cap Wanted \cap hot :
        Beyond(r) => \/ r \in todo \/ r \in found
                     \/ boundary # None /\ Ms[r] < boundary

\* All that is not beyond the cursor was shown.
SeenInv ==
    \A r \in held \cap Wanted :
        \/ at = "last"
        \/ at \in {"scan", "between"} /\ cursor # None /\ Rank[r] >= cursor
        => r \in ToSet(seen)

PageInv ==
    /\ PagesTypeOK /\ NewestFirst /\ OnlyAsked /\ CursorInv /\ SeenInv
    /\ at = "scan" => ScanInv /\ MissInv

\* The assumptions on the constants that the provers need most.
LEMMA PageConstants ==
  ASSUME PageAssumption
  PROVE  /\ Rank \in [PageRecords -> Nat \ {0}] /\ Ms \in [PageRecords -> Nat]
         /\ \A r, s \in PageRecords : Rank[r] = Rank[s] => r = s
         /\ \A r, s \in PageRecords : Ms[s] < Ms[r] => Rank[r] > Rank[s]
         /\ Limit \in Nat \ {0} /\ None \notin Nat /\ Wanted \in SUBSET PageRecords
         /\ Start \in Nat /\ End \in Nat
<1>1. \A r, s \in PageRecords : Ms[s] < Ms[r] => Rank[r] > Rank[s]
  <2> SUFFICES ASSUME NEW r \in PageRecords, NEW s \in PageRecords, Ms[s] < Ms[r], ~(Rank[r] > Rank[s])
               PROVE  FALSE
    OBVIOUS
  <2>1. Rank[r] \in Nat /\ Rank[s] \in Nat /\ Ms[r] \in Nat /\ Ms[s] \in Nat
    BY DEF PageAssumption
  <2>2. Rank[r] = Rank[s] \/ Rank[r] < Rank[s]  BY <2>1
  <2>3. r = s \/ Ms[r] <= Ms[s]  BY <2>2 DEF PageAssumption
  <2> QED  BY <2>1, <2>3
<1> QED  BY <1>1 DEF PageAssumption, Wanted

LEMMA PagesBegin == ASSUME PageAssumption PROVE PagesInit => PageInv
<1> SUFFICES ASSUME PagesInit  PROVE PageInv
  OBVIOUS
<1> USE DEF PagesInit
<1>1. seen = <<>> /\ Len(seen) = 0 /\ ToSet(seen) = {} /\ Len(seen) % Limit = 0
  BY DEF ToSet, PageAssumption
<1>2. PagesTypeOK  BY <1>1 DEF PagesTypeOK, PageAssumption
<1>3. NewestFirst /\ OnlyAsked  BY <1>1 DEF NewestFirst, OnlyAsked
<1>4. CursorInv /\ SeenInv  BY <1>1 DEF CursorInv, SeenInv, Present
<1> QED  BY <1>2, <1>3, <1>4 DEF PageInv

\* Arrivals, archival and evictions, between any two steps of a page.
LEMMA WritersKeepPages ==
  ASSUME PageAssumption, PageInv, Writers
  PROVE  PageInv'
<1> USE DEF PageInv
<1>1. /\ UNCHANGED <<at, cursor, todo, found, boundary, seen>>
      /\ hot' \in SUBSET PageRecords /\ cold' \in SUBSET PageRecords
      /\ held' \subseteq held /\ held' \subseteq Present'
      /\ hot' \cap cold' = {} /\ held' \cap hot' \subseteq hot
  <2>1. ASSUME NEW r \in PageRecords, Insert(r)  PROVE <1>1!:
    BY <2>1 DEF Insert, PagesTypeOK, CursorInv, Present, scan
  <2>2. ASSUME NEW rows \in SUBSET hot, ArchiveRows(rows)  PROVE <1>1!:
    BY <2>2 DEF ArchiveRows, PagesTypeOK, CursorInv, Present, scan
  <2>3. ASSUME NEW r \in Present, Evict(r)  PROVE <1>1!:
    BY <2>3 DEF Evict, PagesTypeOK, CursorInv, Present, scan
  <2> QED  BY <2>1, <2>2, <2>3 DEF Writers
<1>2. PagesTypeOK' /\ NewestFirst' /\ OnlyAsked'
  BY <1>1 DEF PagesTypeOK, NewestFirst, OnlyAsked, Wanted, InRange
<1>3. CursorInv'  BY <1>1 DEF CursorInv
<1>4. SeenInv'  BY <1>1 DEF SeenInv, Wanted, InRange
<1>5. at = "scan" => ScanInv' /\ MissInv'
  BY <1>1 DEF ScanInv, MissInv, Wanted, InRange, Beyond
<1> QED  BY <1>1, <1>2, <1>3, <1>4, <1>5

LEMMA BeginPageKeeps ==
  ASSUME PageAssumption, PageInv, BeginPage
  PROVE  PageInv'
<1> USE DEF PageInv, BeginPage, store
<1>1. PagesTypeOK' /\ NewestFirst' /\ OnlyAsked'
  BY DEF PagesTypeOK, NewestFirst, OnlyAsked, Wanted, InRange, Present
<1>2. CursorInv'  BY DEF CursorInv, Present
<1>3. SeenInv'  BY DEF SeenInv, CursorInv, Wanted, InRange
<1>4. ScanInv' /\ MissInv'
  BY DEF ScanInv, MissInv, Wanted, InRange
<1> QED  BY <1>1, <1>2, <1>3, <1>4


LEMMA ScanEntryKeeps ==
  ASSUME PageAssumption, PageInv, NEW r \in todo, ScanEntry(r)
  PROVE  PageInv'
<1> DEFINE taken == found \cup {r}
           takes == Ms[r] <= End /\ Beyond(r) /\ r \in Matching
           stops == Ms[r] < Start \/ PastBoundary(r)
<1>1. /\ at = "scan" /\ Latest(r) /\ ScanInv /\ MissInv
      /\ UNCHANGED <<hot, cold, at, cursor, seen, held>>
  BY DEF ScanEntry, PageInv, store
<1>2. /\ r \in PageRecords /\ todo \in SUBSET PageRecords /\ found \in SUBSET PageRecords
      /\ boundary \in Nat \cup {None} /\ cursor \in Nat \cup {None}
      /\ Rank \in [PageRecords -> Nat \ {0}] /\ Ms \in [PageRecords -> Nat]
      /\ Limit \in Nat \ {0} /\ None \notin Nat /\ Start \in Nat /\ End \in Nat
  BY PageConstants DEF PageInv, PagesTypeOK
<1>3. \/ r \notin hot /\ todo' = todo \ {r} /\ UNCHANGED <<found, boundary>>
      \/ r \in hot /\ stops /\ todo' = {} /\ UNCHANGED <<found, boundary>>
      \/ /\ r \in hot /\ ~stops /\ ~takes
         /\ todo' = todo \ {r} /\ UNCHANGED <<found, boundary>>
      \/ /\ r \in hot /\ ~stops /\ takes
         /\ todo' = todo \ {r} /\ found' = taken
         /\ boundary' = IF Cardinality(taken) > Limit THEN Ms[r] ELSE boundary
  BY DEF ScanEntry
<1>4. /\ todo' \subseteq todo /\ found \subseteq found' /\ found' \subseteq taken
      /\ r \in found' /\ r \notin found => takes /\ ~stops
      /\ r \notin todo'
  BY <1>3
<1>5. boundary' = boundary \/ (boundary' = Ms[r] /\ Cardinality(taken) > Limit /\ found' = taken /\ ~stops)
  BY <1>3
<1>6. UNCHANGED found \/ (found' = taken /\ ~stops /\ takes)  BY <1>3
<1>7. r \in hot /\ ~stops /\ takes => r \in found'  BY <1>3
<1>8. todo' = todo \ {r} \/ (todo' = {} /\ stops)  BY <1>3
<1>9. found' = taken /\ Cardinality(taken) > Limit /\ takes => boundary' = Ms[r] \/ r \in found
  BY <1>3
<1>10. IsFiniteSet(found) /\ Cardinality(found) \in Nat /\ Cardinality(taken) \in Nat
       /\ Cardinality(found) <= Cardinality(taken)
  <2>1. IsFiniteSet(found) /\ IsFiniteSet(taken)
    BY <1>2, FS_Subset, FS_AddElement DEF PageAssumption
  <2> QED  BY <2>1, FS_CardinalityType, FS_Subset
<1>11. stops <=> Ms[r] < Start \/ (boundary # None /\ Ms[r] < boundary)
  BY DEF PastBoundary
<1>12. \A t \in todo : Ms[t] <= Ms[r]  BY <1>1 DEF Latest
<1>13. takes /\ ~stops => r \in Wanted /\ Beyond(r)
  BY <1>2, <1>11 DEF Wanted, InRange, PageAssumption
<1>14. r \in Wanted /\ Beyond(r) => takes
  BY DEF Wanted, InRange
<1> HIDE DEF taken, takes, stops
<1>15. PagesTypeOK'
  BY <1>1, <1>2, <1>3 DEF PageInv, PagesTypeOK, taken
<1>16. NewestFirst' /\ OnlyAsked' /\ CursorInv' /\ SeenInv'
  BY <1>1 DEF PageInv, NewestFirst, OnlyAsked, CursorInv, SeenInv, Present, Wanted, InRange
<1>17. ScanInv'
  <2>1. found' \subseteq {f \in Wanted : Beyond(f)}
    BY <1>1, <1>4, <1>13 DEF ScanInv, taken
  <2>2. ASSUME NEW f \in found', NEW t \in todo'  PROVE Ms[t] <= Ms[f]
    BY <1>1, <1>4, <1>12, <2>2 DEF ScanInv, taken
  <2>3. ASSUME boundary' # None
        PROVE  Cardinality(found') > Limit /\ \A f \in found' : Ms[f] >= boundary'
    <3>1. CASE boundary' = Ms[r] /\ Cardinality(taken) > Limit /\ found' = taken
      BY <1>1, <1>2, <3>1 DEF ScanInv, taken
    <3>2. CASE boundary' = boundary
      <4>1. Cardinality(found) > Limit /\ \A f \in found : Ms[f] >= boundary
        BY <1>1, <2>3, <3>2 DEF ScanInv
      <4>2. CASE UNCHANGED found  BY <3>2, <4>1, <4>2
      <4>3. CASE found' = taken /\ ~stops /\ takes
        <5>1. Cardinality(taken) > Limit  BY <1>2, <1>10, <4>1
        <5>2. Ms[r] >= boundary  BY <1>2, <1>11, <2>3, <3>2, <4>3
        <5> QED  BY <3>2, <4>1, <4>3, <5>1, <5>2 DEF taken
      <4> QED  BY <1>6, <4>2, <4>3
    <3> QED  BY <1>5, <3>1, <3>2
  <2>4. \A f : Beyond(f)' <=> Beyond(f)  BY <1>1 DEF Beyond
  <2>5. Wanted' = Wanted  BY DEF Wanted, InRange
  <2> QED  BY <2>1, <2>2, <2>3, <2>4, <2>5 DEF ScanInv
<1>18. MissInv'
  <2> SUFFICES ASSUME NEW s \in held \cap Wanted \cap hot, Beyond(s)
               PROVE  \/ s \in todo' \/ s \in found'
                      \/ boundary' # None /\ Ms[s] < boundary'
    BY <1>1 DEF MissInv, Wanted, InRange, Beyond
  <2>1. /\ s \in PageRecords /\ Ms[s] \in Nat /\ Ms[s] >= Start
        /\ s \in todo \/ s \in found \/ (boundary # None /\ Ms[s] < boundary)
    BY <1>1, <1>2, PageConstants DEF MissInv, Wanted, InRange
  <2>2. CASE s \in found  BY <1>4, <2>2
  <2>3. CASE boundary # None /\ Ms[s] < boundary
    BY <1>2, <1>5, <1>11, <2>1, <2>3
  <2>4. CASE s \in todo
    <3>1. CASE stops /\ boundary' = boundary
      BY <1>2, <1>11, <1>12, <2>1, <2>4, <3>1
    <3>2. CASE ~stops
      BY <1>7, <1>8, <1>14, <2>4, <3>2
    <3> QED  BY <1>5, <3>1, <3>2
  <2> QED  BY <2>1, <2>2, <2>3, <2>4
<1> QED  BY <1>15, <1>16, <1>17, <1>18 DEF PageInv


LEMMA Multiples ==
  ASSUME NEW L \in Nat \ {0}, NEW n \in Nat, NEW q \in Nat, n = L * q
  PROVE  n % L = 0
BY Z3

LEMMA FullPages ==
  ASSUME NEW L \in Nat \ {0}, NEW a \in Nat, a % L = 0
  PROVE  (a + L) % L = 0
<1> DEFINE q == (a \div L) + 1
<1>1. a = L * (a \div L) /\ a \div L \in Nat  BY Z3
<1>2. q \in Nat /\ a + L = L * q  BY <1>1, Z3
<1> HIDE DEF q
<1>3. a + L \in Nat  OBVIOUS
<1> QED  BY <1>2, <1>3, Multiples, Zenon

LEMMA EndPageKeeps ==
  ASSUME PageAssumption, PageInv, EndPage
  PROVE  PageInv'
<1> DEFINE page == Top(found) \cup FromArchive
           top == Top(page)
           items == Sorted(top)
           more == HasMore(page)
<1>1. /\ at = "scan" /\ todo = {} /\ ScanInv /\ MissInv
      /\ PagesTypeOK /\ NewestFirst /\ OnlyAsked /\ CursorInv /\ SeenInv
      /\ at' = IF more THEN "between" ELSE "last"
      /\ cursor' = IF more THEN Rank[Last(items)] ELSE None
      /\ seen' = seen \o items
      /\ UNCHANGED <<hot, cold, todo, found, boundary, held>>
  BY DEF EndPage, PageInv, store, scan
<1>2. /\ Rank \in [PageRecords -> Nat \ {0}] /\ Ms \in [PageRecords -> Nat]
      /\ Limit \in Nat \ {0} /\ None \notin Nat
      /\ found \in SUBSET PageRecords /\ seen \in Seq(PageRecords)
      /\ cursor \in Nat \cup {None} /\ boundary \in Nat \cup {None}
  BY <1>1, PageConstants DEF PagesTypeOK
<1>3. /\ page \in SUBSET PageRecords
      /\ \A r \in page : r \in Wanted /\ Beyond(r)
  <2>1. Top(found) \in SUBSET found  BY <1>2, TopCuts
  <2>2. \A r \in FromArchive : r \in PageRecords /\ r \in Wanted /\ Beyond(r)
    BY <1>1 DEF FromArchive, Wanted, PagesTypeOK
  <2> QED  BY <1>1, <1>2, <2>1, <2>2 DEF ScanInv
<1> HIDE DEF page
<1>4. /\ top \in SUBSET page /\ top \in SUBSET PageRecords
      /\ Cardinality(top) = IF Cardinality(page) > Limit THEN Limit ELSE Cardinality(page)
      /\ \A r \in page \ top :
            Cardinality(page) > Limit /\ \A t \in top : Rank[t] > Rank[r]
  BY <1>3, TopCuts
<1> HIDE DEF top
<1>5. /\ items \in Seq(top) /\ Len(items) = Cardinality(top) /\ ToSet(items) = top
      /\ \A i, j \in 1..Cardinality(top) : i < j => Rank[items[i]] > Rank[items[j]]
      /\ Cardinality(top) \in Nat /\ Cardinality(page) \in Nat /\ Cardinality(found) \in Nat
  BY <1>2, <1>3, <1>4, NewestSorts, NewerOrders
<1>6. Cardinality(found) > Limit =>
        /\ Top(found) \in SUBSET page /\ Cardinality(Top(found)) = Limit
        /\ Cardinality(page) >= Limit
  <2> SUFFICES ASSUME Cardinality(found) > Limit  PROVE <1>6!2
    OBVIOUS
  <2>1. Top(found) \in SUBSET page /\ Cardinality(Top(found)) = Limit
    BY <1>2, TopCuts DEF page
  <2>2. Cardinality(Top(found)) <= Cardinality(page)
    BY <1>3, <2>1, NewerOrders, FS_Subset
  <2> QED  BY <2>1, <2>2
<1>7. more <=> Cardinality(found) > Limit \/ Cardinality(page) > Limit
  BY DEF HasMore
<1> HIDE DEF items, more
<1>8. more => /\ Len(items) = Limit /\ Last(items) = items[Limit] /\ Last(items) \in top
              /\ \A i \in 1..Limit : items[i] \in top /\ Rank[items[i]] >= Rank[Last(items)]
              /\ \A t \in top : Rank[t] >= Rank[Last(items)]
  <2> SUFFICES ASSUME more  PROVE <1>8!2
    OBVIOUS
  <2>1. Len(items) = Limit  BY <1>2, <1>4, <1>5, <1>6, <1>7
  <2>2. Last(items) = items[Limit]  BY <2>1 DEF Last
  <2>3. \A i \in 1..Limit : items[i] \in top  BY <1>5, <2>1
  <2>4. Last(items) \in top  BY <1>2, <2>2, <2>3
  <2>5. ASSUME NEW i \in 1..Limit  PROVE Rank[items[i]] >= Rank[Last(items)]
    <3>1. i = Limit \/ i < Limit  BY <1>2
    <3>2. Rank[items[i]] \in Nat /\ Rank[Last(items)] \in Nat
      BY <1>2, <1>4, <2>3, <2>4
    <3>3. Limit \in 1..Cardinality(top)  BY <1>2, <1>5, <2>1
    <3>4. i < Limit => Rank[items[i]] > Rank[items[Limit]]  BY <1>5, <2>1, <3>3
    <3> QED  BY <2>2, <3>1, <3>2, <3>4
  <2>6. ASSUME NEW t \in top  PROVE Rank[t] >= Rank[Last(items)]
    <3>1. PICK i \in 1..Limit : items[i] = t  BY <1>5, <2>1 DEF ToSet
    <3> QED  BY <2>5, <3>1
  <2> QED  BY <2>1, <2>2, <2>3, <2>4, <2>5, <2>6
<1>9. /\ seen' \in Seq(PageRecords) /\ Len(seen') = Len(seen) + Len(items)
      /\ \A i \in 1..Len(seen) : seen'[i] = seen[i]
      /\ \A i \in 1..Len(items) : seen'[Len(seen) + i] = items[i]
      /\ Len(seen) \in Nat /\ Len(items) \in Nat
  <2>1. items \in Seq(PageRecords)  BY <1>4, <1>5
  <2> QED  BY <1>1, <1>2, <2>1
<1>10. \A i \in 1..Len(seen') :
          i \in 1..Len(seen) \/ \E j \in 1..Len(items) : i = Len(seen) + j
  <2> SUFFICES ASSUME NEW i \in 1..Len(seen'), i \notin 1..Len(seen)
               PROVE  \E j \in 1..Len(items) : i = Len(seen) + j
    OBVIOUS
  <2>1. i - Len(seen) \in 1..Len(items) /\ Len(seen) \in Nat  BY <1>9
  <2>2. PICK j \in 1..Len(items) : j = i - Len(seen)  BY <2>1
  <2>3. i = Len(seen) + j  BY <2>1, <2>2
  <2> QED  BY <2>3
<1>11. ToSet(seen') = ToSet(seen) \cup top
  <2>1. ToSet(seen') \subseteq ToSet(seen) \cup top
    BY <1>5, <1>9, <1>10 DEF ToSet
  <2>2. ASSUME NEW r \in ToSet(seen)  PROVE r \in ToSet(seen')
    <3>1. PICK i \in 1..Len(seen) : seen[i] = r  BY DEF ToSet
    <3>2. i \in 1..Len(seen')  BY <1>9
    <3> QED  BY <1>9, <3>1, <3>2 DEF ToSet
  <2>3. ASSUME NEW r \in top  PROVE r \in ToSet(seen')
    <3>1. PICK j \in 1..Len(items) : items[j] = r  BY <1>5 DEF ToSet
    <3>2. Len(seen) + j \in 1..Len(seen')  BY <1>9
    <3> QED  BY <1>9, <3>1, <3>2 DEF ToSet
  <2> QED  BY <2>1, <2>2, <2>3
<1>12. OnlyAsked'
  BY <1>1, <1>3, <1>4, <1>11 DEF OnlyAsked, Wanted, InRange
<1>13. NewestFirst'
  <2> SUFFICES ASSUME NEW i \in 1..Len(seen'), NEW j \in 1..Len(seen'), i < j
               PROVE  Rank[seen'[i]] > Rank[seen'[j]]
    BY DEF NewestFirst
  <2>1. CASE j \in 1..Len(seen)
    <3>1. i \in 1..Len(seen)  BY <1>9, <2>1
    <3> QED  BY <1>1, <1>9, <2>1, <3>1 DEF NewestFirst
  <2>2. ASSUME NEW m \in 1..Len(items), j = Len(seen) + m
        PROVE  Rank[seen'[i]] > Rank[seen'[j]]
    <3>1. seen'[j] = items[m] /\ items[m] \in top  BY <1>5, <1>9, <2>2
    <3>2. CASE i \in 1..Len(seen)
      <4>1. cursor # None  BY <1>1, <3>2 DEF CursorInv
      <4>2. Rank[seen[i]] >= cursor  BY <1>1, <3>2, <4>1 DEF CursorInv
      <4>3. Rank[items[m]] < cursor  BY <1>3, <1>4, <3>1, <4>1 DEF Beyond
      <4>4. /\ Rank[seen[i]] \in Nat /\ Rank[items[m]] \in Nat /\ cursor \in Nat
        BY <1>2, <1>4, <3>1, <3>2, <4>1
      <4> QED  BY <1>9, <3>1, <3>2, <4>2, <4>3, <4>4
    <3>3. ASSUME NEW k \in 1..Len(items), i = Len(seen) + k
          PROVE  Rank[seen'[i]] > Rank[seen'[j]]
      <4>1. k < m  BY <1>9, <2>2, <3>3
      <4> QED  BY <1>5, <1>9, <3>1, <3>3, <4>1
    <3> QED  BY <1>10, <3>2, <3>3
  <2> QED  BY <1>10, <2>1, <2>2
<1>14. CursorInv'
  <2>1. Len(seen) % Limit = 0  BY <1>1 DEF CursorInv
  <2>2. more => Len(seen') % Limit = 0
    BY <1>2, <1>8, <1>9, <2>1, FullPages
  <2>3. ASSUME more, NEW i \in 1..Len(seen')  PROVE Rank[seen'[i]] >= cursor'
    <3>1. cursor' = Rank[Last(items)] /\ Last(items) \in top  BY <1>1, <1>8, <2>3
    <3>2. CASE i \in 1..Len(seen)
      <4>1. Limit \in 1..Len(items) /\ Last(items) = items[Limit]
        BY <1>2, <1>8, <2>3
      <4>2. Len(seen) + Limit \in 1..Len(seen') /\ i < Len(seen) + Limit
        BY <1>9, <3>2, <4>1
      <4>3. Rank[seen'[i]] > Rank[Last(items)]
        BY <1>9, <1>13, <4>1, <4>2 DEF NewestFirst
      <4>4. Rank[seen'[i]] \in Nat /\ Rank[Last(items)] \in Nat
        BY <1>2, <1>4, <1>9, <3>1
      <4> QED  BY <3>1, <4>3, <4>4
    <3>3. ASSUME NEW j \in 1..Len(items), i = Len(seen) + j
          PROVE  Rank[seen'[i]] >= cursor'
      BY <1>8, <1>9, <2>3, <3>1, <3>3
    <3> QED  BY <1>10, <3>2, <3>3
  <2>4. more => cursor' # None
    <3>1. more => Rank[Last(items)] \in Nat  BY <1>2, <1>4, <1>8
    <3> QED  BY <1>1, <1>2, <3>1
  <2>5. held' \subseteq Present' /\ hot' \cap cold' = {}
    BY <1>1 DEF CursorInv, Present
  <2> QED  BY <1>1, <2>2, <2>3, <2>4, <2>5 DEF CursorInv
<1>15. PagesTypeOK'
  <2>1. cursor' \in Nat \cup {None}  BY <1>1, <1>2, <1>4, <1>8
  <2>2. at' = "between" => Len(seen') > 0 /\ Len(seen') % Limit = 0
    <3>1. more => Len(seen') % Limit = 0  BY <1>1, <1>14 DEF CursorInv
    <3>2. more => Len(seen') > 0  BY <1>2, <1>8, <1>9
    <3> QED  BY <1>1, <3>1, <3>2
  <2> QED  BY <1>1, <1>9, <2>1, <2>2 DEF PagesTypeOK
<1>16. SeenInv'
  <2> SUFFICES ASSUME NEW r \in held \cap Wanted, r \notin ToSet(seen')
               PROVE  at' = "between" /\ cursor' # None /\ ~(Rank[r] >= cursor')
    BY <1>1 DEF SeenInv, Wanted, InRange
  <2>1. r \in PageRecords /\ Rank[r] \in Nat /\ Ms[r] \in Nat
    BY <1>2, PageConstants
  <2>2. Beyond(r)
    <3>1. ~(cursor # None /\ Rank[r] >= cursor)
      BY <1>1, <1>11 DEF SeenInv
    <3> QED  BY <1>2, <2>1, <3>1 DEF Beyond
  <2>3. r \notin top  BY <1>11
  <2>4. more /\ \A t \in top : Rank[t] > Rank[r]
    <3>1. CASE r \in page  BY <1>4, <1>7, <2>3, <3>1
    <3>2. CASE r \notin page
      <4>1. r \in hot
        <5>1. r \in hot \cup cold  BY <1>1 DEF CursorInv, Present
        <5>2. r \notin FromArchive  BY <3>2 DEF page
        <5> QED  BY <2>2, <5>1, <5>2 DEF FromArchive, Wanted
      <4>2. r \in found \/ (boundary # None /\ Ms[r] < boundary)
        BY <1>1, <2>2, <4>1 DEF MissInv
      <4>3. Top(found) \in SUBSET found  BY <1>2, TopCuts
      <4>4. Cardinality(found) > Limit /\ \A t \in Top(found) : Rank[t] > Rank[r]
        <5>1. CASE r \in found
          <6>1. r \in found \ Top(found)  BY <3>2, <5>1 DEF page
          <6> QED  BY <1>2, <6>1, TopCuts
        <5>2. CASE boundary # None /\ Ms[r] < boundary
          <6>1. Cardinality(found) > Limit /\ \A t \in found : Ms[t] >= boundary
            BY <1>1, <5>2 DEF ScanInv
          <6>2. \A t \in found : Ms[r] < Ms[t]  BY <1>2, <2>1, <5>2, <6>1
          <6> QED  BY <1>2, <2>1, <4>3, <6>1, <6>2, PageConstants
        <5> QED  BY <4>2, <5>1, <5>2
      <4>5. Top(found) \in SUBSET page /\ Cardinality(Top(found)) >= Limit
        BY <1>2, <1>6, <4>4
      <4>6. \A t \in top : Rank[t] > Rank[r]
        BY <1>3, <2>1, <4>4, <4>5, TopStaysAbove DEF top
      <4> QED  BY <1>7, <4>4, <4>6
    <3> QED  BY <3>1, <3>2
  <2>5. Last(items) \in top /\ Rank[Last(items)] \in Nat  BY <1>2, <1>4, <1>8, <2>4
  <2> QED  BY <1>1, <1>2, <2>1, <2>4, <2>5
<1> QED  BY <1>1, <1>12, <1>13, <1>14, <1>15, <1>16 DEF PageInv

LEMMA PageInvKept == ASSUME PageAssumption PROVE PagesSpec => []PageInv
<1>1. PagesInit => PageInv  BY PagesBegin
<1>2. PageInv /\ [PagesNext]_pageVars => PageInv'
  <2> SUFFICES ASSUME PageInv, [PagesNext]_pageVars  PROVE PageInv'
    OBVIOUS
  <2>1. CASE PagesNext
    BY <2>1, WritersKeepPages, BeginPageKeeps, ScanEntryKeeps, EndPageKeeps
    DEF PagesNext, Reader
  <2>2. CASE UNCHANGED pageVars
    <3>1. /\ PagesTypeOK' /\ NewestFirst' /\ OnlyAsked' /\ CursorInv' /\ SeenInv'
      BY <2>2 DEF pageVars, scan, PageInv, PagesTypeOK, NewestFirst, OnlyAsked, CursorInv,
                  SeenInv, Wanted, InRange, Present
    <3>2. at' = "scan" => ScanInv' /\ MissInv'
      BY <2>2 DEF pageVars, scan, PageInv, ScanInv, MissInv, Wanted, InRange, Beyond
    <3> QED  BY <3>1, <3>2 DEF PageInv
  <2> QED  BY <2>1, <2>2
<1> QED  BY <1>1, <1>2, PTL DEF PagesSpec

\* Page after page of records (server.rs, search_records of store.rs), while
\* records arrive, move to the archive and are evicted: newest first across
\* page borders, none twice, none skipped that was stored since the first page,
\* for any number of records and any page length.
THEOREM RecordPagesAreComplete ==
  ASSUME PageAssumption
  PROVE  PagesSpec => []PagesAreComplete
<1>1. PageInv => PagesAreComplete
  <2> SUFFICES ASSUME PageInv  PROVE PagesAreComplete
    OBVIOUS
  <2>1. NoneSkipped
    BY DEF PageInv, CursorInv, SeenInv, NoneSkipped
  <2> QED  BY <2>1 DEF PageInv, PagesAreComplete
<1> QED  BY <1>1, PageInvKept, PTL

-----------------------------------------------------------------------------
(* Cursor pages of issues, which move while they are read.                 *)

\* What was quiet was there, and the first page starts with nothing.
ListedInv ==
    /\ step = "first" => mark = None /\ quiet = {}
    /\ step = "between" => mark # None
    /\ step \in {"first", "fetch"} /\ mark = None => listed = <<>>
    /\ \A i \in quiet : last[i] # 0

\* Issues only move up from where the index had them, so that those looked up
\* precede those to be looked up; a quiet one is where it was, among the one or
\* the other.
LookupInv ==
    /\ \A e \in left :
          /\ e.time <= last[e.id]
          /\ e.id \in quiet => e = Listing!Current(e.id)
    /\ \A k \in 1..Len(fetched) :
          /\ Listing!Asked(fetched[k])
          /\ fetched[k].time <= last[fetched[k].id]
          /\ fetched[k].id \in quiet => fetched[k] = Listing!Current(fetched[k].id)
          /\ \A e \in left : Listing!Precedes(fetched[k], e)
          /\ \A j \in 1..Len(fetched) :
                j < k /\ fetched[k].id \in quiet => Listing!Precedes(fetched[j], fetched[k])
    /\ \A i \in quiet :
          Listing!Asked(Listing!Current(i)) =>
              \/ Listing!Current(i) \in left
              \/ \E k \in 1..Len(fetched) : fetched[k] = Listing!Current(i)

\* Quiet issues of the range that are not beyond the cursor were shown.
ShownInv ==
    \A i \in quiet :
        /\ last[i] >= Start /\ last[i] <= End
        /\ \/ step = "last"
           \/ /\ step \in {"fetch", "between"} /\ mark # None
              /\ ~Listing!Precedes(mark, Listing!Current(i))
        => \E k \in 1..Len(listed) : listed[k].id = i

\* With all issues quiet the pages are in order down to the cursor.
OrderInv ==
    {i \in IssueIds : last[i] # 0} \subseteq quiet =>
        /\ \A j, k \in 1..Len(listed) : j < k => Listing!Precedes(listed[j], listed[k])
        /\ step \in {"fetch", "between"} /\ mark # None =>
              \A k \in 1..Len(listed) : listed[k] = mark \/ Listing!Precedes(listed[k], mark)

ListInv ==
    /\ Listing!TypeOK /\ ListedInv /\ ShownInv /\ OrderInv
    /\ step = "fetch" => LookupInv

LEMMA ListConstants ==
  ASSUME Listing!IssueAssumption
  PROVE  /\ IssueIds \subseteq Nat /\ Times \subseteq Nat \ {0} /\ Limit \in Nat \ {0}
         /\ None \notin Listing!Entry
         /\ \A e \in Listing!Entry : e.time \in Nat \ {0} /\ e.id \in Nat /\ e.id \in IssueIds
BY DEF Listing!IssueAssumption, Listing!Entry

\* The order of pages is one.
LEMMA PrecedesOrders ==
  ASSUME Listing!IssueAssumption,
         NEW d \in Listing!Entry, NEW e \in Listing!Entry, NEW f \in Listing!Entry
  PROVE  /\ Listing!Precedes(d, e) /\ Listing!Precedes(e, f) => Listing!Precedes(d, f)
         /\ d = e \/ Listing!Precedes(d, e) \/ Listing!Precedes(e, d)
         /\ d.id = e.id /\ d.time >= e.time /\ Listing!Precedes(e, f) => Listing!Precedes(d, f)
<1>1. /\ d.time \in Nat /\ e.time \in Nat /\ f.time \in Nat
      /\ d.id \in Nat /\ e.id \in Nat /\ f.id \in Nat
  BY ListConstants
<1>2. d.time = e.time /\ d.id = e.id => d = e  BY DEF Listing!Entry
<1> QED  BY <1>1, <1>2 DEF Listing!Precedes

LEMMA ListBegins == ASSUME Listing!IssueAssumption PROVE Listing!Init => ListInv
<1> SUFFICES ASSUME Listing!Init  PROVE ListInv
  OBVIOUS
<1> USE DEF Listing!Init
<1>1. Listing!TypeOK  BY DEF Listing!TypeOK
<1>2. ListedInv /\ ShownInv  BY DEF ListedInv, ShownInv
<1>3. OrderInv  BY DEF OrderInv
<1> QED  BY <1>1, <1>2, <1>3 DEF ListInv

\* An issue that is seen again goes up, and is quiet no more.
LEMMA BumpKeeps ==
  ASSUME Listing!IssueAssumption, ListInv, NEW i \in IssueIds, NEW t \in Times,
         Listing!Bump(i, t)
  PROVE  ListInv'
<1>1. /\ t > last[i] /\ last' = [last EXCEPT ![i] = t] /\ quiet' = quiet \ {i}
      /\ UNCHANGED <<step, mark, left, fetched, listed>>
  BY DEF Listing!Bump
<1>2. /\ Listing!TypeOK /\ t \in Nat \ {0} /\ last \in [IssueIds -> Nat]
      /\ quiet \in SUBSET IssueIds /\ left \in SUBSET Listing!Entry /\ fetched \in Seq(Listing!Entry)
  BY ListConstants DEF ListInv, Listing!TypeOK
<1>3. Listing!TypeOK'  BY <1>1, <1>2 DEF Listing!TypeOK, Listing!Last
<1>4. /\ \A j \in quiet' : last'[j] = last[j] /\ j \in quiet
      /\ \A j \in IssueIds : last[j] <= last'[j]
      /\ last'[i] = t
  BY <1>1, <1>2
<1>5. \A j \in quiet' : Listing!Current(j)' = Listing!Current(j)
  BY <1>4 DEF Listing!Current
<1>6. \A e : Listing!Asked(e)' <=> Listing!Asked(e)  BY <1>1 DEF Listing!Asked, Listing!Precedes
<1>7. ListedInv'  BY <1>1, <1>4 DEF ListInv, ListedInv
<1>8. ShownInv'  BY <1>1, <1>4, <1>5 DEF ListInv, ShownInv, Listing!Precedes
<1>9. OrderInv'
  <2>1. i \in IssueIds /\ last'[i] # 0 /\ i \notin quiet'  BY <1>1, <1>2, <1>4
  <2> QED  BY <2>1 DEF OrderInv
<1>10. ASSUME step = "fetch"  PROVE LookupInv'
  <2>1. LookupInv  BY <1>10 DEF ListInv
  <2>2. ASSUME NEW e \in left
        PROVE  e.time <= last'[e.id] /\ (e.id \in quiet' => e = Listing!Current(e.id)')
    <3>1. e.id \in IssueIds /\ e.time \in Nat /\ last'[e.id] \in Nat /\ last[e.id] \in Nat
      BY <1>1, <1>2, <2>2, ListConstants
    <3>2. e.time <= last[e.id]  BY <2>1, <2>2 DEF LookupInv
    <3> QED  BY <1>4, <1>5, <2>1, <2>2, <3>1, <3>2 DEF LookupInv
  <2>3. ASSUME NEW k \in 1..Len(fetched)
        PROVE  /\ fetched[k].time <= last'[fetched[k].id]
               /\ fetched[k].id \in quiet' => fetched[k] = Listing!Current(fetched[k].id)'
    <3>1. fetched[k] \in Listing!Entry  BY <1>2, <2>3
    <3>2. /\ fetched[k].id \in IssueIds /\ fetched[k].time \in Nat
          /\ last'[fetched[k].id] \in Nat /\ last[fetched[k].id] \in Nat
      BY <1>1, <1>2, <3>1, ListConstants
    <3>3. fetched[k].time <= last[fetched[k].id]  BY <2>1, <2>3 DEF LookupInv
    <3>4. fetched[k].time <= last'[fetched[k].id]  BY <1>4, <3>2, <3>3
    <3>5. fetched[k].id \in quiet => fetched[k] = Listing!Current(fetched[k].id)
      BY <2>1, <2>3 DEF LookupInv
    <3>6. Listing!Current(fetched[k].id)' = [time |-> last'[fetched[k].id], id |-> fetched[k].id]
      BY <1>1 DEF Listing!Current
    <3> QED  BY <1>4, <3>4, <3>5, <3>6 DEF Listing!Current
  <2>4. \A d, e : Listing!Precedes(d, e)' <=> Listing!Precedes(d, e)
    BY DEF Listing!Precedes
  <2>5. ASSUME NEW j \in quiet', Listing!Asked(Listing!Current(j))'
        PROVE  \/ Listing!Current(j)' \in left
               \/ \E k \in 1..Len(fetched) : fetched[k] = Listing!Current(j)'
    <3>1. Listing!Asked(Listing!Current(j))
      BY <1>1, <1>5, <2>5 DEF Listing!Asked, Listing!Precedes, Listing!Current
    <3> QED  BY <1>4, <1>5, <2>1, <2>5, <3>1 DEF LookupInv
  <2> QED  BY <1>1, <1>4, <1>6, <2>1, <2>2, <2>3, <2>4, <2>5 DEF LookupInv
<1> QED  BY <1>1, <1>3, <1>7, <1>8, <1>9, <1>10 DEF ListInv

LEMMA BeginListKeeps ==
  ASSUME Listing!IssueAssumption, ListInv, Listing!BeginPage
  PROVE  ListInv'
<1>1. /\ step \in {"first", "between"} /\ step' = "fetch" /\ left' = Listing!Index
      /\ fetched' = <<>>
      /\ quiet' = IF step = "first" THEN {e.id : e \in Listing!Index} ELSE quiet
      /\ UNCHANGED <<last, mark, listed>>
  BY DEF Listing!BeginPage
<1>2. /\ Listing!TypeOK /\ ListedInv /\ last \in [IssueIds -> {0} \cup Times]
      /\ quiet \in SUBSET IssueIds
  BY DEF ListInv, Listing!TypeOK
<1>3. \A i : Listing!Current(i) = [time |-> last[i], id |-> i]
  BY DEF Listing!Current
<1>4. \A i \in IssueIds : last[i] \in {0} \cup Times /\ last[i] \in Nat
  BY <1>2, ListConstants
<1>5. \A i \in IssueIds : last[i] # 0 =>
         Listing!Current(i) \in Listing!Index /\ Listing!Current(i) \in Listing!Entry
  BY <1>3, <1>4 DEF Listing!Index, Listing!Entry
<1>6. \A e \in Listing!Index :
         /\ e \in Listing!Entry /\ e.id \in IssueIds /\ last[e.id] # 0
         /\ e = Listing!Current(e.id) /\ e.time = last[e.id]
  BY <1>3, <1>4 DEF Listing!Index, Listing!Entry
<1>7. quiet' \in SUBSET IssueIds /\ \A i \in quiet' : last[i] # 0
  BY <1>1, <1>2, <1>6 DEF ListedInv
<1>8. \A i : Listing!Current(i)' = Listing!Current(i)  BY <1>1 DEF Listing!Current
<1>9. Listing!TypeOK'
  BY <1>1, <1>2, <1>6, <1>7 DEF Listing!TypeOK
<1>10. ListedInv'  BY <1>1, <1>2, <1>7 DEF ListedInv
<1>11. ShownInv'
  <2>1. \A d, e : Listing!Precedes(d, e)' <=> Listing!Precedes(d, e)
    BY DEF Listing!Precedes
  <2>2. step = "first" => mark = None  BY <1>2 DEF ListedInv
  <2>3. step = "between" => UNCHANGED quiet  BY <1>1
  <2> QED  BY <1>1, <1>8, <2>1, <2>2, <2>3 DEF ListInv, ShownInv, Listing!Precedes
<1>12. OrderInv'
  <2>1. CASE step = "first"
    <3>1. listed = <<>> /\ mark = None  BY <1>2, <2>1 DEF ListedInv
    <3> QED  BY <1>1, <3>1 DEF OrderInv
  <2>2. CASE step = "between"
    <3>1. UNCHANGED <<quiet, last, mark, listed>>  BY <1>1, <2>2
    <3> QED  BY <1>1, <2>2, <3>1 DEF ListInv, OrderInv, Listing!Precedes
  <2> QED  BY <1>1, <2>1, <2>2
<1>13. LookupInv'
  <2>1. \A e \in left' : e.time <= last'[e.id] /\ e = Listing!Current(e.id)'
    BY <1>1, <1>4, <1>6, <1>8
  <2>2. \A i \in quiet' : Listing!Current(i)' \in left'
    BY <1>1, <1>5, <1>7, <1>8
  <2>3. Len(fetched') = 0  BY <1>1
  <2> QED  BY <2>1, <2>2, <2>3 DEF LookupInv
<1> QED  BY <1>9, <1>10, <1>11, <1>12, <1>13 DEF ListInv

LEMMA FetchIssueKeeps ==
  ASSUME Listing!IssueAssumption, ListInv, NEW e \in left, Listing!FetchIssue(e)
  PROVE  ListInv'
<1> DEFINE now == Listing!Current(e.id)
           n == Len(fetched)
<1>1. /\ step = "fetch" /\ Listing!IsFirst(e) /\ left' = left \ {e}
      /\ fetched' = IF Listing!Asked(now) THEN Append(fetched, now) ELSE fetched
      /\ UNCHANGED <<last, step, mark, listed, quiet>>
  BY DEF Listing!FetchIssue
<1>2. /\ Listing!TypeOK /\ LookupInv
      /\ left \in SUBSET Listing!Entry /\ fetched \in Seq(Listing!Entry)
      /\ last \in [IssueIds -> {0} \cup Times] /\ n \in Nat /\ quiet \in SUBSET IssueIds
      /\ e \in Listing!Entry
  BY <1>1 DEF ListInv, Listing!TypeOK
<1>3. /\ now.id = e.id /\ now.time = last[e.id] /\ now.time >= e.time
      /\ now \in Listing!Entry
  <2>1. e.id \in IssueIds /\ e.time \in Nat \ {0} /\ e.time <= last[e.id]
    BY <1>2, ListConstants DEF LookupInv
  <2>2. last[e.id] \in Times /\ last[e.id] \in Nat
    BY <1>2, <2>1, ListConstants
  <2> QED  BY <2>1, <2>2 DEF Listing!Current, Listing!Entry
<1>4. e.id \in quiet => e = now  BY <1>2 DEF LookupInv
<1>5. \A d \in left \ {e} : Listing!Precedes(now, d)
  <2> SUFFICES ASSUME NEW d \in left \ {e}  PROVE Listing!Precedes(now, d)
    OBVIOUS
  <2>1. d \in Listing!Entry /\ Listing!Precedes(e, d)  BY <1>1, <1>2 DEF Listing!IsFirst
  <2> QED  BY <1>2, <1>3, <2>1, PrecedesOrders
<1>6. \A k \in 1..n : Listing!Precedes(fetched[k], e)  BY <1>2 DEF LookupInv
<1> HIDE DEF now
<1>7. /\ fetched' \in Seq(Listing!Entry)
      /\ \A k \in 1..Len(fetched') :
            \/ k \in 1..n /\ fetched'[k] = fetched[k]
            \/ k = n + 1 /\ fetched'[k] = now /\ Listing!Asked(now)
      /\ \A k \in 1..n : k \in 1..Len(fetched') /\ fetched'[k] = fetched[k]
      /\ Listing!Asked(now) => n + 1 \in 1..Len(fetched') /\ fetched'[n + 1] = now
  <2>1. CASE Listing!Asked(now)
    <3>1. fetched' = Append(fetched, now)  BY <1>1, <2>1
    <3> QED  BY <1>2, <1>3, <2>1, <3>1
  <2>2. CASE ~Listing!Asked(now)
    BY <1>1, <1>2, <2>2
  <2> QED  BY <2>1, <2>2
<1>8. /\ \A i : Listing!Current(i)' = Listing!Current(i)
      /\ \A d : Listing!Asked(d)' <=> Listing!Asked(d)
      /\ \A d, f : Listing!Precedes(d, f)' <=> Listing!Precedes(d, f)
  BY <1>1 DEF Listing!Current, Listing!Asked, Listing!Precedes
<1>9. Listing!TypeOK'
  BY <1>1, <1>2, <1>7 DEF Listing!TypeOK
<1>10. ListedInv' /\ ShownInv' /\ OrderInv'
  BY <1>1, <1>8 DEF ListInv, ListedInv, ShownInv, OrderInv, Listing!Precedes
<1>11. LookupInv'
  <2>1. ASSUME NEW d \in left'
        PROVE  d.time <= last'[d.id] /\ (d.id \in quiet' => d = Listing!Current(d.id)')
    BY <1>1, <1>2, <1>8, <2>1 DEF LookupInv
  <2>2. ASSUME NEW k \in 1..Len(fetched')
        PROVE  /\ Listing!Asked(fetched'[k])
               /\ fetched'[k].time <= last[fetched'[k].id]
               /\ fetched'[k].id \in quiet => fetched'[k] = Listing!Current(fetched'[k].id)
               /\ \A d \in left' : Listing!Precedes(fetched'[k], d)
               /\ \A j \in 1..Len(fetched') :
                     j < k /\ fetched'[k].id \in quiet =>
                        Listing!Precedes(fetched'[j], fetched'[k])
    <3>1. CASE k \in 1..n /\ fetched'[k] = fetched[k]
      <4>1. \A j \in 1..Len(fetched') : j < k => j \in 1..n /\ fetched'[j] = fetched[j]
        BY <1>2, <1>7, <3>1
      <4> QED  BY <1>1, <1>2, <3>1, <4>1 DEF LookupInv
    <3>2. CASE k = n + 1 /\ fetched'[k] = now /\ Listing!Asked(now)
      <4>1. \A j \in 1..Len(fetched') : j < k => j \in 1..n /\ fetched'[j] = fetched[j]
        BY <1>2, <1>7, <3>2
      <4>2. now.time <= last[now.id]
        BY <1>2, <1>3, ListConstants
      <4>3. now = Listing!Current(now.id)  BY <1>3 DEF now
      <4>4. now.id \in quiet => \A j \in 1..n : Listing!Precedes(fetched[j], now)
        BY <1>3, <1>4, <1>6
      <4> QED  BY <1>1, <1>5, <3>2, <4>1, <4>2, <4>3, <4>4
    <3> QED  BY <1>7, <2>2, <3>1, <3>2
  <2>3. ASSUME NEW i \in quiet, Listing!Asked(Listing!Current(i))
        PROVE  \/ Listing!Current(i) \in left'
               \/ \E k \in 1..Len(fetched') : fetched'[k] = Listing!Current(i)
    <3>1. CASE \E k \in 1..n : fetched[k] = Listing!Current(i)
      BY <1>7, <3>1
    <3>2. CASE Listing!Current(i) \in left /\ Listing!Current(i) # e
      BY <1>1, <3>2
    <3>3. CASE Listing!Current(i) = e
      <4>1. e.id = i  BY <3>3 DEF Listing!Current
      <4> QED  BY <1>4, <1>7, <2>3, <3>3, <4>1
    <3> QED  BY <1>2, <2>3, <3>1, <3>2, <3>3 DEF LookupInv
  <2>4. \A i : Listing!Asked(Listing!Current(i))' <=> Listing!Asked(Listing!Current(i))
    BY <1>1, <1>8 DEF Listing!Asked, Listing!Precedes
  <2>5. \A k \in 1..Len(fetched') : Listing!Asked(fetched[k])' <=> Listing!Asked(fetched'[k])
    BY <1>1 DEF Listing!Asked, Listing!Precedes
  <2>6. \A k \in 1..Len(fetched') :
           Listing!Current(fetched[k].id)' = Listing!Current(fetched'[k].id)
    BY <1>1 DEF Listing!Current
  <2>7. UNCHANGED <<last, quiet>>  BY <1>1
  <2> QED  BY <1>8, <2>1, <2>2, <2>3, <2>4, <2>5, <2>6, <2>7 DEF LookupInv, Listing!Precedes
<1> QED  BY <1>1, <1>9, <1>10, <1>11 DEF ListInv

LEMMA AppendedType ==
  ASSUME NEW S, NEW s \in Seq(S), NEW t \in Seq(S)
  PROVE  s \o t \in Seq(S) /\ Len(s \o t) = Len(s) + Len(t)
OBVIOUS

LEMMA EndListKeeps ==
  ASSUME Listing!IssueAssumption, ListInv, Listing!EndPage
  PROVE  ListInv'
<1> DEFINE more == Len(fetched) > Limit
           n == IF more THEN Limit ELSE Len(fetched)
           items == SubSeq(fetched, 1, n)
<1>1. /\ step = "fetch" /\ left = {}
      /\ step' = IF more THEN "between" ELSE "last"
      /\ mark' = IF more THEN fetched[Limit] ELSE None
      /\ listed' = listed \o items
      /\ UNCHANGED <<last, left, fetched, quiet>>
  BY DEF Listing!EndPage, Listing!NextCursor
<1>2. /\ Listing!TypeOK /\ ListedInv /\ ShownInv /\ OrderInv /\ LookupInv
      /\ fetched \in Seq(Listing!Entry) /\ listed \in Seq(Listing!Entry)
      /\ mark \in Listing!Entry \cup {None}
      /\ quiet \in SUBSET IssueIds /\ last \in [IssueIds -> {0} \cup Times]
      /\ Len(fetched) \in Nat /\ Len(listed) \in Nat /\ Limit \in Nat \ {0}
      /\ None \notin Listing!Entry
  BY <1>1, ListConstants DEF ListInv, Listing!TypeOK
<1>3. /\ n \in 0..Len(fetched) /\ items \in Seq(Listing!Entry) /\ Len(items) = n
      /\ \A k \in 1..n : items[k] = fetched[k] /\ k \in 1..Len(fetched)
      /\ more => n = Limit /\ Limit \in 1..Len(fetched) /\ fetched[Limit] \in Listing!Entry
      /\ ~more => n = Len(fetched)
  BY <1>2
<1> HIDE DEF n, more, items
<1>4. /\ listed' \in Seq(Listing!Entry) /\ Len(listed') = Len(listed) + n
      /\ \A k \in 1..Len(listed) : listed'[k] = listed[k] /\ k \in 1..Len(listed')
      /\ \A k \in 1..n : listed'[Len(listed) + k] = fetched[k] /\ Len(listed) + k \in 1..Len(listed')
  <2>1. listed' \in Seq(Listing!Entry) /\ Len(listed') = Len(listed) + n
    <3>1. /\ items \in Seq(Listing!Entry) /\ Len(items) = n
          /\ listed \in Seq(Listing!Entry) /\ listed' = listed \o items
      BY <1>1, <1>2, <1>3
    <3>2. /\ listed \o items \in Seq(Listing!Entry)
          /\ Len(listed \o items) = Len(listed) + Len(items)
      BY <3>1, AppendedType
    <3> QED  BY <3>1, <3>2
  <2>2. \A k \in 1..Len(listed) : listed'[k] = listed[k] /\ k \in 1..Len(listed')
    BY <1>1, <1>2, <1>3, <2>1
  <2>3. ASSUME NEW k \in 1..n
        PROVE  listed'[Len(listed) + k] = fetched[k] /\ Len(listed) + k \in 1..Len(listed')
    <3>1. listed'[Len(listed) + k] = items[k]  BY <1>1, <1>2, <1>3
    <3> QED  BY <1>2, <1>3, <2>1, <3>1
  <2> QED  BY <2>1, <2>2, <2>3
<1>5. \A k \in 1..Len(listed') : k \in 1..Len(listed) \/ \E j \in 1..n : k = Len(listed) + j
  <2> SUFFICES ASSUME NEW k \in 1..Len(listed'), k \notin 1..Len(listed)
               PROVE  \E j \in 1..n : k = Len(listed) + j
    OBVIOUS
  <2>1. k - Len(listed) \in 1..n /\ n \in Nat  BY <1>2, <1>3, <1>4
  <2>2. PICK j \in 1..n : j = k - Len(listed)  BY <2>1
  <2>3. k = Len(listed) + j  BY <1>2, <2>1, <2>2
  <2> QED  BY <2>3
<1>6. /\ \A i : Listing!Current(i)' = Listing!Current(i)
      /\ \A d, f : Listing!Precedes(d, f)' <=> Listing!Precedes(d, f)
  BY <1>1 DEF Listing!Current, Listing!Precedes
<1>7. more => mark' # None  BY <1>1, <1>2, <1>3
<1>8. Listing!TypeOK'
  <2>1. more => listed'[Len(listed')] = fetched[Limit]
    BY <1>2, <1>3, <1>4
  <2>2. more => mark' = Listing!Last(listed')  BY <1>1, <2>1 DEF Listing!Last
  <2>3. mark' \in Listing!Entry \cup {None}  BY <1>1, <1>3
  <2> QED  BY <1>1, <1>2, <1>4, <2>2, <2>3 DEF Listing!TypeOK, Listing!Last
<1>9. ListedInv'
  BY <1>1, <1>2, <1>7 DEF ListedInv
<1>10. ShownInv'
  <2> SUFFICES ASSUME NEW i \in quiet, last[i] >= Start, last[i] <= End,
                      more => ~Listing!Precedes(fetched[Limit], Listing!Current(i))
               PROVE  \E k \in 1..Len(listed') : listed'[k].id = i
    <3>1. \A i : Listing!Precedes(mark, Listing!Current(i))' <=>
                   Listing!Precedes(mark', Listing!Current(i))
      BY <1>1, <1>6 DEF Listing!Precedes
    <3> QED  BY <1>1, <1>7, <3>1 DEF ShownInv
  <2>1. Listing!Current(i).id = i /\ Listing!Current(i).time = last[i]
    BY DEF Listing!Current
  <2>2. CASE Listing!Asked(Listing!Current(i))
    <3>1. PICK k \in 1..Len(fetched) : fetched[k] = Listing!Current(i)
      BY <1>1, <1>2, <2>2 DEF LookupInv
    <3>2. k \in 1..n
      <4>1. CASE ~more  BY <1>3, <4>1
      <4>2. CASE more /\ ~(k <= Limit)
        <5>1. Limit \in 1..Len(fetched) /\ Limit < k  BY <1>2, <1>3, <4>2
        <5>2. fetched[k].id \in quiet  BY <2>1, <3>1
        <5>3. Listing!Precedes(fetched[Limit], fetched[k])
          BY <1>2, <5>1, <5>2 DEF LookupInv
        <5> QED  BY <3>1, <4>2, <5>3
      <4>3. CASE more /\ k <= Limit  BY <1>2, <1>3, <4>3
      <4> QED  BY <4>1, <4>2, <4>3
    <3> QED  BY <1>4, <2>1, <3>1, <3>2
  <2>3. CASE ~Listing!Asked(Listing!Current(i))
    <3>1. mark # None /\ ~Listing!Precedes(mark, Listing!Current(i))
      BY <2>1, <2>3 DEF Listing!Asked
    <3>2. PICK k \in 1..Len(listed) : listed[k].id = i  BY <1>1, <1>2, <3>1 DEF ShownInv
    <3> QED  BY <1>4, <3>2
  <2> QED  BY <2>2, <2>3
<1>11. OrderInv'
  <2> SUFFICES ASSUME {i \in IssueIds : last[i] # 0} \subseteq quiet
               PROVE  /\ \A j, k \in 1..Len(listed') : j < k => Listing!Precedes(listed'[j], listed'[k])
                      /\ more => \A k \in 1..Len(listed') :
                            listed'[k] = fetched[Limit] \/ Listing!Precedes(listed'[k], fetched[Limit])
    BY <1>1 DEF OrderInv, Listing!Precedes
  <2>1. \A k \in 1..Len(fetched) :
           /\ fetched[k] \in Listing!Entry
           /\ mark = None \/ Listing!Precedes(mark, fetched[k])
           /\ \A j \in 1..Len(fetched) : j < k => Listing!Precedes(fetched[j], fetched[k])
    <3> SUFFICES ASSUME NEW k \in 1..Len(fetched)
                 PROVE  /\ fetched[k] \in Listing!Entry
                        /\ mark = None \/ Listing!Precedes(mark, fetched[k])
                        /\ \A j \in 1..Len(fetched) : j < k => Listing!Precedes(fetched[j], fetched[k])
      OBVIOUS
    <3>1. fetched[k] \in Listing!Entry  BY <1>2
    <3>2. fetched[k].id \in IssueIds /\ fetched[k].time \in Nat \ {0} /\ last[fetched[k].id] \in Nat
      BY <1>2, <3>1, ListConstants
    <3>3. fetched[k].time <= last[fetched[k].id]  BY <1>2 DEF LookupInv
    <3>4. fetched[k].id \in quiet  BY <3>2, <3>3
    <3> QED  BY <1>2, <3>1, <3>4 DEF LookupInv, Listing!Asked
  <2>2. /\ \A j, k \in 1..Len(listed) : j < k => Listing!Precedes(listed[j], listed[k])
        /\ mark = None => Len(listed) = 0
        /\ mark # None => \A k \in 1..Len(listed) :
              listed[k] = mark \/ Listing!Precedes(listed[k], mark)
    BY <1>1, <1>2 DEF OrderInv, ListedInv
  <2>3. \A j \in 1..Len(listed), k \in 1..Len(fetched) : Listing!Precedes(listed[j], fetched[k])
    <3> SUFFICES ASSUME NEW j \in 1..Len(listed), NEW k \in 1..Len(fetched)
                 PROVE  Listing!Precedes(listed[j], fetched[k])
      OBVIOUS
    <3>1. mark # None /\ mark \in Listing!Entry /\ listed[j] \in Listing!Entry
      BY <1>2, <2>2
    <3>2. Listing!Precedes(mark, fetched[k]) /\ fetched[k] \in Listing!Entry
      BY <2>1, <3>1
    <3>3. listed[j] = mark \/ Listing!Precedes(listed[j], mark)  BY <2>2, <3>1
    <3> QED  BY <3>1, <3>2, <3>3, PrecedesOrders
  <2>4. ASSUME NEW j \in 1..Len(listed'), NEW k \in 1..Len(listed'), j < k
        PROVE  Listing!Precedes(listed'[j], listed'[k])
    <3>1. CASE k \in 1..Len(listed)
      <4>1. j \in 1..Len(listed)  BY <1>2, <1>4, <2>4, <3>1
      <4> QED  BY <1>4, <2>2, <2>4, <3>1, <4>1
    <3>2. ASSUME NEW m \in 1..n, k = Len(listed) + m
          PROVE  Listing!Precedes(listed'[j], listed'[k])
      <4>1. listed'[k] = fetched[m] /\ m \in 1..Len(fetched)  BY <1>3, <1>4, <3>2
      <4>2. CASE j \in 1..Len(listed)  BY <1>4, <2>3, <4>1, <4>2
      <4>3. ASSUME NEW q \in 1..n, j = Len(listed) + q
            PROVE  Listing!Precedes(listed'[j], listed'[k])
        <5>1. listed'[j] = fetched[q] /\ q \in 1..Len(fetched)  BY <1>3, <1>4, <4>3
        <5>2. q < m  BY <1>2, <1>3, <2>4, <3>2, <4>3
        <5> QED  BY <2>1, <4>1, <5>1, <5>2
      <4> QED  BY <1>5, <4>2, <4>3
    <3> QED  BY <1>5, <3>1, <3>2
  <2>5. ASSUME more, NEW k \in 1..Len(listed')
        PROVE  listed'[k] = fetched[Limit] \/ Listing!Precedes(listed'[k], fetched[Limit])
    <3>1. n = Limit /\ Limit \in 1..n /\ Limit \in 1..Len(fetched)  BY <1>2, <1>3, <2>5
    <3>2. CASE k \in 1..Len(listed)  BY <1>4, <2>3, <3>1, <3>2
    <3>3. ASSUME NEW m \in 1..n, k = Len(listed) + m
          PROVE  listed'[k] = fetched[Limit] \/ Listing!Precedes(listed'[k], fetched[Limit])
      <4>1. listed'[k] = fetched[m] /\ m \in 1..Len(fetched)  BY <1>3, <1>4, <3>3
      <4>2. m = Limit \/ m < Limit  BY <1>2, <3>1
      <4> QED  BY <2>1, <3>1, <4>1, <4>2
    <3> QED  BY <1>5, <3>2, <3>3
  <2> QED  BY <2>4, <2>5
<1>12. step' # "fetch"  BY <1>1
<1> QED  BY <1>8, <1>9, <1>10, <1>11, <1>12 DEF ListInv

\* Page after page of issues (search_issues, store.rs), while issues are seen
\* again and move up between any two steps: every issue of the range that did not
\* move meanwhile is listed, and pages are in order if none moved, for any number
\* of issues and any page length.
THEOREM IssuePagesListAll ==
  ASSUME Listing!IssueAssumption
  PROVE  Listing!Spec => []IssuesAreListed
<1>1. Listing!Init => ListInv  BY ListBegins
<1>2. ListInv /\ [Listing!Next]_(Listing!vars) => ListInv'
  <2> SUFFICES ASSUME ListInv, [Listing!Next]_(Listing!vars)  PROVE ListInv'
    OBVIOUS
  <2>1. CASE Listing!Next
    BY <2>1, BumpKeeps, BeginListKeeps, FetchIssueKeeps, EndListKeeps DEF Listing!Next
  <2>2. CASE UNCHANGED Listing!vars
    <3>1. UNCHANGED <<last, step, mark, left, fetched, listed, quiet>>
      BY <2>2 DEF Listing!vars
    <3>2. Listing!TypeOK' /\ ListedInv' /\ ShownInv' /\ OrderInv'
      BY <3>1
      DEF ListInv, Listing!TypeOK, Listing!Last, ListedInv, ShownInv, OrderInv,
          Listing!Precedes, Listing!Current
    <3>3. step' = "fetch" => LookupInv'
      BY <3>1 DEF ListInv, LookupInv, Listing!Asked, Listing!Precedes, Listing!Current
    <3> QED  BY <3>2, <3>3 DEF ListInv
  <2> QED  BY <2>1, <2>2
<1>3. ListInv => IssuesAreListed
  <2> SUFFICES ASSUME ListInv  PROVE Listing!IssuesAreListed
    BY DEF IssuesAreListed
  <2>1. Listing!QuietFound  BY DEF ListInv, ShownInv, Listing!QuietFound
  <2>2. Listing!QuietInOrder  BY DEF ListInv, OrderInv, Listing!QuietInOrder
  <2> QED  BY <2>1, <2>2 DEF ListInv, Listing!IssuesAreListed
<1> QED  BY <1>1, <1>2, <1>3, PTL DEF Listing!Spec

-----------------------------------------------------------------------------
(* The matcher of patterns.                                                *)

\* The loop has matched the pattern so far with the value so far, and the
\* pattern up to its last star with the value up to the checkpoint.
MatchedInv ==
    /\ value \in Seq(Bytes) /\ pattern \in Seq(Bytes)
    /\ value_index \in 1..(Len(value) + 1) /\ pattern_index \in 1..(Len(pattern) + 1)
    /\ star \in 0..Len(pattern) /\ checkpoint \in 1..value_index
    /\ Match!Describes(value, pattern, value_index - 1, pattern_index - 1)
    /\ star # 0 => /\ star < pattern_index
                   /\ pattern[star] = Star
                   /\ Match!Describes(value, pattern, checkpoint - 1, star)

\* f matches all of the pattern with all of the value.
Whole(f) ==
    /\ f \in [1..Len(pattern) -> 0..Len(value)]
    /\ Match!End(f, Len(pattern)) = Len(value)
    /\ \A k \in 1..Len(pattern) : Match!StandsFor(value, pattern, f, k)

\* No match ends the last star before the checkpoint; what the loop has read of
\* the pattern since has no star, and one byte of the value for each of its own.
FirstInv ==
    \A f : Whole(f) =>
        IF star = 0
        THEN Match!End(f, pattern_index - 1) = value_index - 1
        ELSE /\ f[star] >= checkpoint - 1
             /\ Match!End(f, pattern_index - 1) - f[star] = pattern_index - 1 - star
             /\ value_index - checkpoint = pattern_index - 1 - star

MatchInv ==
    /\ MatchedInv
    /\ Star \notin Match!Range(value) => FirstInv
    /\ Match!WildcardIsRight

\* Describing goes on byte by byte.
LEMMA Extends ==
  ASSUME NEW v, NEW p, NEW i \in Nat, NEW j \in Nat, NEW e \in Nat, i <= e,
         Match!Describes(v, p, i, j),
         IF p[j + 1] = Star THEN TRUE ELSE e = i + 1 /\ v[e] = p[j + 1]
  PROVE  Match!Describes(v, p, e, j + 1)
<1>1. PICK f \in [1..j -> 0..i] :
         Match!End(f, j) = i /\ \A k \in 1..j : Match!StandsFor(v, p, f, k)
  BY DEF Match!Describes
<1> DEFINE g == [k \in 1..(j + 1) |-> IF k = j + 1 THEN e ELSE f[k]]
<1>2. g \in [1..(j + 1) -> 0..e] /\ g[j + 1] = e /\ \A k \in 1..j : g[k] = f[k]
  BY <1>1
<1> HIDE DEF g
<1>3. \A k \in 0..j : Match!End(g, k) = Match!End(f, k)
  BY <1>2 DEF Match!End
<1>4. Match!End(g, j + 1) = e /\ Match!End(g, j) = i
  BY <1>1, <1>2, <1>3 DEF Match!End
<1>5. ASSUME NEW k \in 1..(j + 1)  PROVE Match!StandsFor(v, p, g, k)
  <2>1. CASE k = j + 1
    <3>1. k - 1 = j  BY <2>1
    <3> QED  BY <1>2, <1>4, <2>1, <3>1 DEF Match!StandsFor
  <2>2. CASE k # j + 1
    <3>1. k \in 1..j /\ k - 1 \in 0..j  BY <2>2
    <3> QED  BY <1>1, <1>2, <1>3, <3>1 DEF Match!StandsFor
  <2> QED  BY <2>1, <2>2
<1> QED  BY <1>2, <1>4, <1>5 DEF Match!Describes

\* Going back, the last star takes one byte more.
LEMMA TakesMore ==
  ASSUME NEW v, NEW p, NEW i \in Nat, NEW j \in Nat \ {0}, p[j] = Star,
         Match!Describes(v, p, i, j)
  PROVE  Match!Describes(v, p, i + 1, j)
<1>1. PICK f \in [1..j -> 0..i] :
         Match!End(f, j) = i /\ \A k \in 1..j : Match!StandsFor(v, p, f, k)
  BY DEF Match!Describes
<1> DEFINE g == [k \in 1..j |-> IF k = j THEN i + 1 ELSE f[k]]
<1>2. g \in [1..j -> 0..(i + 1)] /\ g[j] = i + 1 /\ \A k \in 1..(j - 1) : g[k] = f[k]
  BY <1>1
<1> HIDE DEF g
<1>3. \A k \in 0..(j - 1) : Match!End(g, k) = Match!End(f, k)
  BY <1>2 DEF Match!End
<1>4. f[j] = i  BY <1>1 DEF Match!End
<1>5. Match!End(g, j) = i + 1  BY <1>2 DEF Match!End
<1>6. ASSUME NEW k \in 1..j  PROVE Match!StandsFor(v, p, g, k)
  <2>1. CASE k = j
    <3>1. Match!End(f, j - 1) <= i  BY <1>1, <1>4 DEF Match!StandsFor
    <3>2. Match!End(f, j - 1) \in Int
      BY <1>1 DEF Match!End
    <3>3. Match!End(g, j - 1) <= g[j]  BY <1>2, <1>3, <3>1, <3>2
    <3> QED  BY <2>1, <3>3 DEF Match!StandsFor
  <2>2. CASE k # j
    <3>1. k \in 1..(j - 1) /\ k - 1 \in 0..(j - 1)  BY <2>2
    <3> QED  BY <1>1, <1>2, <1>3, <3>1 DEF Match!StandsFor
  <2> QED  BY <2>1, <2>2
<1> QED  BY <1>2, <1>5, <1>6 DEF Match!Describes

\* The ends of a match follow each other.
LEMMA EndsGrow ==
  ASSUME value \in Seq(Bytes), pattern \in Seq(Bytes), NEW f, Whole(f),
         NEW j \in 0..Len(pattern), NEW k \in j..Len(pattern)
  PROVE  /\ Match!End(f, j) \in 0..Len(value)
         /\ Match!End(f, j) <= Match!End(f, k)
<1> DEFINE n == Len(pattern)
           bad == {m \in 0..n : m >= j /\ Match!End(f, m) < Match!End(f, j)}
           away == {n - m : m \in bad}
<1>1. n \in Nat /\ Len(value) \in Nat  OBVIOUS
<1>2. \A m \in 0..n : Match!End(f, m) \in 0..Len(value)
  BY <1>1 DEF Whole, Match!End
<1>3. \A m \in 1..n : Match!End(f, m - 1) <= Match!End(f, m)
  <2> SUFFICES ASSUME NEW m \in 1..n  PROVE Match!End(f, m - 1) <= Match!End(f, m)
    OBVIOUS
  <2>1. m - 1 \in 0..n /\ m \in 0..n  BY <1>1
  <2>2. Match!End(f, m) = f[m]  BY DEF Match!End
  <2>3. Match!StandsFor(value, pattern, f, m)  BY DEF Whole
  <2> QED  BY <1>1, <1>2, <2>1, <2>2, <2>3 DEF Match!StandsFor
<1>4. bad = {}
  <2> SUFFICES ASSUME bad # {}  PROVE FALSE
    OBVIOUS
  <2>1. away \in SUBSET (0..n) /\ away \in SUBSET Nat /\ away # {}  BY <1>1
  <2>2. IsFiniteSet(away)
    <3>1. IsFiniteSet(0..n)  BY <1>1, FS_Interval
    <3> HIDE DEF away
    <3> QED  BY <2>1, <3>1, FS_Subset
  <2>3. \E x \in away : \A y \in away : y <= x
    <3> HIDE DEF away
    <3> QED  BY <2>1, <2>2, MaxOfFinite
  <2>4. PICK m \in bad : \A y \in away : y <= n - m
    BY <2>3
  <2>5. m \in 1..n /\ m # j /\ m - 1 \in 0..n /\ m - 1 >= j
    <3>1. Match!End(f, j) \in Nat  BY <1>1, <1>2
    <3>2. m # j  BY <3>1
    <3> QED  BY <1>1, <3>2
  <2>6. Match!End(f, m - 1) < Match!End(f, j)
    <3>1. Match!End(f, m - 1) <= Match!End(f, m)  BY <1>3, <2>5
    <3>2. Match!End(f, m) < Match!End(f, j)  OBVIOUS
    <3>3. /\ Match!End(f, m - 1) \in Nat /\ Match!End(f, m) \in Nat
          /\ Match!End(f, j) \in Nat
      BY <1>1, <1>2, <2>5
    <3> QED  BY <3>1, <3>2, <3>3
  <2>7. m - 1 \in bad  BY <2>5, <2>6
  <2>8. n - (m - 1) \in away  BY <2>7
  <2>9. n - (m - 1) <= n - m  BY <2>4, <2>8
  <2> QED  BY <1>1, <2>5, <2>9
<1> HIDE DEF bad
<1>5. k \in 0..n /\ k \notin bad /\ j \in 0..n  BY <1>1, <1>4
<1>6. ~(Match!End(f, k) < Match!End(f, j))  BY <1>1, <1>5 DEF bad
<1> QED  BY <1>1, <1>2, <1>5, <1>6


LEMMA MatchBegins == ASSUME Match!StarAssumption PROVE Match!Init => MatchInv
<1> SUFFICES ASSUME Match!Init  PROVE MatchInv
  OBVIOUS
<1> USE DEF Match!Init
<1>1. value \in Seq(Bytes) /\ pattern \in Seq(Bytes)
  BY DEF Match!BoundedSeq, Match!SeqOf, Match!StarAssumption
<1>2. Match!Describes(value, pattern, 0, 0)
  <2> DEFINE f == [k \in 1..0 |-> 0]
  <2>1. f \in [1..0 -> 0..0] /\ Match!End(f, 0) = 0  BY DEF Match!End
  <2> HIDE DEF f
  <2>2. \A k \in 1..0 : Match!StandsFor(value, pattern, f, k)  OBVIOUS
  <2> QED  BY <2>1, <2>2, Zenon DEF Match!Describes
<1>3. MatchedInv
  <2>1. Len(value) \in Nat /\ Len(pattern) \in Nat /\ 1 - 1 = 0  BY <1>1
  <2> QED  BY <1>1, <1>2, <2>1 DEF MatchedInv
<1>4. FirstInv  BY DEF FirstInv, Match!End
<1>5. Match!WildcardIsRight
  BY DEF Match!WildcardIsRight, Match!YesIsRight, Match!NoIsRightWithoutStars
<1> QED  BY <1>3, <1>4, <1>5 DEF MatchInv

\* While the loop goes on there is no answer.
LEMMA NoAnswerYet ==
  ASSUME MatchInv, answer' = "none"
  PROVE  Match!WildcardIsRight'
BY DEF Match!WildcardIsRight, Match!YesIsRight, Match!NoIsRightWithoutStars

\* The next byte of a pattern without a star there takes one byte of the value.
LEMMA NextByte ==
  ASSUME MatchedInv, NEW f, Whole(f), NEW k \in 1..Len(pattern), pattern[k] # Star
  PROVE  /\ Match!End(f, k) = Match!End(f, k - 1) + 1
         /\ Match!End(f, k) \in 1..Len(value)
         /\ value[Match!End(f, k)] = pattern[k]
<1>1. Match!StandsFor(value, pattern, f, k)  BY DEF Whole
<1>2. Match!End(f, k) = f[k]  BY DEF Match!End
<1>3. k - 1 \in 0..Len(pattern) /\ Len(pattern) \in Nat /\ Len(value) \in Nat /\ k \in 0..Len(pattern)
  BY DEF MatchedInv
<1>4. Match!End(f, k - 1) \in 0..Len(value) /\ Match!End(f, k) \in 0..Len(value)
  <2>1. k - 1 \in (k - 1)..Len(pattern) /\ k \in k..Len(pattern)  BY <1>3
  <2> QED  BY <1>3, <2>1, EndsGrow DEF MatchedInv
<1> QED  BY <1>1, <1>2, <1>3, <1>4 DEF Match!StandsFor

\* As far as the loop has come, the ends of any match.
LEMMA WhereItIs ==
  ASSUME MatchedInv, FirstInv, NEW f, Whole(f)
  PROVE  /\ Match!End(f, pattern_index - 1) \in 0..Len(value)
         /\ Match!End(f, pattern_index - 1) >= value_index - 1
         /\ star # 0 => /\ f[star] \in 0..Len(value)
                        /\ f[star] = checkpoint - 1 =>
                              Match!End(f, pattern_index - 1) = value_index - 1
         /\ star = 0 => Match!End(f, pattern_index - 1) = value_index - 1
<1>1. /\ Len(pattern) \in Nat /\ Len(value) \in Nat
      /\ pattern_index - 1 \in 0..Len(pattern)
      /\ pattern_index - 1 \in (pattern_index - 1)..Len(pattern)
      /\ value_index \in Nat /\ checkpoint \in Nat /\ star \in Nat
      /\ star \in 0..Len(pattern) /\ star \in star..Len(pattern)
  BY DEF MatchedInv
<1>2. Match!End(f, pattern_index - 1) \in 0..Len(value)
  BY <1>1, EndsGrow DEF MatchedInv
<1>3. star # 0 => f[star] \in 0..Len(value)
  <2>1. Match!End(f, star) \in 0..Len(value)  BY <1>1, EndsGrow DEF MatchedInv
  <2> QED  BY <2>1 DEF Match!End
<1> QED  BY <1>1, <1>2, <1>3 DEF FirstInv

LEMMA LiteralKeeps ==
  ASSUME MatchInv, Match!Literal
  PROVE  MatchInv'
<1>1. /\ value_index <= Len(value) /\ pattern_index <= Len(pattern)
      /\ pattern[pattern_index] = value[value_index]
      /\ value_index' = value_index + 1 /\ pattern_index' = pattern_index + 1
      /\ UNCHANGED <<value, pattern, star, checkpoint, answer>>
      /\ answer = "none"
  BY DEF Match!Literal, Match!Running, Match!SameByte, Match!PatternHas, Match!texts
<1>2. /\ MatchedInv /\ value_index \in 1..Len(value) /\ pattern_index \in 1..Len(pattern)
      /\ Len(value) \in Nat /\ Len(pattern) \in Nat
  BY <1>1 DEF MatchInv, MatchedInv
<1>3. Match!Describes(value, pattern, value_index, pattern_index)
  <2> DEFINE i == value_index - 1
             j == pattern_index - 1
  <2>1. i \in Nat /\ j \in Nat /\ i + 1 = value_index /\ j + 1 = pattern_index
    BY <1>2
  <2>2. Match!Describes(value, pattern, i, j)  BY <1>2 DEF MatchedInv
  <2> HIDE DEF i, j
  <2>3. value_index \in Nat /\ i <= value_index  BY <1>2, <2>1
  <2>4. Match!Describes(value, pattern, value_index, j + 1)
    BY <1>1, <2>1, <2>2, <2>3, Extends
  <2> QED  BY <2>1, <2>4
<1>4. MatchedInv'
  <2>1. value_index' - 1 = value_index /\ pattern_index' - 1 = pattern_index
    BY <1>1, <1>2
  <2> QED  BY <1>1, <1>2, <1>3, <2>1 DEF MatchedInv
<1>5. ASSUME Star \notin Match!Range(value)  PROVE FirstInv'
  <2>1. FirstInv /\ pattern[pattern_index] # Star
    BY <1>1, <1>2, <1>5 DEF MatchInv, Match!Range
  <2> SUFFICES ASSUME NEW f, Whole(f)
               PROVE  IF star = 0
                      THEN Match!End(f, pattern_index) = value_index
                      ELSE /\ f[star] >= checkpoint - 1
                           /\ Match!End(f, pattern_index) - f[star] = pattern_index - star
                           /\ value_index + 1 - checkpoint = pattern_index - star
    <3>1. value_index' - 1 = value_index /\ pattern_index' - 1 = pattern_index
      BY <1>1, <1>2
    <3>2. \A f : Whole(f)' <=> Whole(f)
      BY <1>1 DEF Whole, Match!End, Match!StandsFor
    <3>3. \A f : Match!End(f, pattern_index - 1)' = Match!End(f, pattern_index)
      BY <3>1 DEF Match!End
    <3>4. value_index' - checkpoint' = value_index + 1 - checkpoint
      BY <1>1, <1>2 DEF MatchedInv
    <3> QED  BY <1>1, <3>1, <3>2, <3>3, <3>4 DEF FirstInv
  <2>2. Match!End(f, pattern_index) = Match!End(f, pattern_index - 1) + 1
    BY <1>2, <2>1, NextByte
  <2>3. /\ Match!End(f, pattern_index - 1) \in 0..Len(value)
        /\ star # 0 => f[star] \in 0..Len(value)
    BY <1>2, <2>1, WhereItIs
  <2>4. star \in Nat /\ checkpoint \in Nat /\ value_index \in Nat /\ pattern_index \in Nat
    BY <1>2 DEF MatchedInv
  <2> QED  BY <2>1, <2>2, <2>3, <2>4 DEF FirstInv
<1> QED  BY <1>1, <1>4, <1>5, NoAnswerYet DEF MatchInv


LEMMA MeetStarKeeps ==
  ASSUME MatchInv, Match!MeetStar
  PROVE  MatchInv'
<1>1. /\ value_index <= Len(value) /\ pattern_index <= Len(pattern)
      /\ pattern[pattern_index] = Star
      /\ star' = pattern_index /\ pattern_index' = pattern_index + 1
      /\ checkpoint' = value_index
      /\ UNCHANGED <<value, pattern, value_index, answer>>
      /\ answer = "none"
  BY DEF Match!MeetStar, Match!Running, Match!PatternHas, Match!texts
<1>2. /\ MatchedInv /\ value_index \in 1..Len(value) /\ pattern_index \in 1..Len(pattern)
      /\ Len(value) \in Nat /\ Len(pattern) \in Nat
      /\ star \in Nat /\ checkpoint \in Nat
  BY <1>1 DEF MatchInv, MatchedInv
<1>3. Match!Describes(value, pattern, value_index - 1, pattern_index)
  <2> DEFINE i == value_index - 1
             j == pattern_index - 1
  <2>1. i \in Nat /\ j \in Nat /\ j + 1 = pattern_index /\ i <= i
    BY <1>2
  <2>2. Match!Describes(value, pattern, i, j)  BY <1>2 DEF MatchedInv
  <2> HIDE DEF i, j
  <2>3. Match!Describes(value, pattern, i, j + 1)
    BY <1>1, <2>1, <2>2, Extends
  <2> QED  BY <2>1, <2>3 DEF i
<1>4. MatchedInv'
  <2>1. pattern_index' - 1 = pattern_index /\ pattern_index < pattern_index' /\ star' # 0
    BY <1>1, <1>2
  <2> QED  BY <1>1, <1>2, <1>3, <2>1 DEF MatchedInv
<1>5. ASSUME Star \notin Match!Range(value)  PROVE FirstInv'
  <2>1. FirstInv  BY <1>5 DEF MatchInv
  <2> SUFFICES ASSUME NEW f, Whole(f)
               PROVE  f[pattern_index] >= value_index - 1
    <3>1. pattern_index' - 1 = pattern_index /\ pattern_index # 0  BY <1>1, <1>2
    <3>2. \A f : Whole(f)' <=> Whole(f)
      BY <1>1 DEF Whole, Match!End, Match!StandsFor
    <3>3. \A f : Match!End(f, pattern_index - 1)' = f[pattern_index]
      BY <3>1 DEF Match!End
    <3>4. \A f : Whole(f) => f[pattern_index] - f[pattern_index] = 0
      BY <1>2 DEF Whole
    <3>5. /\ value_index' - checkpoint' = 0 /\ pattern_index' - 1 - star' = 0
          /\ checkpoint' - 1 = value_index - 1
      BY <1>1, <1>2
    <3> QED  BY <1>1, <3>1, <3>2, <3>3, <3>4, <3>5 DEF FirstInv
  <2>2. Match!End(f, pattern_index - 1) >= value_index - 1
    BY <1>2, <2>1, WhereItIs
  <2>3. /\ Match!End(f, pattern_index - 1) \in 0..Len(value)
        /\ Match!End(f, pattern_index - 1) <= Match!End(f, pattern_index)
    <3>1. pattern_index - 1 \in 0..Len(pattern) /\ pattern_index \in (pattern_index - 1)..Len(pattern)
      BY <1>2
    <3> QED  BY <1>2, <3>1, EndsGrow DEF MatchedInv
  <2>4. Match!End(f, pattern_index) = f[pattern_index] /\ f[pattern_index] \in 0..Len(value)
    BY <1>2 DEF Match!End, Whole
  <2> QED  BY <1>2, <2>2, <2>3, <2>4
<1> QED  BY <1>1, <1>4, <1>5, NoAnswerYet DEF MatchInv

\* Where the byte of the pattern is neither a star nor the value's, or missing,
\* no match comes through with what the loop has read so far.
LEMMA NoMatchHere ==
  ASSUME MatchedInv, value_index <= Len(value), ~Match!SameByte,
         ~Match!PatternHas({Star}), NEW f, Whole(f)
  PROVE  Match!End(f, pattern_index - 1) # value_index - 1
<1> SUFFICES ASSUME Match!End(f, pattern_index - 1) = value_index - 1  PROVE FALSE
  OBVIOUS
<1>1. /\ Len(pattern) \in Nat /\ Len(value) \in Nat /\ value_index \in Nat
      /\ pattern_index \in 1..(Len(pattern) + 1)
  BY DEF MatchedInv
<1>2. CASE pattern_index = Len(pattern) + 1
  <2>1. pattern_index - 1 = Len(pattern)  BY <1>1, <1>2
  <2> QED  BY <1>1, <2>1 DEF Whole
<1>3. CASE pattern_index \in 1..Len(pattern)
  <2>1. /\ pattern[pattern_index] # Star
        /\ pattern[pattern_index] # value[value_index]
    BY <1>1, <1>3 DEF Match!SameByte, Match!PatternHas
  <2>2. /\ Match!End(f, pattern_index) = value_index - 1 + 1
        /\ value[Match!End(f, pattern_index)] = pattern[pattern_index]
    BY <1>3, <2>1, NextByte
  <2> QED  BY <1>1, <2>1, <2>2
<1> QED  BY <1>1, <1>2, <1>3

LEMMA GoBackKeeps ==
  ASSUME MatchInv, Match!GoBack
  PROVE  MatchInv'
<1>1. /\ value_index <= Len(value) /\ ~Match!SameByte /\ ~Match!PatternHas({Star})
      /\ star # 0
      /\ pattern_index' = star + 1 /\ checkpoint' = checkpoint + 1
      /\ value_index' = checkpoint + 1
      /\ UNCHANGED <<value, pattern, star, answer>>
      /\ answer = "none"
  BY DEF Match!GoBack, Match!Running, Match!texts
<1>2. /\ MatchedInv /\ value_index \in 1..Len(value)
      /\ Len(value) \in Nat /\ Len(pattern) \in Nat
      /\ star \in 1..Len(pattern) /\ checkpoint \in 1..Len(value)
      /\ pattern[star] = Star
  BY <1>1 DEF MatchInv, MatchedInv
<1>3. Match!Describes(value, pattern, checkpoint, star)
  <2> DEFINE i == checkpoint - 1
  <2>1. i \in Nat /\ i + 1 = checkpoint /\ star \in Nat \ {0}  BY <1>2
  <2>2. Match!Describes(value, pattern, i, star)  BY <1>1, <1>2 DEF MatchedInv
  <2> HIDE DEF i
  <2>3. Match!Describes(value, pattern, i + 1, star)
    BY <1>2, <2>1, <2>2, TakesMore
  <2> QED  BY <2>1, <2>3
<1>4. /\ pattern_index' - 1 = star /\ value_index' - 1 = checkpoint
      /\ checkpoint' - 1 = checkpoint /\ star < pattern_index'
      /\ value_index' - checkpoint' = 0 /\ pattern_index' - 1 - star = 0
  BY <1>1, <1>2
<1>5. MatchedInv'
  BY <1>1, <1>2, <1>3, <1>4 DEF MatchedInv
<1>6. ASSUME Star \notin Match!Range(value)  PROVE FirstInv'
  <2>1. FirstInv  BY <1>6 DEF MatchInv
  <2> SUFFICES ASSUME NEW f, Whole(f)
               PROVE  f[star] >= checkpoint
    <3>1. \A f : Whole(f)' <=> Whole(f)
      BY <1>1 DEF Whole, Match!End, Match!StandsFor
    <3>2. \A f : Match!End(f, pattern_index - 1)' = f[star]
      BY <1>1, <1>4 DEF Match!End
    <3>3. \A f : Whole(f) => f[star] - f[star] = 0
      BY <1>2 DEF Whole
    <3> QED  BY <1>1, <1>4, <3>1, <3>2, <3>3 DEF FirstInv
  <2>2. f[star] >= checkpoint - 1  BY <1>1, <2>1 DEF FirstInv
  <2>3. f[star] # checkpoint - 1
    BY <1>1, <1>2, <2>1, NoMatchHere, WhereItIs
  <2>4. f[star] \in 0..Len(value)  BY <1>1, <1>2, <2>1, WhereItIs
  <2> QED  BY <1>2, <2>2, <2>3, <2>4
<1> QED  BY <1>1, <1>5, <1>6, NoAnswerYet DEF MatchInv

\* What describes the whole of a value is such a match.
LEMMA GlobIsWhole ==
  Match!Glob(value, pattern) <=> \E f : Whole(f)
BY DEF Match!Glob, Match!Describes, Whole

LEMMA SameGlob ==
  ASSUME UNCHANGED <<value, pattern>>
  PROVE  Match!Glob(value, pattern)' <=> Match!Glob(value, pattern)
BY DEF Match!Glob, Match!Describes, Match!End, Match!StandsFor

LEMMA GiveUpKeeps ==
  ASSUME MatchInv, Match!GiveUp
  PROVE  MatchInv'
<1>1. /\ value_index <= Len(value) /\ ~Match!SameByte /\ ~Match!PatternHas({Star})
      /\ star = 0 /\ answer' = "no"
      /\ UNCHANGED <<value, pattern, value_index, pattern_index, star, checkpoint>>
  BY DEF Match!GiveUp, Match!Running, Match!texts
<1>2. MatchedInv  BY DEF MatchInv
<1>3. MatchedInv'  BY <1>1, <1>2 DEF MatchedInv
<1>4. Star \notin Match!Range(value) => FirstInv'
  BY <1>1 DEF MatchInv, FirstInv, Whole, Match!End, Match!StandsFor
<1>5. ASSUME Star \notin Match!Range(value)  PROVE ~Match!Glob(value, pattern)
  <2>1. FirstInv  BY <1>5 DEF MatchInv
  <2> SUFFICES ASSUME NEW f, Whole(f)  PROVE FALSE
    BY GlobIsWhole
  <2> QED  BY <1>1, <1>2, <2>1, NoMatchHere, WhereItIs
<1>6. Match!WildcardIsRight'
  <2>1. Match!Glob(value, pattern)' <=> Match!Glob(value, pattern)
    BY <1>1, SameGlob
  <2>2. Match!Range(value)' = Match!Range(value)  BY <1>1 DEF Match!Range
  <2> QED  BY <1>1, <1>5, <2>1, <2>2
       DEF Match!WildcardIsRight, Match!YesIsRight, Match!NoIsRightWithoutStars
<1> QED  BY <1>1, <1>3, <1>4, <1>6 DEF MatchInv


\* Stars that are left stand for nothing.
LEMMA StarsTakeNothing ==
  ASSUME NEW v, NEW p, NEW i \in Nat, NEW j \in Nat, NEW n \in Nat, j <= n,
         Match!Describes(v, p, i, j), \A k \in (j + 1)..n : p[k] = Star
  PROVE  Match!Describes(v, p, i, n)
<1>1. PICK f \in [1..j -> 0..i] :
         Match!End(f, j) = i /\ \A k \in 1..j : Match!StandsFor(v, p, f, k)
  BY DEF Match!Describes
<1> DEFINE g == [k \in 1..n |-> IF k <= j THEN f[k] ELSE i]
<1>2. g \in [1..n -> 0..i] /\ \A k \in 1..n : g[k] = IF k <= j THEN f[k] ELSE i
  BY <1>1
<1> HIDE DEF g
<1>3. \A k \in 0..j : Match!End(g, k) = Match!End(f, k)
  BY <1>2 DEF Match!End
<1>4. \A k \in j..n : Match!End(g, k) = i
  BY <1>1, <1>2 DEF Match!End
<1>5. ASSUME NEW k \in 1..n  PROVE Match!StandsFor(v, p, g, k)
  <2>1. CASE k <= j
    <3>1. k \in 1..j /\ k - 1 \in 0..j  BY <2>1
    <3> QED  BY <1>1, <1>2, <1>3, <3>1 DEF Match!StandsFor
  <2>2. CASE ~(k <= j)
    <3>1. k - 1 \in j..n /\ k \in (j + 1)..n  BY <2>2
    <3>2. g[k] = i /\ Match!End(g, k - 1) = i /\ p[k] = Star /\ i <= i
      BY <1>2, <1>4, <2>2, <3>1
    <3> QED  BY <3>2 DEF Match!StandsFor
  <2> QED  BY <2>1, <2>2
<1>6. Match!End(g, n) = i  BY <1>4
<1> QED  BY <1>2, <1>5, <1>6 DEF Match!Describes

LEMMA FinishKeeps ==
  ASSUME MatchInv, Match!Finish
  PROVE  MatchInv'
<1> DEFINE rest == SubSeq(pattern, pattern_index, Len(pattern))
<1>1. /\ value_index > Len(value)
      /\ answer' = IF Match!AllStars(rest) THEN "yes" ELSE "no"
      /\ UNCHANGED <<value, pattern, value_index, pattern_index, star, checkpoint>>
  BY DEF Match!Finish, Match!texts
<1>2. /\ MatchedInv /\ value_index - 1 = Len(value)
      /\ Len(value) \in Nat /\ Len(pattern) \in Nat
      /\ pattern \in Seq(Bytes) /\ pattern_index \in 1..(Len(pattern) + 1)
  BY <1>1 DEF MatchInv, MatchedInv
<1>3. MatchedInv'  BY <1>1, <1>2 DEF MatchedInv
<1>4. Star \notin Match!Range(value) => FirstInv'
  BY <1>1 DEF MatchInv, FirstInv, Whole, Match!End, Match!StandsFor, Match!Range
<1>5. Match!AllStars(rest) <=> \A k \in pattern_index..Len(pattern) : pattern[k] = Star
  <2>1. DOMAIN rest = 1..(Len(pattern) + 1 - pattern_index)
    BY <1>2
  <2>2. \A k \in 1..(Len(pattern) + 1 - pattern_index) : rest[k] = pattern[pattern_index + k - 1]
    BY <1>2
  <2> HIDE DEF rest
  <2>3. ASSUME Match!AllStars(rest), NEW k \in pattern_index..Len(pattern)
        PROVE  pattern[k] = Star
    <3>1. k - pattern_index + 1 \in 1..(Len(pattern) + 1 - pattern_index)  BY <1>2
    <3>2. rest[k - pattern_index + 1] = pattern[pattern_index + (k - pattern_index + 1) - 1]
      BY <2>2, <3>1
    <3>3. pattern_index + (k - pattern_index + 1) - 1 = k  BY <1>2
    <3>4. rest[k - pattern_index + 1] = Star  BY <2>1, <2>3, <3>1 DEF Match!AllStars
    <3> QED  BY <3>2, <3>3, <3>4
  <2>4. ASSUME \A k \in pattern_index..Len(pattern) : pattern[k] = Star,
               NEW k \in 1..(Len(pattern) + 1 - pattern_index)
        PROVE  rest[k] = Star
    <3>1. pattern_index + k - 1 \in pattern_index..Len(pattern)  BY <1>2
    <3> QED  BY <2>2, <2>4, <3>1
  <2> QED  BY <2>1, <2>3, <2>4 DEF Match!AllStars
<1> HIDE DEF rest
<1>6. ASSUME Match!AllStars(rest)  PROVE Match!Glob(value, pattern)
  <2> DEFINE j == pattern_index - 1
  <2>1. j \in Nat /\ j + 1 = pattern_index /\ j <= Len(pattern)  BY <1>2
  <2>2. Match!Describes(value, pattern, Len(value), j)  BY <1>2 DEF MatchedInv
  <2> HIDE DEF j
  <2>3. Match!Describes(value, pattern, Len(value), Len(pattern))
    BY <1>2, <1>5, <1>6, <2>1, <2>2, StarsTakeNothing
  <2> QED  BY <2>3 DEF Match!Glob
<1>7. ASSUME ~Match!AllStars(rest), Star \notin Match!Range(value)
      PROVE  ~Match!Glob(value, pattern)
  <2>1. FirstInv  BY <1>7 DEF MatchInv
  <2> SUFFICES ASSUME NEW f, Whole(f)  PROVE FALSE
    BY GlobIsWhole
  <2>2. PICK k \in pattern_index..Len(pattern) : pattern[k] # Star  BY <1>5, <1>7
  <2>3. Match!End(f, pattern_index - 1) >= value_index - 1  BY <1>2, <2>1, WhereItIs
  <2>4. /\ pattern_index - 1 \in 0..Len(pattern) /\ k - 1 \in (pattern_index - 1)..Len(pattern)
        /\ k \in 1..Len(pattern)
    BY <1>2
  <2>5. /\ Match!End(f, pattern_index - 1) <= Match!End(f, k - 1)
        /\ Match!End(f, pattern_index - 1) \in 0..Len(value)
    BY <1>2, <2>4, EndsGrow DEF MatchedInv
  <2>6. /\ Match!End(f, k) = Match!End(f, k - 1) + 1
        /\ Match!End(f, k) \in 1..Len(value)
    BY <1>2, <2>2, <2>4, NextByte
  <2>7. Match!End(f, k - 1) \in 0..Len(value)
    <3>1. k - 1 \in 0..Len(pattern) /\ k - 1 \in (k - 1)..Len(pattern)  BY <1>2, <2>4
    <3> QED  BY <1>2, <3>1, EndsGrow DEF MatchedInv
  <2> QED  BY <1>2, <2>3, <2>5, <2>6, <2>7
<1>8. Match!WildcardIsRight'
  <2>1. Match!Glob(value, pattern)' <=> Match!Glob(value, pattern)
    BY <1>1, SameGlob
  <2>2. Match!Range(value)' = Match!Range(value)  BY <1>1 DEF Match!Range
  <2> QED  BY <1>1, <1>6, <1>7, <2>1, <2>2
       DEF Match!WildcardIsRight, Match!YesIsRight, Match!NoIsRightWithoutStars
<1> QED  BY <1>1, <1>3, <1>4, <1>8 DEF MatchInv

\* The matcher of `*` patterns (wildcard, query.rs): for values and patterns of
\* any length over any bytes, a yes is right, and a no is right for values that
\* have no star, whatever the loop tried and took back.
THEOREM MatcherIsRight ==
  ASSUME Match!StarAssumption
  PROVE  Match!Spec => []WildcardIsRight
<1>1. Match!Init => MatchInv  BY MatchBegins
<1>2. MatchInv /\ [Match!Next]_(Match!vars) => MatchInv'
  <2> SUFFICES ASSUME MatchInv, [Match!Next]_(Match!vars)  PROVE MatchInv'
    OBVIOUS
  <2>1. CASE Match!Next
    BY <2>1, LiteralKeeps, MeetStarKeeps, GoBackKeeps, GiveUpKeeps, FinishKeeps
    DEF Match!Next
  <2>2. CASE UNCHANGED Match!vars
    <3>1. UNCHANGED <<value, pattern, value_index, pattern_index, star, checkpoint, answer>>
      BY <2>2 DEF Match!vars
    <3>2. MatchedInv'
      BY <3>1 DEF MatchInv, MatchedInv, Match!Describes, Match!End, Match!StandsFor
    <3>3. Star \notin Match!Range(value)' => FirstInv'
      BY <3>1 DEF MatchInv, FirstInv, Whole, Match!End, Match!StandsFor, Match!Range
    <3>4. Match!WildcardIsRight'
      BY <3>1, SameGlob
      DEF MatchInv, Match!WildcardIsRight, Match!YesIsRight, Match!NoIsRightWithoutStars, Match!Range
    <3> QED  BY <3>2, <3>3, <3>4 DEF MatchInv
  <2> QED  BY <2>1, <2>2
<1>3. MatchInv => WildcardIsRight  BY DEF MatchInv, WildcardIsRight
<1> QED  BY <1>1, <1>2, <1>3, PTL DEF Match!Spec

=============================================================================
