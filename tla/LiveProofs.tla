----------------------------- MODULE LiveProofs -----------------------------
(***************************************************************************)
(* Theorems about LiveEvents for every set of tables, capacity and bound:  *)
(* a stream has no gaps, and a page at rest shows what it heard of.        *)
(***************************************************************************)
EXTENDS LiveEvents, FiniteSetTheorems, TLAPS

Announcement == [table : Tables, upto : Nat]

\* Why these hold.  No announcement tells of more than its table has ...
AnnouncedInv ==
    /\ \A i \in 1..Len(sent) : sent[i].upto <= committed[sent[i].table]
    /\ \A i \in 1..Len(unsent) : unsent[i].upto <= committed[unsent[i].table]

\* ... a stream is at one place after the other, a closed one nowhere ...
StreamInv ==
    /\ stream # "open" => position = None /\ wire = <<>>
    /\ stream = "open" => since \in 1..heard + 1 /\ heard <= Len(sent)
    /\ \A k \in 1..Len(wire) : wire[k] = heard + k
    /\ position # None => position = heard + Len(wire) + 1 /\ position <= Len(sent) + 1

\* ... and what the page has heard of is shown, has been read, is to be read
\* or is given up with an error.
ReachesPage(announced) ==
    \/ shown >= announced.upto
    \/ timer \/ failed \/ fetch = Requested
    \/ fetch \in Nat /\ fetch >= announced.upto

PageInv ==
    /\ shown <= committed[table]
    /\ fetch \in Nat => shown <= fetch /\ fetch <= committed[table]
    /\ stream = "open" => \A place \in since..heard :
          sent[place].table = table => ReachesPage(sent[place])

LiveInv == LiveTypeOK /\ AnnouncedInv /\ StreamInv /\ PageInv

\* Some sequence holds the elements of a finite set.
LEMMA SetToSeqType ==
  ASSUME NEW S, IsFiniteSet(S)
  PROVE  SetToSeq(S) \in Seq(S)
<1> DEFINE n == Cardinality(S)
<1>1. n \in Nat /\ ExistsBijection(1..n, S)
  BY FS_CardinalityType
<1>2. PICK f \in Bijection(1..n, S) : TRUE
  BY <1>1 DEF ExistsBijection
<1>3. f \in [1..n -> S] /\ IsInjective(f)
  BY <1>2 DEF Bijection, Injection, Surjection, IsInjective
<1>4. SetToSeq(S) \in [1..n -> S]
  BY <1>3 DEF SetToSeq
<1> QED  BY <1>1, <1>4

\* At first nothing is announced, heard of or shown.
LEMMA InitLive == LiveAssumption /\ LiveInit => LiveInv
<1> SUFFICES ASSUME LiveAssumption, LiveInit  PROVE LiveInv
  OBVIOUS
<1>1. LiveTypeOK
  <2>1. sent = <<>> /\ unsent = <<>> /\ wire = <<>>
    BY DEF LiveInit
  <2>2. /\ sent \in Seq([table : Tables, upto : Nat])
        /\ unsent \in Seq([table : Tables, upto : Nat])
        /\ wire \in Seq(1..Len(sent))
    BY <2>1
  <2>3. /\ committed \in [Tables -> Nat] /\ {since, heard, shown} \subseteq Nat
    BY DEF LiveInit
  <2>4. /\ position \in Nat \cup {None} /\ fetch \in Nat \cup {None, Requested}
        /\ stream \in {"closed", "asked", "open"} /\ table \in Tables
        /\ timer \in BOOLEAN /\ failed \in BOOLEAN
        /\ listener \in {"serving", "draining", "stopped"}
    BY DEF LiveInit
  <2> QED  BY <2>2, <2>3, <2>4 DEF LiveTypeOK
<1>2. AnnouncedInv /\ StreamInv /\ PageInv
  BY DEF LiveAssumption, LiveInit, AnnouncedInv, StreamInv, PageInv
<1> QED  BY <1>1, <1>2 DEF LiveInv

\* What is said of a message on the wire stays true when more is announced.
LEMMA WireGrows ==
  ASSUME NEW m \in Nat, NEW n \in Nat, m <= n, NEW w \in Seq(1..m)
  PROVE  w \in Seq(1..n)
<1>1. \A k \in 1..Len(w) : w[k] \in 1..n  OBVIOUS
<1>2. w \in [1..Len(w) -> 1..n] /\ Len(w) \in Nat  BY <1>1
<1> QED  BY <1>2

\* A batch only adds to what tables have.
LEMMA CommitKeeps ==
  ASSUME LiveAssumption, LiveInv, NEW changed \in SUBSET Tables, WriteBatch(changed)
  PROVE  LiveInv'
<1> DEFINE S == {[table |-> t, upto |-> committed'[t]] : t \in changed}
<1>1. /\ committed \in [Tables -> Nat] /\ committed' \in [Tables -> Nat]
      /\ \A t \in Tables : committed[t] <= committed'[t]
  BY DEF LiveInv, LiveTypeOK, WriteBatch
<1>2. UNCHANGED <<sent, Stream, Page, listener>>
  BY DEF WriteBatch
<1>3. unsent' \in Seq(Announcement)
      /\ \A i \in 1..Len(unsent') : unsent'[i].upto = committed'[unsent'[i].table]
  <2>1. IsFiniteSet(changed)
    BY FS_Subset DEF LiveAssumption
  <2>2. IsFiniteSet(S)
    <3> DEFINE f == [t \in changed |-> [table |-> t, upto |-> committed'[t]]]
    <3>1. f \in Surjection(changed, S)
      BY DEF Surjection
    <3> QED  BY <2>1, <3>1, FS_Surjection
  <2>3. unsent' = SetToSeq(S)
    BY DEF WriteBatch
  <2>4. unsent' \in Seq(S)
    BY <2>2, <2>3, SetToSeqType
  <2>5. \A x \in S : x \in Announcement /\ x.upto = committed'[x.table]
    BY <1>1 DEF Announcement
  <2> HIDE DEF S
  <2>6. Len(unsent') \in Nat /\ unsent' \in [1..Len(unsent') -> S]
    BY <2>4
  <2> QED  BY <2>5, <2>6
<1>4. LiveTypeOK'
  BY <1>1, <1>2, <1>3 DEF LiveInv, LiveTypeOK, Stream, Page, Announcement
<1>5. AnnouncedInv'
  <2>1. ASSUME NEW i \in 1..Len(sent)
        PROVE  sent[i].upto <= committed'[sent[i].table]
    <3>0. sent \in Seq(Announcement)
      BY DEF LiveInv, LiveTypeOK, Announcement
    <3>1. sent[i] \in Announcement
      BY <3>0
    <3>2. sent[i].upto <= committed[sent[i].table]
      BY DEF LiveInv, AnnouncedInv
    <3> QED  BY <1>1, <3>1, <3>2 DEF Announcement
  <2>2. ASSUME NEW i \in 1..Len(unsent')
        PROVE  unsent'[i].upto <= committed'[unsent'[i].table]
    <3>1. unsent'[i] \in Announcement
      BY <1>3
    <3>2. committed'[unsent'[i].table] \in Nat
      BY <1>1, <3>1 DEF Announcement
    <3> QED  BY <1>3, <3>2
  <2> QED  BY <1>2, <2>1, <2>2 DEF AnnouncedInv
<1>6. StreamInv'
  BY <1>2 DEF LiveInv, StreamInv, Stream
<1>7. PageInv'
  BY <1>1, <1>2 DEF LiveInv, LiveTypeOK, PageInv, ReachesPage, Stream, Page
<1> QED  BY <1>4, <1>5, <1>6, <1>7 DEF LiveInv

\* An announcement gets the next place, and none before it changes.
LEMMA AnnounceKeeps ==
  ASSUME LiveInv, Announce
  PROVE  LiveInv'
<1>1. /\ sent \in Seq(Announcement) /\ unsent \in Seq(Announcement) /\ unsent # <<>>
      /\ sent' = Append(sent, Head(unsent)) /\ unsent' = Tail(unsent)
      /\ UNCHANGED <<committed, Stream, Page, listener>>
  BY DEF LiveInv, LiveTypeOK, Announce, Announcement
<1>2. /\ Len(sent) \in Nat /\ Len(sent') = Len(sent) + 1 /\ sent' \in Seq(Announcement)
      /\ \A i \in 1..Len(sent) : sent'[i] = sent[i]
      /\ sent'[Len(sent')] = unsent[1] /\ 1 \in 1..Len(unsent)
  BY <1>1
<1>3. /\ unsent' \in Seq(Announcement) /\ Len(unsent') = Len(unsent) - 1
      /\ \A i \in 1..Len(unsent') : i + 1 \in 1..Len(unsent) /\ unsent'[i] = unsent[i + 1]
  BY <1>1
<1>4. LiveTypeOK'
  <2>1. wire' \in Seq(1..Len(sent'))
    BY <1>1, <1>2, WireGrows DEF LiveInv, LiveTypeOK, Stream
  <2> QED
    BY <1>1, <1>2, <1>3, <2>1 DEF LiveInv, LiveTypeOK, Stream, Page, Announcement
<1>5. AnnouncedInv'
  <2>1. ASSUME NEW i \in 1..Len(sent')
        PROVE  sent'[i].upto <= committed[sent'[i].table]
    <3>1. CASE i \in 1..Len(sent)
      BY <1>2, <3>1 DEF LiveInv, AnnouncedInv
    <3>2. CASE i = Len(sent')
      BY <1>2, <3>2 DEF LiveInv, AnnouncedInv
    <3> QED  BY <1>2, <3>1, <3>2
  <2>2. ASSUME NEW i \in 1..Len(unsent')
        PROVE  unsent'[i].upto <= committed[unsent'[i].table]
    BY <1>3 DEF LiveInv, AnnouncedInv
  <2> QED  BY <1>1, <2>1, <2>2 DEF AnnouncedInv
<1>6. StreamInv'
  BY <1>1, <1>2 DEF LiveInv, LiveTypeOK, StreamInv, Stream
<1>7. PageInv'
  <2>1. ASSUME stream = "open", NEW place \in since..heard
        PROVE  sent'[place] = sent[place]
    <3>1. since \in Nat /\ heard \in Nat  BY DEF LiveInv, LiveTypeOK
    <3>2. 1 <= since /\ heard <= Len(sent)
      BY <2>1, <3>1 DEF LiveInv, StreamInv
    <3> QED  BY <1>2, <3>1, <3>2
  <2> QED
    BY <1>1, <2>1 DEF LiveInv, PageInv, ReachesPage, Stream, Page
<1> QED  BY <1>4, <1>5, <1>6, <1>7 DEF LiveInv

\* What concerns only the stream leaves what is announced alone.
LEMMA OnlyTheStream ==
  ASSUME LiveInv, UNCHANGED <<Server, Page, listener>>,
         position' \in Nat \cup {None}, since' \in Nat, heard' \in Nat,
         wire' \in Seq(1..Len(sent)), stream' \in {"closed", "asked", "open"}
  PROVE  LiveTypeOK' /\ AnnouncedInv'
<1>1. UNCHANGED <<committed, unsent, sent, table, timer, fetch, shown, failed, listener>>
  BY DEF Server, Page
<1>2. AnnouncedInv'
  BY <1>1 DEF LiveInv, AnnouncedInv
<1>3. wire' \in Seq(1..Len(sent'))
  BY <1>1
<1>4. LiveTypeOK'
  BY <1>1, <1>3 DEF LiveInv, LiveTypeOK
<1> QED  BY <1>2, <1>4

\* The server's part of a stream: it goes on by one place or ends.
LEMMA StreamKeeps ==
  ASSUME LiveAssumption, LiveInv,
         Subscribe \/ Forward \/ EndLagging \/ EndAtShutdown \/ Break
           \/ Connect \/ Closed
  PROVE  LiveInv'
<1>1. /\ UNCHANGED <<Server, Page, listener>>
      /\ sent \in Seq(Announcement) /\ Len(sent) \in Nat
      /\ {since, heard} \subseteq Nat /\ wire \in Seq(1..Len(sent)) /\ Len(wire) \in Nat
      /\ position \in Nat \cup {None} /\ None \notin Nat
  BY DEF Subscribe, Forward, EndLagging, EndAtShutdown, Break, Connect, Closed,
         LiveInv, LiveTypeOK, Announcement, LiveAssumption
<1>2. CASE Subscribe
  <2>1. wire = <<>> /\ wire' = wire  BY <1>2 DEF Subscribe, LiveInv, StreamInv
  <2>2. stream' = "open" /\ position' = Len(sent) + 1 /\ since' = Len(sent) + 1
        /\ heard' = Len(sent)
    BY <1>2 DEF Subscribe
  <2>3. LiveTypeOK' /\ AnnouncedInv'
    BY <1>1, <2>1, <2>2, OnlyTheStream
  <2>4. StreamInv'
    BY <1>1, <2>1, <2>2 DEF StreamInv, Server
  <2>5. PageInv'
    BY <1>1, <2>2 DEF LiveInv, PageInv, Server, Page
  <2> QED  BY <2>3, <2>4, <2>5 DEF LiveInv
<1>3. CASE Forward
  <2>1. /\ position \in 1..Len(sent) /\ position = heard + Len(wire) + 1
        /\ wire' = Append(wire, position) /\ position' = position + 1
        /\ UNCHANGED <<since, heard, stream>> /\ stream = "open"
    BY <1>1, <1>3 DEF Forward, Pending, LiveInv, StreamInv
  <2>2. /\ wire' \in Seq(1..Len(sent)) /\ Len(wire') = Len(wire) + 1
        /\ \A k \in 1..Len(wire) : wire'[k] = wire[k]
        /\ wire'[Len(wire')] = position
    BY <1>1, <2>1
  <2>3. LiveTypeOK' /\ AnnouncedInv'
    <3>1. position' \in Nat \cup {None} /\ since' \in Nat /\ heard' \in Nat
          /\ stream' \in {"closed", "asked", "open"}
      BY <1>1, <2>1
    <3> QED  BY <1>1, <2>2, <3>1, OnlyTheStream
  <2>4. \A k \in 1..Len(wire') : wire'[k] = heard + k
    BY <1>1, <2>1, <2>2 DEF LiveInv, StreamInv
  <2>5. StreamInv'
    BY <1>1, <2>1, <2>2, <2>4 DEF LiveInv, StreamInv, Server
  <2>6. PageInv'
    BY <1>1, <2>1 DEF LiveInv, PageInv, ReachesPage, Server, Page
  <2> QED  BY <2>3, <2>5, <2>6 DEF LiveInv
<1>4. CASE EndLagging \/ EndAtShutdown
  <2>1. position' = None /\ UNCHANGED <<since, wire, heard, stream>>
    BY <1>4 DEF EndLagging, EndAtShutdown
  <2>2. stream \in {"closed", "asked", "open"}  BY DEF LiveInv, LiveTypeOK
  <2>3. LiveTypeOK' /\ AnnouncedInv'
    BY <1>1, <2>1, <2>2, OnlyTheStream
  <2>4. StreamInv' /\ PageInv'
    BY <1>1, <2>1 DEF LiveInv, StreamInv, PageInv, ReachesPage, Server, Page
  <2> QED  BY <2>3, <2>4 DEF LiveInv
<1>5. CASE Break \/ Connect \/ Closed
  <2>1. /\ position' = None /\ wire' = <<>> /\ stream' \in {"closed", "asked"}
        /\ UNCHANGED <<since, heard>>
    BY <1>5 DEF Break, Connect, Closed, LiveInv, StreamInv
  <2>2. wire' \in Seq(1..Len(sent))  BY <2>1
  <2>3. LiveTypeOK' /\ AnnouncedInv'
    BY <1>1, <2>1, <2>2, OnlyTheStream
  <2>4. StreamInv' /\ PageInv'
    BY <1>1, <2>1 DEF LiveInv, StreamInv, PageInv, Server, Page
  <2> QED  BY <2>3, <2>4 DEF LiveInv
<1> QED  BY <1>2, <1>3, <1>4, <1>5

\* What the page does with the stream, its timer and its reads.
LEMMA PageKeeps ==
  ASSUME LiveAssumption, LiveInv,
         Receive \/ Refresh \/ ReadTable \/ Show \/ ReadFails
           \/ \E t \in Tables : Switch(t)
  PROVE  LiveInv'
<1>0. UNCHANGED <<Server, listener>>
  BY DEF Receive, Refresh, ReadTable, Show, ReadFails, Switch
<1>1. /\ UNCHANGED <<committed, unsent, sent, listener>>
      /\ sent \in Seq(Announcement) /\ Len(sent) \in Nat
      /\ committed \in [Tables -> Nat] /\ table \in Tables
      /\ since \in Nat /\ heard \in Nat /\ shown \in Nat
      /\ wire \in Seq(1..Len(sent)) /\ Len(wire) \in Nat
      /\ position \in Nat \cup {None} /\ fetch \in Nat \cup {None, Requested}
      /\ None \notin Nat /\ Requested \notin Nat /\ None # Requested
  BY <1>0 DEF LiveInv, LiveTypeOK, Announcement, LiveAssumption, Server
<1>2. AnnouncedInv'
  BY <1>1 DEF LiveInv, AnnouncedInv, Server
<1>3. ASSUME stream = "open", NEW place \in since..heard
      PROVE  /\ sent[place] \in Announcement
             /\ sent[place].upto <= committed[sent[place].table]
  <2>1. 1 <= since /\ heard <= Len(sent)
    BY <1>1, <1>3 DEF LiveInv, StreamInv
  <2>2. place \in 1..Len(sent)  BY <1>1, <2>1
  <2> QED  BY <1>1, <2>2 DEF LiveInv, AnnouncedInv
<1>4. CASE Receive
  <2>1. /\ wire # <<>> /\ heard' = Head(wire) /\ wire' = Tail(wire)
        /\ timer' = (timer \/ sent[Head(wire)].table = table)
        /\ UNCHANGED <<position, since, stream, table, fetch, shown, failed>>
    BY <1>4 DEF Receive
  <2>2. /\ Head(wire) \in 1..Len(sent) /\ Head(wire) = heard + 1
        /\ wire' \in Seq(1..Len(sent)) /\ Len(wire') = Len(wire) - 1
        /\ \A k \in 1..Len(wire') : k + 1 \in 1..Len(wire) /\ wire'[k] = wire[k + 1]
        /\ stream = "open"
    BY <1>1, <2>1 DEF LiveInv, StreamInv
  <2>3. LiveTypeOK'
    BY <1>1, <2>1, <2>2 DEF LiveInv, LiveTypeOK, Server
  <2>4. \A k \in 1..Len(wire') : wire'[k] = heard' + k
    BY <1>1, <2>1, <2>2 DEF LiveInv, StreamInv
  <2>5. StreamInv'
    BY <1>1, <2>1, <2>2, <2>4 DEF LiveInv, StreamInv, Server
  \* Without a gap only one place is new, and it sets the timer.
  <2>6. ASSUME NEW place \in since..heard', sent[place].table = table
        PROVE  ReachesPage(sent[place])'
    <3>1. CASE place = heard'
      BY <2>1, <2>6, <3>1 DEF ReachesPage
    <3>2. CASE place \in since..heard
      BY <1>1, <2>1, <2>2, <2>6, <3>2 DEF LiveInv, PageInv, ReachesPage, Server
    <3> QED  BY <1>1, <2>1, <2>2, <3>1, <3>2
  <2>7. PageInv'
    BY <1>1, <2>1, <2>6 DEF LiveInv, PageInv, Server
  <2> QED  BY <1>2, <2>3, <2>5, <2>7 DEF LiveInv
<1>5. ASSUME UNCHANGED <<Stream, table>>, shown' \in Nat,
             fetch' \in Nat \cup {None, Requested},
             timer' \in BOOLEAN, failed' \in BOOLEAN,
             shown' <= committed[table],
             fetch' \in Nat => shown' <= fetch' /\ fetch' <= committed[table],
             \A place \in since..heard :
                stream = "open" /\ sent[place].table = table
                    /\ ReachesPage(sent[place]) => ReachesPage(sent[place])'
      PROVE  LiveInv'
  <2>1. LiveTypeOK'
    BY <1>1, <1>5 DEF LiveInv, LiveTypeOK, Server, Stream
  <2>2. StreamInv'
    BY <1>1, <1>5 DEF LiveInv, StreamInv, Server, Stream
  <2>3. PageInv'
    BY <1>1, <1>5 DEF LiveInv, PageInv, Server, Stream
  <2> QED  BY <1>2, <2>1, <2>2, <2>3 DEF LiveInv
<1>6. timer \in BOOLEAN /\ failed \in BOOLEAN
      /\ shown <= committed[table] /\ committed[table] \in Nat
      /\ (fetch \in Nat => shown <= fetch /\ fetch <= committed[table])
  BY <1>1 DEF LiveInv, LiveTypeOK, PageInv
<1>7. CASE Refresh
  BY <1>1, <1>5, <1>6, <1>7 DEF Refresh, ReachesPage, Server
<1>8. CASE ReadTable
  <2>1. fetch' = committed[table] /\ UNCHANGED <<table, timer, shown, failed, Stream>>
    BY <1>8 DEF ReadTable
  <2>2. \A place \in since..heard :
           stream = "open" /\ sent[place].table = table => ReachesPage(sent[place])'
    BY <1>1, <1>3, <1>6, <2>1 DEF ReachesPage, Server
  <2> QED  BY <1>1, <1>5, <1>6, <2>1, <2>2
<1>9. CASE Show
  <2>1. fetch \in Nat /\ shown' = fetch /\ fetch' = None
        /\ UNCHANGED <<table, timer, failed, Stream>>
    BY <1>9 DEF Show
  <2>2. \A place \in since..heard :
           stream = "open" /\ ReachesPage(sent[place]) => ReachesPage(sent[place])'
    BY <1>1, <1>3, <1>6, <2>1 DEF ReachesPage, Server, Announcement
  <2> QED  BY <1>1, <1>5, <1>6, <2>1, <2>2
<1>10. CASE ReadFails
  BY <1>1, <1>5, <1>6, <1>10 DEF ReadFails, ReachesPage, Server
<1>11. CASE \E t \in Tables : Switch(t)
  <2> PICK t \in Tables : Switch(t)  BY <1>11
  <2>1. /\ table' = t /\ timer' = FALSE /\ fetch' = Requested /\ shown' = 0
        /\ failed' = FALSE /\ stream' = "closed" /\ position' = None /\ wire' = <<>>
        /\ UNCHANGED <<since, heard>>
    BY DEF Switch
  <2>2. wire' \in Seq(1..Len(sent'))  BY <2>1
  <2>3. LiveTypeOK'
    <3>1. {since, heard, shown}' \subseteq Nat  BY <1>1, <2>1
    <3>2. /\ committed' \in [Tables -> Nat]
          /\ sent' \in Seq([table : Tables, upto : Nat])
          /\ unsent' \in Seq([table : Tables, upto : Nat])
          /\ listener' \in {"serving", "draining", "stopped"}
      BY <1>1 DEF LiveInv, LiveTypeOK
    <3> QED  BY <2>1, <2>2, <3>1, <3>2 DEF LiveTypeOK
  <2>4. StreamInv'
    BY <2>1 DEF StreamInv
  <2>5. PageInv'
    BY <1>1, <2>1 DEF PageInv, Server
  <2> QED  BY <1>2, <2>3, <2>4, <2>5 DEF LiveInv
<1> QED  BY <1>4, <1>7, <1>8, <1>9, <1>10, <1>11

\* Every step of server, page and user keeps the invariant.
LEMMA NextLive == LiveAssumption /\ LiveInv /\ [LiveNext]_liveVars => LiveInv'
<1> SUFFICES ASSUME LiveAssumption, LiveInv, [LiveNext]_liveVars  PROVE LiveInv'
  OBVIOUS
<1>1. CASE BeginShutdown \/ Drained
  <2>1. UNCHANGED <<Server, Stream, Page>> /\ listener' \in {"draining", "stopped"}
    BY <1>1 DEF BeginShutdown, Drained
  <2> QED
    BY <2>1 DEF LiveInv, LiveTypeOK, AnnouncedInv, StreamInv, PageInv, ReachesPage,
       Server, Stream, Page
<1>2. CASE UNCHANGED liveVars
  BY <1>2 DEF liveVars, LiveInv, LiveTypeOK, AnnouncedInv, StreamInv, PageInv,
     ReachesPage, Server, Stream, Page
<1>3. ASSUME NEW changed \in SUBSET Tables, WriteBatch(changed)  PROVE LiveInv'
  BY <1>3, CommitKeeps
<1>4. CASE Announce  BY <1>4, AnnounceKeeps
<1>5. CASE Subscribe \/ Forward \/ EndLagging \/ EndAtShutdown \/ Break
           \/ Connect \/ Closed
  BY <1>5, StreamKeeps
<1>6. CASE Receive \/ Refresh \/ ReadTable \/ Show \/ ReadFails
           \/ \E t \in Tables : Switch(t)
  BY <1>6, PageKeeps
<1> QED  BY <1>1, <1>2, <1>3, <1>4, <1>5, <1>6 DEF LiveNext

\* The invariant holds in every reachable state.
LEMMA LiveInvariant == ASSUME LiveAssumption PROVE LiveSpec => []LiveInv
<1>1. LiveInit => LiveInv  BY InitLive
<1>2. LiveInv /\ [LiveNext]_liveVars => LiveInv'  BY NextLive
<1> QED  BY <1>1, <1>2, PTL DEF LiveSpec

\* Types, as everywhere.
THEOREM LiveTypesKept == ASSUME LiveAssumption PROVE LiveSpec => []LiveTypeOK
<1>1. LiveInv => LiveTypeOK  BY DEF LiveInv
<1> QED  BY <1>1, LiveInvariant, PTL

\* A stream brings every change since it began, in order, for every capacity of
\* the channel: a change that falls out of it ends the stream.
THEOREM StreamHasNoGaps == ASSUME LiveAssumption PROVE LiveSpec => []NoGaps
<1>1. LiveInv => NoGaps
  <2> SUFFICES ASSUME LiveInv, stream = "open"  PROVE NoGaps
    BY DEF NoGaps
  <2> DEFINE coming ==
         <<heard>> \o wire \o (IF position = None THEN <<>> ELSE <<position>>)
  <2>1. /\ heard \in Nat /\ wire \in Seq(Nat) /\ Len(wire) \in Nat
        /\ position # None => position \in Nat
    <3>1. heard \in Nat /\ wire \in Seq(1..Len(sent)) /\ Len(sent) \in Nat
          /\ position \in Nat \cup {None}
      BY DEF LiveInv, LiveTypeOK
    <3>2. wire \in [1..Len(wire) -> Nat] /\ Len(wire) \in Nat
      BY <3>1
    <3> QED  BY <3>1, <3>2
  <2>2. /\ \A k \in 1..Len(wire) : wire[k] = heard + k
        /\ position # None => position = heard + Len(wire) + 1
    BY DEF LiveInv, StreamInv
  <2>3. \A k \in 1..Len(coming) : coming[k] = heard + k - 1
    <3>1. CASE position = None
      <4>1. coming = <<heard>> \o wire \o <<>>  BY <3>1
      <4>2. coming = <<heard>> \o wire  BY <2>1, <4>1
      <4> QED  BY <2>1, <2>2, <4>2
    <3>2. CASE position # None
      <4> DEFINE behind == <<heard>> \o wire
      <4>1. coming = behind \o <<position>>  BY <3>2
      <4>2. /\ behind \in Seq(Nat) /\ Len(behind) = Len(wire) + 1
            /\ \A k \in 1..Len(behind) : behind[k] = heard + k - 1
        BY <2>1, <2>2
      <4> HIDE DEF behind, coming
      <4>3. \A k \in 1..Len(coming) :
               coming[k] = IF k <= Len(behind) THEN behind[k] ELSE position
        BY <2>1, <3>2, <4>1, <4>2
      <4>4. Len(coming) = Len(wire) + 2
        BY <2>1, <3>2, <4>1, <4>2
      <4>5. ASSUME NEW k \in 1..Len(coming)  PROVE coming[k] = heard + k - 1
        <5>1. CASE k \in 1..Len(behind)
          BY <2>1, <4>2, <4>3, <4>5, <5>1
        <5>2. CASE k = Len(wire) + 2
          BY <2>1, <2>2, <3>2, <4>2, <4>3, <4>5, <5>2
        <5> QED  BY <2>1, <4>2, <4>4, <5>1, <5>2
      <4> QED  BY <4>5
    <3> QED  BY <3>1, <3>2
  <2>4. Len(coming) \in Nat
    BY <2>1
  <2> HIDE DEF coming
  <2>5. \A k \in 1..Len(coming) - 1 : coming[k + 1] = coming[k] + 1
    BY <2>1, <2>3, <2>4
  <2> QED  BY <2>5 DEF NoGaps, coming
<1> QED  BY <1>1, LiveInvariant, PTL

\* A page at rest shows everything its stream announced for its table, in
\* whatever order announcements, refreshes, reads, failures and switches came.
THEOREM PageShowsWhatItHeard == ASSUME LiveAssumption PROVE LiveSpec => []HeardIsShown
<1>1. LiveAssumption /\ LiveInv => HeardIsShown
  BY DEF LiveAssumption, LiveInv, PageInv, ReachesPage, HeardIsShown
<1> QED  BY <1>1, LiveInvariant, PTL

\* The rows of a page are rows of the table it is at.
THEOREM PageShowsItsTable == ASSUME LiveAssumption PROVE LiveSpec => []ShowsItsTable
<1>1. LiveInv => ShowsItsTable
  BY DEF LiveInv, PageInv, ShowsItsTable
<1> QED  BY <1>1, LiveInvariant, PTL

\* Together: whatever the tables, the capacities and the order of things, a
\* stream has no gaps and a page at rest is current.
THEOREM LivePagesAreCurrent ==
  ASSUME LiveAssumption PROVE LiveSpec => []LivePageIsCurrent
<1>1. LiveTypeOK /\ NoGaps /\ HeardIsShown /\ ShowsItsTable => LivePageIsCurrent
  BY DEF LivePageIsCurrent
<1> QED
  BY <1>1, LiveTypesKept, StreamHasNoGaps, PageShowsWhatItHeard, PageShowsItsTable, PTL

=============================================================================
