------------------------------ MODULE GitHubProofs ------------------------------
(***************************************************************************)
(* Proofs about the GitHub connector: for any issues, tasks, comments and  *)
(* number of mishaps, no rerun posts a comment or makes an issue of a task *)
(* again.  With ConnectorProofs, this is so of whatever is kept.           *)
(***************************************************************************)
EXTENDS ConnectorProofs

-------------------------------------------------------------------------------
\* GitHub.  Its issues, and who wrote what.
IssueKeys    == 1..Len(source.issues)
Thread(key)  == source.issues[key].thread
Chats(b)     == \E t \in 1..Len(odoo) : b \in odoo[t].chatter
MadeOf(t)    == {i \in IssueKeys : source.issues[i].origin = t}
Made(t)      == Cardinality(MadeOf(t))
Adopting(t)  == run.pc = "adopt" /\ run.at.id = t

\* A comment may still be posted; what has been fetched of a thread lacks nothing that was
\* written on a task, unless it may be posted again.
Postable(key, b)      == b \in DOMAIN Thread(key) => Thread(key)[b] <= mishaps
Threaded(key, thread) == \A b \in DOMAIN Thread(key) \ DOMAIN thread : Postable(key, b) \/ ~Chats(b)

\* Issues and tasks know of each other; own tasks have not been made into issues, but for mishaps.
GHShape ==
    /\ {"issues", "project", "settings"} \subseteq DOMAIN source /\ Listed(source.issues)
    /\ \A i \in IssueKeys : /\ {"text", "thread", "origin"} \subseteq DOMAIN source.issues[i]
                            /\ IsABag(Thread(i)) /\ source.issues[i].origin \in 0..Len(odoo)
    /\ \A t \in 1..Len(odoo) : /\ {"key", "text", "chatter"} \subseteq DOMAIN odoo[t]
                               /\ odoo[t].key \in IssueKeys \/ odoo[t].key = -t

ThreadsWithin(n) == \A i \in IssueKeys : \A b \in DOMAIN Thread(i) : Thread(i)[b] <= 1 + n

MadeWithin(n) ==
    \A t \in 1..Len(odoo) : /\ Made(t) <= 1 + n
                            /\ odoo[t].key < 0 /\ ~Adopting(t) => Made(t) <= n

GHWorld == GHShape /\ ThreadsWithin(mishaps) /\ MadeWithin(mishaps)

\* What a run has been through, still has to handle, and has in hand.
Rising(s) == \A n \in 1..Len(s) : \A m \in 1..(n - 1) : s[m].key < s[n].key

Entry(e) ==
    /\ "bodies" \notin DOMAIN e
    /\ e.key \in IssueKeys /\ e.id \in 0..Len(odoo)
    /\ source.settings.comments /\ e.id # 0 => Threaded(e.key, e.thread)

Been(out) == Listed(out) /\ Rising(out) /\ \A n \in 1..Len(out) : Entry(out[n])

IssuesPhase(r) ==
    /\ Been(r.mem.out)
    /\ Listed(r.todo) /\ Rising(r.todo) /\ \A n \in 1..Len(r.todo) : r.todo[n].key \in IssueKeys
    /\ \A m \in 1..Len(r.mem.out), n \in 1..Len(r.todo) : r.mem.out[m].key < r.todo[n].key
    /\ r.pc \in {"review", "find", "apply"} =>
        /\ r.at.key \in IssueKeys
        /\ \A n \in 1..Len(r.todo) : r.at.key < r.todo[n].key
        /\ \A m \in 1..Len(r.mem.out) : r.mem.out[m].key < r.at.key
        /\ r.pc # "review" /\ source.settings.comments => Threaded(r.at.key, r.at.thread)

\* One issue's comments that are to be posted, or that are still to be compared.
Speech(e) ==
    /\ e.key \in IssueKeys
    /\ \/ /\ "bodies" \in DOMAIN e /\ "thread" \notin DOMAIN e
          /\ e.bodies # {} /\ \A b \in e.bodies : Chats(b) /\ Postable(e.key, b)
       \/ /\ "bodies" \notin DOMAIN e
          /\ e.id \in 0..Len(odoo) /\ (e.id # 0 => Threaded(e.key, e.thread))

CommentsPhase(r) == Listed(r.todo) /\ Rising(r.todo) /\ \A n \in 1..Len(r.todo) : Speech(r.todo[n])

\* Each own task once, and one for the issue that has just been made of it.
Own(t) == t \in 1..Len(odoo) /\ odoo[t].key < 0

TasksPhase(r) ==
    /\ Listed(r.todo) /\ \A n \in 1..Len(r.todo) : Own(r.todo[n].key)
    /\ \A m, n \in 1..Len(r.todo) : r.todo[m].key = r.todo[n].key => m = n
    /\ r.pc = "adopt" =>
        /\ Own(r.at.id) /\ \A n \in 1..Len(r.todo) : r.todo[n].key # r.at.id
        /\ r.at.key \in IssueKeys /\ Copies(r.at.key) <= mishaps

GHPlaces == {"project", "preload", "next", "review", "find", "apply", "adopt"}

RunFits(r) ==
    /\ \A c \in r.cache : c.key \in Nat \ {0}
    /\ r.pc \in GHPlaces =>
        /\ {"phase", "project", "snap", "out"} \subseteq DOMAIN r.mem
        /\ r.pc \in {"project", "preload", "review", "find", "apply"} => r.mem.phase = "issues"
        /\ r.pc = "adopt" => r.mem.phase = "tasks"
        /\ r.mem.phase = "issues"   => IssuesPhase(r)
        /\ r.mem.phase = "updates"  => Been(r.mem.out)
        /\ r.mem.phase = "comments" => CommentsPhase(r)
        /\ r.mem.phase = "tasks"    => TasksPhase(r)

GHRun == \A r : r = run => RunFits(r)

GHOnceInv == UpsertFits /\ ReviewsFit /\ GHWorld /\ GHRun

\* What GitHub takes from ConnectorRun is what is meant here.
LEMMA GHShares ==
    /\ GH!Find <=> Find
    /\ \A k, r : GH!Raise(k, r) <=> Raise(k, r)
    /\ \A keys : GH!Preloaded(keys) = Preloaded(keys)
    /\ \A key : GH!Indices(key) = Indices(key)
    /\ \A S : GH!First(S) = First(S)
    /\ \A r : (GH!Well(r) <=> Well(r)) /\ (GH!Ill(r) <=> Ill(r))
  <1>1. \A r : (GH!Well(r) <=> Well(r)) /\ (GH!Ill(r) <=> Ill(r)) /\ GH!Failed(r) = Failed(r) /\ GH!Wrote(r) = Wrote(r)
    BY DEF GH!Well, Well, GH!Ill, Ill, GH!Failed, Failed, GH!Onward, Onward, GH!Counted, Counted,
           GH!Nothing, Nothing, GH!NoRecord, NoRecord, GH!Wrote, Wrote
  <1>2. (\A key : GH!Indices(key) = Indices(key)) /\ (\A S : GH!First(S) = First(S)) /\ GH!NoRecord = NoRecord
    BY DEF GH!Indices, Indices, GH!First, First, GH!NoRecord, NoRecord
  <1>3. \A key : GH!Lookup(key) = Lookup(key) /\ GH!Cached(key) = Cached(key)
    BY <1>2 DEF GH!Lookup, Lookup, GH!Cached, Cached
  <1>4. \A keys : GH!Preloaded(keys) = Preloaded(keys)
    BY <1>2, <1>3 DEF GH!Preloaded, Preloaded
  <1>5. GH!Find <=> Find
    BY <1>1, <1>2, <1>3 DEF GH!Find, Find
  <1>6. \A k, r : GH!Raise(k, r) <=> Raise(k, r)
    BY <1>1 DEF GH!Raise, Raise, GH!Send, Send, GH!BagIn, BagIn, GH!BagToSet, BagToSet, GH!(+), (+)
  <1>. QED BY <1>1, <1>2, <1>4, <1>5, <1>6

\* The rest of a list, and a list with one more.
LEMMA TailOf ==
    ASSUME NEW s, Listed(s), s # <<>>
    PROVE  /\ Len(s) \in Nat /\ Len(s) > 0 /\ 1 \in 1..Len(s) /\ Head(s) = s[1]
           /\ Listed(Tail(s)) /\ Len(Tail(s)) = Len(s) - 1
           /\ \A n \in 1..Len(Tail(s)) : n + 1 \in 1..Len(s) /\ Tail(s)[n] = s[n + 1]
  <1>1. PICK S : s \in Seq(S)
    BY DEF Listed
  <1>2. Tail(s) \in Seq(S)
    BY <1>1
  <1>. QED BY <1>1, <1>2 DEF Listed

\* The rest of a rising list is rising, and above its head.
LEMMA RisingTail ==
    ASSUME NEW s, Listed(s), s # <<>>, Rising(s)
    PROVE  Rising(Tail(s)) /\ \A n \in 1..Len(Tail(s)) : s[1].key < Tail(s)[n].key
  <1>1. /\ Len(s) \in Nat /\ Len(Tail(s)) = Len(s) - 1
        /\ \A n \in 1..Len(Tail(s)) : n + 1 \in 1..Len(s) /\ Tail(s)[n] = s[n + 1]
    BY TailOf
  <1>2. ASSUME NEW n \in 1..Len(Tail(s)) PROVE s[1].key < Tail(s)[n].key
    <2>1. 1 \in 1..((n + 1) - 1) /\ n + 1 \in 1..Len(s)
      BY <1>1
    <2>. QED BY <1>1, <2>1 DEF Rising
  <1>3. ASSUME NEW n \in 1..Len(Tail(s)), NEW m \in 1..(n - 1) PROVE Tail(s)[m].key < Tail(s)[n].key
    <2>1. m + 1 \in 1..((n + 1) - 1) /\ n + 1 \in 1..Len(s) /\ m \in 1..Len(Tail(s))
      BY <1>1
    <2>. QED BY <1>1, <2>1 DEF Rising
  <1>. QED BY <1>2, <1>3 DEF Rising

Put(s, i, e) == [s EXCEPT ![i] = e]

\* A list with one entry replaced.
LEMMA ExceptOf ==
    ASSUME NEW s, Listed(s), NEW i \in 1..Len(s), NEW e
    PROVE  /\ Listed(Put(s, i, e)) /\ Len(Put(s, i, e)) = Len(s)
           /\ \A j \in 1..Len(s) : Put(s, i, e)[j] = IF j = i THEN e ELSE s[j]
  <1>1. PICK S : s \in Seq(S)
    BY DEF Listed
  <1>2. s \in Seq(S \cup {e}) /\ e \in S \cup {e}
    BY <1>1
  <1>. QED BY <1>2 DEF Listed, Put

\* A list with one entry more is rising, if that is above the others.
LEMMA AppendOf ==
    ASSUME NEW s, Listed(s), NEW e
    PROVE  /\ Len(s) \in Nat /\ Listed(Append(s, e)) /\ Len(Append(s, e)) = Len(s) + 1
           /\ \A n \in 1..Len(s) : Append(s, e)[n] = s[n]
           /\ Append(s, e)[Len(s) + 1] = e
           /\ Rising(s) /\ (\A n \in 1..Len(s) : s[n].key < e.key) => Rising(Append(s, e))
  <1>1. PICK S : s \in Seq(S)
    BY DEF Listed
  <1>2. s \in Seq(S \cup {e}) /\ e \in S \cup {e}
    BY <1>1
  <1>3. Append(s, e) \in Seq(S \cup {e})
    BY <1>2
  <1>4. /\ Len(s) \in Nat /\ Listed(Append(s, e)) /\ Len(Append(s, e)) = Len(s) + 1
        /\ \A n \in 1..Len(s) : Append(s, e)[n] = s[n]
        /\ Append(s, e)[Len(s) + 1] = e
    BY <1>2, <1>3 DEF Listed
  <1>5. ASSUME Rising(s), \A n \in 1..Len(s) : s[n].key < e.key PROVE Rising(Append(s, e))
    <2>1. ASSUME NEW n \in 1..(Len(s) + 1), NEW m \in 1..(n - 1) PROVE Append(s, e)[m].key < Append(s, e)[n].key
      <3>1. CASE n = Len(s) + 1
        BY <1>4, <1>5, <3>1
      <3>2. CASE n # Len(s) + 1
        <4>1. n \in 1..Len(s) /\ m \in 1..Len(s)
          BY <1>4, <3>2
        <4>. QED BY <1>4, <1>5, <4>1 DEF Rising
      <3>. QED BY <3>1, <3>2
    <2>. QED BY <1>4, <2>1 DEF Rising
  <1>. QED BY <1>4, <1>5

-------------------------------------------------------------------------------
\* What a step leaves of a thread, and of what is written on tasks, to who has fetched it.
KeyKept(key) ==
    /\ \A b : Chats(b) => Chats(b)'
    /\ \A b : Chats(b) /\ Postable(key, b) => Postable(key, b)'
    /\ \A thread : Threaded(key, thread) => Threaded(key, thread)'

\* If anything new is said, it is x, and in one place only.
LEMMA TalkKept ==
    ASSUME NEW key, NEW x, mishaps \in Nat, Counts,
           \A b \in DOMAIN Thread(key) : Thread(key)[b] \in Nat,
           \A b : Chats(b) => Chats(b)',
           \A b : b # x /\ Chats(b)' => Chats(b),
           \A b : b # x => /\ b \in DOMAIN Thread(key)' <=> b \in DOMAIN Thread(key)
                           /\ b \in DOMAIN Thread(key) => Thread(key)'[b] = Thread(key)[b],
           \/ x \notin DOMAIN Thread(key)'
           \/ ~Chats(x)'
           \/ Thread(key)' = Thread(key) /\ (Chats(x)' => Chats(x))
    PROVE  KeyKept(key)
  <1>. PICK m, n : m = mishaps /\ n = mishaps'
    OBVIOUS
  <1>1. m \in Nat /\ n \in Nat /\ m <= n
    BY DEF Counts
  <1>2. ASSUME NEW b, b # x \/ Thread(key)' = Thread(key), Postable(key, b) PROVE Postable(key, b)'
    <2>1. CASE b \notin DOMAIN Thread(key)'
      BY <2>1 DEF Postable
    <2>2. CASE b \in DOMAIN Thread(key)'
      <3>1. b \in DOMAIN Thread(key) /\ Thread(key)'[b] = Thread(key)[b]
        BY <1>2, <2>2
      <3>2. Thread(key)[b] \in Nat /\ Thread(key)[b] <= m
        BY <1>2, <3>1 DEF Postable
      <3>3. Thread(key)'[b] <= n
        BY <1>1, <3>1, <3>2
      <3>. QED BY <3>3 DEF Postable
    <2>. QED BY <2>1, <2>2
  <1>3. ASSUME NEW b, Chats(b), Postable(key, b) PROVE Postable(key, b)'
    <2>1. CASE x \notin DOMAIN Thread(key)' /\ b = x
      BY <2>1 DEF Postable
    <2>. QED BY <1>2, <1>3, <2>1
  <1>4. ASSUME NEW thread, Threaded(key, thread) PROVE Threaded(key, thread)'
    <2>. SUFFICES ASSUME NEW b, b \in DOMAIN Thread(key)', b \notin DOMAIN thread
                  PROVE  Postable(key, b)' \/ ~Chats(b)'
      BY DEF Threaded
    <2>1. CASE b # x \/ Thread(key)' = Thread(key)
      <3>1. b \in DOMAIN Thread(key)
        BY <2>1
      <3>2. Postable(key, b) \/ ~Chats(b)
        BY <1>4, <3>1 DEF Threaded
      <3>3. ~Chats(b) => ~Chats(b)' \/ b = x
        OBVIOUS
      <3>. QED BY <1>2, <2>1, <3>2, <3>3
    <2>. QED BY <2>1
  <1>. QED BY <1>3, <1>4 DEF KeyKept

\* A step after which what a run knows of issues and tasks still is so, but for these.
Kept(keys, tasks) ==
    /\ IssueKeys \subseteq IssueKeys' /\ 0..Len(odoo) \subseteq 0..Len(odoo)'
    /\ source'.settings = source.settings
    /\ \A key \in IssueKeys \ keys : KeyKept(key)
    /\ \A t : Own(t) /\ t \notin tasks => Own(t)'

\* What a run has noted of the other issues still holds.
LEMMA EntriesKept ==
    ASSUME NEW keys, NEW tasks, Kept(keys, tasks)
    PROVE  /\ \A e : Entry(e) /\ e.key \notin keys => Entry(e)'
           /\ \A e : Speech(e) /\ e.key \notin keys => Speech(e)'
  <1>1. ASSUME NEW e, Entry(e), e.key \notin keys PROVE Entry(e)'
    BY <1>1 DEF Kept, KeyKept, Entry
  <1>2. ASSUME NEW e, Speech(e), e.key \notin keys PROVE Speech(e)'
    BY <1>2 DEF Kept, KeyKept, Speech
  <1>. QED BY <1>1, <1>2

\* Issues that differ in their text only.
SameIssues ==
    /\ DOMAIN source' = DOMAIN source /\ source'.settings = source.settings
    /\ Listed(source'.issues) /\ Len(source'.issues) = Len(source.issues)
    /\ \A i \in IssueKeys : /\ DOMAIN source'.issues[i] = DOMAIN source.issues[i]
                            /\ source'.issues[i].thread = source.issues[i].thread
                            /\ source'.issues[i].origin = source.issues[i].origin

\* How often tasks have been made into issues, when a step makes none.
LEMMA MadeStays ==
    ASSUME NEW a \in Nat, NEW b \in {a, a + 1}, MadeWithin(a),
           \A t \in 1..Len(odoo) : MadeOf(t)' = MadeOf(t) /\ Made(t) \in Nat,
           \A t \in 1..Len(odoo) : odoo'[t].key < 0 => odoo[t].key < 0,
           \A t : t \in 1..Len(odoo)' /\ t \notin 1..Len(odoo) => MadeOf(t)' = {},
           \A t \in 1..Len(odoo) : Adopting(t) => Adopting(t)' \/ b = a + 1 \/ ~(odoo'[t].key < 0)
    PROVE  MadeWithin(b)'
  <1>1. ASSUME NEW t \in 1..Len(odoo)'
        PROVE  Made(t)' <= 1 + b /\ (odoo'[t].key < 0 /\ ~Adopting(t)' => Made(t)' <= b)
    <2>1. CASE t \notin 1..Len(odoo)
      <3>1. Made(t)' = 0
        BY <2>1, FS_EmptySet DEF Made
      <3>. QED BY <3>1
    <2>2. CASE t \in 1..Len(odoo)
      <3>. PICK m : m = Made(t)
        OBVIOUS
      <3>1. Made(t)' = m /\ m \in Nat
        BY <2>2 DEF Made
      <3>2. m <= 1 + a /\ (odoo[t].key < 0 /\ ~Adopting(t) => m <= a)
        BY <2>2 DEF MadeWithin
      <3>3. m <= 1 + b
        BY <3>1, <3>2
      <3>4. odoo'[t].key < 0 /\ ~Adopting(t)' => m <= b
        BY <2>2, <3>1, <3>2
      <3>. QED BY <3>1, <3>3, <3>4
    <2>. QED BY <2>1, <2>2
  <1>. QED BY <1>1 DEF MadeWithin

\* The number of issues made of a task is one.
LEMMA MadeType ==
    ASSUME GHShape
    PROVE  \A t : IsFiniteSet(MadeOf(t)) /\ Made(t) \in Nat /\ MadeOf(t) \subseteq IssueKeys
  <1>1. Len(source.issues) \in Nat
    BY DEF GHShape, Listed
  <1>2. IsFiniteSet(IssueKeys)
    BY <1>1, FS_Interval DEF IssueKeys
  <1>3. ASSUME NEW t PROVE IsFiniteSet(MadeOf(t)) /\ Made(t) \in Nat /\ MadeOf(t) \subseteq IssueKeys
    <2>1. MadeOf(t) \subseteq IssueKeys
      BY DEF MadeOf
    <2>2. IsFiniteSet(MadeOf(t))
      BY <1>2, <2>1, FS_Subset
    <2>. QED BY <2>1, <2>2, FS_CardinalityType DEF Made
  <1>. QED BY <1>3

\* Counts of comments are numbers.
LEMMA CommentsCount ==
    ASSUME GHShape
    PROVE  \A i \in IssueKeys : \A b \in DOMAIN Thread(i) : Thread(i)[b] \in Nat /\ Thread(i)[b] > 0
  BY DEF GHShape, IsABag

\* Nothing is new but texts.
LEMMA QuietWorld ==
    ASSUME GHWorld, Listed(odoo), mishaps \in Nat, Counts, UNCHANGED odoo, SameIssues,
           \A t \in 1..Len(odoo) : Adopting(t) => Adopting(t)' \/ mishaps' = mishaps + 1
    PROVE  GHWorld' /\ Kept({}, {})
  <1>. PICK m, n : m = mishaps /\ n = mishaps'
    OBVIOUS
  <1>1. m \in Nat /\ n \in {m, m + 1} /\ m <= n
    BY DEF Counts
  <1>2. IssueKeys' = IssueKeys /\ \A i \in IssueKeys : Thread(i)' = Thread(i)
    BY DEF SameIssues, IssueKeys, Thread
  <1>3. \A b : Chats(b)' <=> Chats(b)
    BY DEF Chats
  <1>4. GHShape'
    BY <1>2 DEF GHWorld, GHShape, SameIssues, IssueKeys, Thread
  <1>5. ThreadsWithin(n)'
    <2>1. ASSUME NEW i \in IssueKeys, NEW b \in DOMAIN Thread(i) PROVE Thread(i)[b] <= 1 + n
      <3>1. Thread(i)[b] \in Nat /\ Thread(i)[b] <= 1 + m
        BY CommentsCount DEF GHWorld, ThreadsWithin
      <3>. QED BY <1>1, <3>1
    <2>. QED BY <1>2, <2>1 DEF ThreadsWithin
  <1>6. MadeWithin(n)'
    <2>1. \A t : MadeOf(t)' = MadeOf(t) /\ Made(t) \in Nat
      BY <1>2, MadeType DEF MadeOf, SameIssues, GHWorld
    <2>2. MadeWithin(m)
      BY DEF GHWorld
    <2>. QED BY <1>1, <2>1, <2>2, MadeStays
  <1>7. Kept({}, {})
    <2>1. ASSUME NEW key \in IssueKeys PROVE KeyKept(key)
      <3>1. \A b \in DOMAIN Thread(key) : Thread(key)[b] \in Nat
        BY CommentsCount DEF GHWorld
      <3>. QED BY <1>2, <1>3, <3>1, TalkKept
    <2>2. \A t : Own(t) => Own(t)'
      BY DEF Own
    <2>. QED BY <1>2, <2>1, <2>2 DEF Kept, SameIssues
  <1>. QED BY <1>4, <1>5, <1>6, <1>7 DEF GHWorld

\* Tasks are added, rewritten or commented on.
LEMMA TasksWorld ==
    ASSUME GHWorld, Listed(odoo), mishaps \in Nat, Counts, UNCHANGED source,
           Listed(odoo'), Len(odoo) <= Len(odoo'),
           \A t \in 1..Len(odoo') : /\ {"key", "text", "chatter"} \subseteq DOMAIN odoo'[t]
                                    /\ odoo'[t].key \in IssueKeys \/ odoo'[t].key = -t,
           \A t \in 1..Len(odoo) : odoo'[t].key = odoo[t].key,
           NEW x,
           \A b : Chats(b) => Chats(b)',
           \A b : b # x /\ Chats(b)' => Chats(b),
           (\A i \in IssueKeys : x \notin DOMAIN Thread(i)) \/ (Chats(x)' => Chats(x)),
           \A t \in 1..Len(odoo) : Adopting(t) => Adopting(t)' \/ mishaps' = mishaps + 1
    PROVE  GHWorld' /\ Kept({}, {})
  <1>. PICK m, n : m = mishaps /\ n = mishaps'
    OBVIOUS
  <1>1. m \in Nat /\ n \in {m, m + 1} /\ m <= n
    BY DEF Counts
  <1>2. IssueKeys' = IssueKeys /\ \A i \in IssueKeys : Thread(i)' = Thread(i)
    BY DEF IssueKeys, Thread
  <1>3. Len(odoo) \in Nat /\ Len(odoo') \in Nat
    BY DEF Listed
  <1>4. GHShape'
    <2>1. ASSUME NEW i \in IssueKeys PROVE source.issues[i].origin \in 0..Len(odoo')
      <3>1. source.issues[i].origin \in 0..Len(odoo)
        BY DEF GHWorld, GHShape
      <3>. QED BY <1>3, <3>1
    <2>. QED BY <1>2, <2>1 DEF GHWorld, GHShape, IssueKeys, Thread
  <1>5. ThreadsWithin(n)'
    <2>1. ASSUME NEW i \in IssueKeys, NEW b \in DOMAIN Thread(i) PROVE Thread(i)[b] <= 1 + n
      <3>1. Thread(i)[b] \in Nat /\ Thread(i)[b] <= 1 + m
        BY CommentsCount DEF GHWorld, ThreadsWithin
      <3>. QED BY <1>1, <3>1
    <2>. QED BY <1>2, <2>1 DEF ThreadsWithin
  <1>6. MadeWithin(n)'
    <2>1. \A t : MadeOf(t)' = MadeOf(t) /\ Made(t) \in Nat
      BY <1>2, MadeType DEF MadeOf, GHWorld
    <2>2. MadeWithin(m)
      BY DEF GHWorld
    <2>3. ASSUME NEW t, t \in 1..Len(odoo'), t \notin 1..Len(odoo) PROVE MadeOf(t)' = {}
      <3>1. MadeOf(t) = {}
        BY <1>3, <2>3 DEF MadeOf, GHWorld, GHShape
      <3>. QED BY <2>1, <3>1
    <2>. QED BY <1>1, <2>1, <2>2, <2>3, MadeStays
  <1>7. Kept({}, {})
    <2>1. ASSUME NEW key \in IssueKeys PROVE KeyKept(key)
      <3>1. \A b \in DOMAIN Thread(key) : Thread(key)[b] \in Nat
        BY CommentsCount DEF GHWorld
      <3>. QED BY <1>2, <3>1, TalkKept
    <2>2. \A t : Own(t) => Own(t)'
      BY <1>3 DEF Own
    <2>. QED BY <1>2, <1>3, <2>1, <2>2 DEF Kept
  <1>. QED BY <1>4, <1>5, <1>6, <1>7 DEF GHWorld

Commented(i, x, n) == [source EXCEPT !.issues[i].thread = @ (+) [y \in {x} |-> n]]

\* A comment is added to the thread of an issue, n times.
LEMMA ThreadWorld ==
    ASSUME GHWorld, Listed(odoo), mishaps \in Nat, Counts, UNCHANGED odoo,
           NEW i \in IssueKeys, NEW x, NEW n \in 1..2,
           source' = Commented(i, x, n),
           \/ n = 1 /\ x \notin DOMAIN Thread(i)
           \/ Postable(i, x) /\ (n = 2 => mishaps' = mishaps + 1),
           \A t \in 1..Len(odoo) : Adopting(t) => Adopting(t)' \/ mishaps' = mishaps + 1
    PROVE  /\ GHWorld' /\ Kept({i}, {})
           /\ ~Chats(x) => Kept({}, {})
           /\ \A b : Chats(b) /\ Postable(i, b) /\ b # x => Chats(b)' /\ Postable(i, b)'
  <1>. PICK m, k : m = mishaps /\ k = mishaps'
    OBVIOUS
  <1>1. m \in Nat /\ k \in {m, m + 1} /\ m <= k
    BY DEF Counts
  <1>. DEFINE new == [y \in {x} |-> n]
              was == Thread(i)
  <1>2. /\ {"issues", "project", "settings"} \subseteq DOMAIN source /\ Listed(source.issues)
        /\ {"text", "thread", "origin"} \subseteq DOMAIN source.issues[i]
        /\ IsABag(was)
    BY DEF GHWorld, GHShape
  <1>3. /\ DOMAIN source' = DOMAIN source /\ source'.settings = source.settings
        /\ source'.issues = [source.issues EXCEPT ![i] = [source.issues[i] EXCEPT !.thread = was (+) new]]
    BY <1>2 DEF Thread, Commented
  <1>4. /\ \A b \in DOMAIN was : was[b] \in Nat /\ was[b] > 0
        /\ DOMAIN new = {x} /\ new[x] = n /\ n \in Nat /\ n > 0
    BY <1>2 DEF IsABag
  <1>. HIDE DEF new, was
  <1>5. /\ DOMAIN (was (+) new) = DOMAIN was \cup {x}
        /\ \A b \in DOMAIN was : b # x => (was (+) new)[b] = was[b]
        /\ (was (+) new)[x] = (IF x \in DOMAIN was THEN was[x] ELSE 0) + n
        /\ was (+) new = [b \in DOMAIN (was (+) new) |-> (was (+) new)[b]]
    BY <1>4 DEF (+), BagToSet
  <1>6. PICK thread : thread = was (+) new
    OBVIOUS
  <1>7. IsABag(thread)
    <2>1. \A b \in DOMAIN thread : thread[b] \in Nat /\ thread[b] > 0
      BY <1>4, <1>5, <1>6
    <2>2. thread = [b \in DOMAIN thread |-> thread[b]]
      BY <1>5, <1>6
    <2>3. thread \in [DOMAIN thread -> {j \in Nat : j > 0}]
      BY <2>1, <2>2
    <2>. QED BY <2>3 DEF IsABag
  <1>8. /\ Listed(source'.issues) /\ Len(source'.issues) = Len(source.issues)
        /\ \A j \in IssueKeys : j # i => source'.issues[j] = source.issues[j]
        /\ source'.issues[i] = [source.issues[i] EXCEPT !.thread = thread]
    <2>1. ASSUME NEW e, NEW s, NEW t, Listed(s), i \in 1..Len(s), t = Put(s, i, e)
          PROVE  /\ Listed(t) /\ Len(t) = Len(s)
                 /\ \A j \in 1..Len(s) : t[j] = IF j = i THEN e ELSE s[j]
      BY <2>1, ExceptOf
    <2>2. /\ Listed(source.issues) /\ i \in 1..Len(source.issues)
          /\ source'.issues = Put(source.issues, i, [source.issues[i] EXCEPT !.thread = thread])
      BY <1>2, <1>3, <1>6 DEF IssueKeys, Put
    <2>. QED BY <2>1, <2>2 DEF IssueKeys
  <1>9. /\ IssueKeys' = IssueKeys
        /\ \A j \in IssueKeys : j # i => Thread(j)' = Thread(j)
        /\ \A j \in IssueKeys : /\ DOMAIN source'.issues[j] = DOMAIN source.issues[j]
                                /\ source'.issues[j].origin = source.issues[j].origin
        /\ Thread(i)' = thread
    BY <1>2, <1>8 DEF IssueKeys, Thread
  <1>10. \A b : Chats(b)' <=> Chats(b)
    BY DEF Chats
  <1>11. GHShape'
    BY <1>3, <1>7, <1>8, <1>9 DEF GHWorld, GHShape
  <1>12. ThreadsWithin(k)'
    <2>1. ASSUME NEW j \in IssueKeys, NEW b \in DOMAIN Thread(j), j # i \/ b # x PROVE Thread(j)[b] <= 1 + k
      <3>1. Thread(j)[b] \in Nat /\ Thread(j)[b] <= 1 + m
        BY CommentsCount DEF GHWorld, ThreadsWithin
      <3>. QED BY <1>1, <3>1
    <2>2. thread[x] <= 1 + k
      <3>1. CASE x \notin DOMAIN was
        BY <1>1, <1>4, <1>5, <1>6, <3>1 DEF was
      <3>2. CASE x \in DOMAIN was
        <4>1. was[x] \in Nat /\ was[x] <= m /\ (n = 2 => k = m + 1)
          BY <1>4, <3>2 DEF was, Postable
        <4>. QED BY <1>1, <1>5, <1>6, <3>2, <4>1
      <3>. QED BY <3>1, <3>2
    <2>3. ASSUME NEW b \in DOMAIN thread PROVE thread[b] <= 1 + k
      BY <1>5, <1>6, <2>1, <2>2 DEF was
    <2>. QED BY <1>9, <2>1, <2>3 DEF ThreadsWithin
  <1>13. MadeWithin(k)'
    <2>1. \A t : MadeOf(t)' = MadeOf(t) /\ Made(t) \in Nat
      BY <1>9, MadeType DEF MadeOf, GHWorld
    <2>2. MadeWithin(m)
      BY DEF GHWorld
    <2>. QED BY <1>1, <2>1, <2>2, MadeStays
  <1>14. \A key \in IssueKeys : key # i \/ ~Chats(x) => KeyKept(key)
    <2>. SUFFICES ASSUME NEW key \in IssueKeys, key # i \/ ~Chats(x) PROVE KeyKept(key)
      OBVIOUS
    <2>1. \A b \in DOMAIN Thread(key) : Thread(key)[b] \in Nat
      BY CommentsCount DEF GHWorld
    <2>2. \A b : b # x => /\ b \in DOMAIN Thread(key)' <=> b \in DOMAIN Thread(key)
                          /\ b \in DOMAIN Thread(key) => Thread(key)'[b] = Thread(key)[b]
      BY <1>5, <1>6, <1>9 DEF was
    <2>3. ~Chats(x)' \/ (Thread(key)' = Thread(key) /\ (Chats(x)' => Chats(x)))
      BY <1>9, <1>10
    <2>. QED BY <1>10, <2>1, <2>2, <2>3, TalkKept
  <1>15. \A t : Own(t) => Own(t)'
    BY DEF Own
  <1>16. Kept({i}, {}) /\ (~Chats(x) => Kept({}, {}))
    BY <1>3, <1>9, <1>14, <1>15 DEF Kept
  <1>17. ASSUME NEW b, Chats(b), Postable(i, b), b # x PROVE Chats(b)' /\ Postable(i, b)'
    <2>1. b \in DOMAIN thread => b \in DOMAIN was /\ thread[b] = was[b]
      BY <1>5, <1>6, <1>17
    <2>2. b \in DOMAIN thread => thread[b] \in Nat /\ thread[b] <= m
      BY <1>4, <1>17, <2>1 DEF Postable, was
    <2>3. b \in DOMAIN thread => thread[b] <= k
      BY <1>1, <2>2
    <2>. QED BY <1>9, <1>10, <1>17, <2>3 DEF Postable
  <1>. QED BY <1>11, <1>12, <1>13, <1>16, <1>17 DEF GHWorld

More(s, n, e) == s \o [i \in 1..n |-> e]

Longer(s, r, n, e) ==
    /\ Len(s) \in Nat /\ Listed(r) /\ Len(r) = Len(s) + n
    /\ \A i \in 1..Len(s) : r[i] = s[i]
    /\ \A i \in (Len(s) + 1)..(Len(s) + n) : r[i] = e

\* A list with n more of these.
LEMMA MoreOf ==
    ASSUME NEW s, Listed(s), NEW n \in 0..2, NEW e
    PROVE  Longer(s, More(s, n, e), n, e)
  <1>. DEFINE more == [i \in 1..n |-> e]
  <1>1. PICK S : s \in Seq(S)
    BY DEF Listed
  <1>2. more \in Seq({e}) /\ Len(more) = n /\ \A i \in 1..n : more[i] = e
    OBVIOUS
  <1>3. s \in Seq(S \cup {e}) /\ more \in Seq(S \cup {e})
    BY <1>1, <1>2
  <1>4. More(s, n, e) = s \o more
    BY DEF More
  <1>. HIDE DEF more
  <1>5. s \o more \in Seq(S \cup {e}) /\ Len(s \o more) = Len(s) + n /\ Len(s) \in Nat
    BY <1>2, <1>3
  <1>6. \A i \in 1..Len(s) : (s \o more)[i] = s[i]
    BY <1>2, <1>3
  <1>7. \A i \in (Len(s) + 1)..(Len(s) + n) : (s \o more)[i] = more[i - Len(s)] /\ i - Len(s) \in 1..n
    BY <1>2, <1>3, <1>5
  <1>. QED BY <1>2, <1>4, <1>5, <1>6, <1>7 DEF Longer, Listed

\* Issues are made of a task, n of them.
LEMMA MadeWorld ==
    ASSUME GHWorld, Listed(odoo), mishaps \in Nat, Counts, UNCHANGED odoo,
           NEW t, Own(t), run.pc # "adopt", NEW n \in 0..2, NEW issue,
           {"text", "thread", "origin"} \subseteq DOMAIN issue, issue.origin = t, issue.thread = GH!EmptyBag,
           source' = [source EXCEPT !.issues = @ \o [i \in 1..n |-> issue]],
           run'.pc = "adopt" => run'.at.id = t,
           n = 2 => run'.pc = "adopt" /\ mishaps' = mishaps + 1,
           n = 1 => run'.pc = "adopt" \/ mishaps' = mishaps + 1
    PROVE  /\ GHWorld' /\ Kept({}, {})
           /\ Len(source'.issues) = Len(source.issues) + n
  <1>. PICK m, k : m = mishaps /\ k = mishaps'
    OBVIOUS
  <1>1. /\ m \in Nat /\ k \in {m, m + 1} /\ m <= k
        /\ n = 2 => k = m + 1
        /\ n = 1 => run'.pc = "adopt" \/ k = m + 1
    BY DEF Counts
  <1>. DEFINE more == [i \in 1..n |-> issue]
  <1>2. {"issues", "project", "settings"} \subseteq DOMAIN source /\ Listed(source.issues)
    BY DEF GHWorld, GHShape
  <1>3. DOMAIN source' = DOMAIN source /\ source'.settings = source.settings /\ source'.issues = source.issues \o more
    BY <1>2
  <1>4. /\ Len(source.issues) \in Nat /\ Listed(source'.issues) /\ Len(source'.issues) = Len(source.issues) + n
        /\ \A i \in 1..Len(source.issues) : source'.issues[i] = source.issues[i]
        /\ \A i \in (Len(source.issues) + 1)..(Len(source.issues) + n) : source'.issues[i] = issue
    <2>1. ASSUME NEW s, NEW r, Listed(s), r = More(s, n, issue) PROVE Longer(s, r, n, issue)
      BY <2>1, MoreOf
    <2>2. source'.issues = More(source.issues, n, issue)
      BY <1>3 DEF More
    <2>3. Longer(source.issues, source'.issues, n, issue)
      BY <1>2, <2>1, <2>2
    <2>. QED BY <2>3 DEF Longer
  <1>5. /\ IssueKeys \subseteq IssueKeys'
        /\ \A i \in IssueKeys : source'.issues[i] = source.issues[i] /\ Thread(i)' = Thread(i)
        /\ \A i \in IssueKeys' : i \notin IssueKeys =>
              /\ i \in (Len(source.issues) + 1)..(Len(source.issues) + n)
              /\ source'.issues[i] = issue /\ Thread(i)' = GH!EmptyBag
    <2>1. IssueKeys \subseteq IssueKeys' /\ \A i \in IssueKeys : source'.issues[i] = source.issues[i]
      BY <1>4 DEF IssueKeys
    <2>2. ASSUME NEW i \in IssueKeys', i \notin IssueKeys
          PROVE  i \in (Len(source.issues) + 1)..(Len(source.issues) + n) /\ source'.issues[i] = issue
      BY SMTT(30), <1>4, <2>2 DEF IssueKeys
    <2>3. \A i \in IssueKeys : Thread(i)' = Thread(i)
      BY <2>1 DEF Thread
    <2>4. \A i \in IssueKeys' : i \notin IssueKeys => Thread(i)' = GH!EmptyBag
      BY <2>2 DEF Thread
    <2>. QED BY <2>1, <2>2, <2>3, <2>4
  <1>6. IsABag(GH!EmptyBag) /\ DOMAIN GH!EmptyBag = {}
    BY DEF IsABag, GH!EmptyBag, GH!SetToBag
  <1>7. GHShape'
    <2>1. ASSUME NEW i \in IssueKeys'
          PROVE  /\ {"text", "thread", "origin"} \subseteq DOMAIN source'.issues[i]
                 /\ IsABag(Thread(i)') /\ source'.issues[i].origin \in 0..Len(odoo)
      <3>1. CASE i \in IssueKeys
        BY <1>5, <3>1 DEF GHWorld, GHShape
      <3>2. CASE i \notin IssueKeys
        <4>1. t \in 0..Len(odoo)
          BY DEF Own
        <4>. QED BY <1>5, <1>6, <3>2, <4>1
      <3>. QED BY <3>1, <3>2
    <2>2. \A j \in 1..Len(odoo) : /\ {"key", "text", "chatter"} \subseteq DOMAIN odoo[j]
                                  /\ odoo[j].key \in IssueKeys' \/ odoo[j].key = -j
      BY <1>5 DEF GHWorld, GHShape
    <2>. QED BY <1>2, <1>3, <1>4, <2>1, <2>2 DEF GHShape
  <1>8. ThreadsWithin(k)'
    <2>1. ASSUME NEW i \in IssueKeys, NEW b \in DOMAIN Thread(i) PROVE Thread(i)[b] <= 1 + k
      <3>1. Thread(i)[b] \in Nat /\ Thread(i)[b] <= 1 + m
        BY CommentsCount DEF GHWorld, ThreadsWithin
      <3>. QED BY <1>1, <3>1
    <2>. QED BY <1>5, <1>6, <2>1 DEF ThreadsWithin
  <1>9. /\ \A u : u # t => MadeOf(u)' = MadeOf(u)
        /\ MadeOf(t)' = MadeOf(t) \cup (Len(source.issues) + 1)..(Len(source.issues) + n)
        /\ MadeOf(t) \cap (Len(source.issues) + 1)..(Len(source.issues) + n) = {}
    <2>. DEFINE fresh == (Len(source.issues) + 1)..(Len(source.issues) + n)
    <2>1. IssueKeys' = IssueKeys \cup fresh /\ IssueKeys \cap fresh = {}
      BY <1>4 DEF IssueKeys
    <2>2. \A i \in fresh : source'.issues[i] = issue
      BY <1>4
    <2>. HIDE DEF fresh
    <2>3. \A u : u # t => MadeOf(u)' = MadeOf(u)
      BY <1>5, <2>1, <2>2 DEF MadeOf
    <2>4. MadeOf(t)' = MadeOf(t) \cup fresh /\ MadeOf(t) \cap fresh = {}
      BY <1>5, <2>1, <2>2 DEF MadeOf
    <2>. QED BY <2>3, <2>4 DEF fresh
  <1>10. Made(t)' = Made(t) + n
    <2>. DEFINE fresh == (Len(source.issues) + 1)..(Len(source.issues) + n)
    <2>1. IsFiniteSet(fresh) /\ Cardinality(fresh) = n
      <3>. DEFINE a == Len(source.issues) + 1
                  b == Len(source.issues) + n
      <3>1. a \in Int /\ b \in Int /\ (a > b => n = 0) /\ (~(a > b) => b - a + 1 = n)
        BY <1>4
      <3>. HIDE DEF a, b
      <3>2. IsFiniteSet(a..b) /\ Cardinality(a..b) = n
        BY <3>1, FS_Interval
      <3>. QED BY <3>2 DEF a, b
    <2>2. MadeOf(t) \cap fresh = {} /\ MadeOf(t)' = MadeOf(t) \cup fresh
      BY <1>9
    <2>3. IsFiniteSet(MadeOf(t)) /\ Cardinality(MadeOf(t)) \in Nat
      BY MadeType DEF GHWorld, Made
    <2>. HIDE DEF fresh
    <2>4. Cardinality(MadeOf(t) \cap fresh) = 0
      BY <2>2, FS_EmptySet
    <2>5. Cardinality(MadeOf(t) \cup fresh)
            = Cardinality(MadeOf(t)) + Cardinality(fresh) - Cardinality(MadeOf(t) \cap fresh)
      BY <2>1, <2>3, FS_Union
    <2>. QED BY <2>1, <2>2, <2>3, <2>4, <2>5 DEF Made
  <1>11. MadeWithin(k)'
    <2>1. ASSUME NEW u \in 1..Len(odoo)
          PROVE  Made(u)' <= 1 + k /\ (odoo[u].key < 0 /\ ~Adopting(u)' => Made(u)' <= k)
      <3>. PICK j : j = Made(u)
        OBVIOUS
      <3>1. j \in Nat /\ j <= 1 + m /\ (odoo[u].key < 0 => j <= m)
        BY MadeType DEF GHWorld, MadeWithin, Adopting
      <3>2. CASE u # t
        <4>1. Made(u)' = j
          BY <1>9, <3>2 DEF Made
        <4>2. j <= 1 + k /\ (odoo[u].key < 0 => j <= k)
          BY <1>1, <3>1
        <4>. QED BY <4>1, <4>2
      <3>3. CASE u = t
        <4>1. Made(u)' = j + n /\ j <= m
          BY <1>10, <3>1, <3>3 DEF Own
        <4>2. j + n <= 1 + k
          BY <1>1, <3>1, <4>1
        <4>3. ~Adopting(u)' => n = 0 \/ (n = 1 /\ k = m + 1)
          BY <1>1, <3>3 DEF Adopting
        <4>4. ~Adopting(u)' => j + n <= k
          <5>1. CASE n = 0
            BY <1>1, <3>1, <4>1, <5>1
          <5>2. CASE n = 1 /\ k = m + 1
            BY <1>1, <3>1, <4>1, <5>2
          <5>. QED BY <4>3, <5>1, <5>2
        <4>. QED BY <4>1, <4>2, <4>4
      <3>. QED BY <3>2, <3>3
    <2>. QED BY <2>1 DEF MadeWithin
  <1>12. Kept({}, {})
    <2>1. ASSUME NEW key \in IssueKeys PROVE KeyKept(key)
      <3>1. \A b \in DOMAIN Thread(key) : Thread(key)[b] \in Nat
        BY CommentsCount DEF GHWorld
      <3>2. \A b : Chats(b)' <=> Chats(b)
        BY DEF Chats
      <3>. QED BY <1>5, <3>1, <3>2, TalkKept
    <2>2. \A u : Own(u) => Own(u)'
      BY DEF Own
    <2>. QED BY <1>3, <1>5, <2>1, <2>2 DEF Kept
  <1>. QED BY <1>4, <1>7, <1>8, <1>11, <1>12 DEF GHWorld

\* A task becomes that of an issue.
LEMMA RekeyWorld ==
    ASSUME GHWorld, Listed(odoo), mishaps \in Nat, Counts, UNCHANGED source,
           NEW t, Own(t), NEW key \in IssueKeys, odoo' = Put(odoo, t, [odoo[t] EXCEPT !.key = key]),
           \A u \in 1..Len(odoo) : Adopting(u) => u = t
    PROVE  GHWorld' /\ Kept({}, {t})
  <1>. PICK m, n : m = mishaps /\ n = mishaps'
    OBVIOUS
  <1>1. m \in Nat /\ n \in {m, m + 1} /\ m <= n
    BY DEF Counts
  <1>2. IssueKeys' = IssueKeys /\ \A i \in IssueKeys : Thread(i)' = Thread(i)
    BY DEF IssueKeys, Thread
  <1>3. t \in 1..Len(odoo) /\ odoo[t].key < 0 /\ {"key", "text", "chatter"} \subseteq DOMAIN odoo[t]
    BY DEF Own, GHWorld, GHShape
  <1>4. /\ Listed(odoo') /\ Len(odoo') = Len(odoo) /\ Len(odoo) \in Nat
        /\ \A u \in 1..Len(odoo) : u # t => odoo'[u] = odoo[u]
        /\ odoo'[t] = [odoo[t] EXCEPT !.key = key]
    <2>1. ASSUME NEW e, NEW s, NEW r, Listed(s), t \in 1..Len(s), r = Put(s, t, e)
          PROVE  /\ Listed(r) /\ Len(r) = Len(s) /\ Len(s) \in Nat
                 /\ \A j \in 1..Len(s) : r[j] = IF j = t THEN e ELSE s[j]
      BY <2>1, ExceptOf DEF Listed
    <2>. QED BY <1>3, <2>1
  <1>5. odoo'[t].key = key /\ odoo'[t].chatter = odoo[t].chatter /\ DOMAIN odoo'[t] = DOMAIN odoo[t] /\ ~(key < 0)
    BY <1>3, <1>4 DEF IssueKeys
  <1>6. \A b : Chats(b)' <=> Chats(b)
    BY <1>4, <1>5 DEF Chats
  <1>7. GHShape'
    <2>1. \A i \in IssueKeys : source.issues[i].origin \in 0..Len(odoo)'
      BY <1>4 DEF GHWorld, GHShape
    <2>2. \A u \in 1..Len(odoo) : /\ {"key", "text", "chatter"} \subseteq DOMAIN odoo'[u]
                                  /\ odoo'[u].key \in IssueKeys \/ odoo'[u].key = -u
      BY <1>3, <1>4, <1>5 DEF GHWorld, GHShape
    <2>. QED BY <1>2, <1>4, <2>1, <2>2 DEF GHWorld, GHShape, IssueKeys, Thread
  <1>8. ThreadsWithin(n)'
    <2>1. ASSUME NEW i \in IssueKeys, NEW b \in DOMAIN Thread(i) PROVE Thread(i)[b] <= 1 + n
      <3>1. Thread(i)[b] \in Nat /\ Thread(i)[b] <= 1 + m
        BY CommentsCount DEF GHWorld, ThreadsWithin
      <3>. QED BY <1>1, <3>1
    <2>. QED BY <1>2, <2>1 DEF ThreadsWithin
  <1>9. MadeWithin(n)'
    <2>1. \A u : MadeOf(u)' = MadeOf(u) /\ Made(u) \in Nat
      BY <1>2, MadeType DEF MadeOf, GHWorld
    <2>2. MadeWithin(m)
      BY DEF GHWorld
    <2>3. ~(odoo'[t].key < 0) /\ \A u \in 1..Len(odoo) : odoo'[u].key < 0 => odoo[u].key < 0
      BY <1>4, <1>5
    <2>4. \A u \in 1..Len(odoo) : Adopting(u) => ~(odoo'[u].key < 0)
      BY <2>3
    <2>5. \A u : u \in 1..Len(odoo)' /\ u \notin 1..Len(odoo) => MadeOf(u)' = {}
      BY <1>4
    <2>. QED BY <1>1, <2>1, <2>2, <2>3, <2>4, <2>5, MadeStays
  <1>10. Kept({}, {t})
    <2>1. ASSUME NEW k \in IssueKeys PROVE KeyKept(k)
      <3>1. \A b \in DOMAIN Thread(k) : Thread(k)[b] \in Nat
        BY CommentsCount DEF GHWorld
      <3>. QED BY <1>2, <1>6, <3>1, TalkKept
    <2>2. \A u : Own(u) /\ u # t => Own(u)'
      BY <1>4 DEF Own
    <2>. QED BY <1>2, <1>4, <2>1, <2>2 DEF Kept
  <1>. QED BY <1>7, <1>8, <1>9, <1>10 DEF GHWorld

\* A task may be given the key of an issue that has too few.
LEMMA RekeyFits ==
    ASSUME UpsertFits, Counts, NEW t \in 1..Len(odoo), NEW key, "key" \in DOMAIN odoo[t],
           odoo' = Put(odoo, t, [odoo[t] EXCEPT !.key = key]), Copies(key) <= mishaps,
           \A c \in run.cache : c.key # odoo[t].key,
           Fields \subseteq DOMAIN run', run'.pc # "apply", run'.cache = run.cache
    PROVE  UpsertFits'
  <1>. PICK m, n : m = mishaps /\ n = mishaps'
    OBVIOUS
  <1>1. m \in Nat /\ n \in Nat /\ m <= n /\ Listed(odoo)
    BY DEF Counts, UpsertFits
  <1>2. /\ Listed(odoo') /\ Len(odoo') = Len(odoo) /\ Len(odoo) \in Nat
        /\ \A u \in 1..Len(odoo) : u # t => odoo'[u] = odoo[u]
        /\ odoo'[t].key = key
    <2>1. ASSUME NEW e, NEW s, NEW r, Listed(s), t \in 1..Len(s), r = Put(s, t, e)
          PROVE  /\ Listed(r) /\ Len(r) = Len(s) /\ Len(s) \in Nat
                 /\ \A j \in 1..Len(s) : r[j] = IF j = t THEN e ELSE s[j]
      BY <2>1, ExceptOf DEF Listed
    <2>2. [odoo[t] EXCEPT !.key = key].key = key
      OBVIOUS
    <2>. QED BY <1>1, <2>1, <2>2
  <1>3. \A k : IsFiniteSet(Indices(k)) /\ Copies(k) \in Nat
    BY <1>1, CopiesType
  <1>4. ASSUME NEW k, k # key PROVE Copies(k)' \in Nat /\ Copies(k)' <= Copies(k)
    <2>1. Indices(k)' \subseteq Indices(k)
      BY <1>2, <1>4 DEF Indices
    <2>. QED BY <1>3, <2>1, FS_Subset, FS_CardinalityType DEF Copies
  <1>5. Copies(key)' \in Nat /\ Copies(key)' <= Copies(key) + 1
    <2>1. Indices(key)' \subseteq Indices(key) \cup {t}
      BY <1>2 DEF Indices
    <2>2. /\ IsFiniteSet(Indices(key) \cup {t}) /\ Cardinality(Indices(key) \cup {t}) \in Nat
          /\ Cardinality(Indices(key) \cup {t}) <= Cardinality(Indices(key)) + 1
      <3>. PICK S : S = Indices(key)
        OBVIOUS
      <3>1. IsFiniteSet(S) /\ Cardinality(S) \in Nat
        BY <1>3 DEF Copies
      <3>2. /\ IsFiniteSet(S \cup {t})
            /\ Cardinality(S \cup {t}) = IF t \in S THEN Cardinality(S) ELSE Cardinality(S) + 1
        BY <3>1, FS_AddElement
      <3>. QED BY <3>1, <3>2
    <2>3. IsFiniteSet(Indices(key)') /\ Cardinality(Indices(key)') <= Cardinality(Indices(key) \cup {t})
      BY <2>1, <2>2, FS_Subset
    <2>. QED BY <1>3, <2>2, <2>3, FS_CardinalityType DEF Copies
  <1>6. KeysFit'
    <2>1. ASSUME NEW i \in 1..Len(odoo), NEW k, k = odoo'[i].key PROVE Copies(k)' <= 1 + n
      <3>1. CASE k = key
        BY <1>1, <1>3, <1>5, <3>1
      <3>2. CASE k # key
        <4>1. odoo[i].key = k
          BY <1>2, <2>1, <3>2
        <4>2. Copies(k) <= 1 + m
          BY <4>1 DEF UpsertFits, KeysFit
        <4>. QED BY <1>1, <1>3, <1>4, <3>2, <4>2
      <3>. QED BY <3>1, <3>2
    <2>. QED BY <1>2, <2>1 DEF KeysFit
  <1>7. CacheFits'
    BY SMTT(30), <1>2 DEF UpsertFits, CacheFits
  <1>8. HandFits'
    BY DEF HandFits
  <1>. QED BY <1>1, <1>2, <1>6, <1>7, <1>8 DEF UpsertFits
-------------------------------------------------------------------------------
\* What a run has been through, and still has to handle, stays as it was, whatever else
\* has happened.
LEMMA BeenKept ==
    ASSUME Kept({}, {})
    PROVE  /\ \A out : Been(out) => Been(out)'
           /\ \A r : IssuesPhase(r) => IssuesPhase(r)'
           /\ \A r : CommentsPhase(r) => CommentsPhase(r)'
  <1>1. \A out : Been(out) => Been(out)'
    BY EntriesKept DEF Been
  <1>2. ASSUME NEW r, IssuesPhase(r) PROVE IssuesPhase(r)'
    <2>1. IssueKeys \subseteq IssueKeys' /\ source'.settings = source.settings
      BY DEF Kept
    <2>2. \A key \in IssueKeys : KeyKept(key)
      BY DEF Kept
    <2>. PICK key, thread : key = r.at.key /\ thread = r.at.thread
      OBVIOUS
    <2>3. key \in IssueKeys /\ Threaded(key, thread) => Threaded(key, thread)'
      BY <2>2 DEF KeyKept
    <2>4. Been(r.mem.out)'
      BY <1>1, <1>2 DEF IssuesPhase
    <2>. QED BY <1>2, <2>1, <2>3, <2>4 DEF IssuesPhase
  <1>3. ASSUME NEW r, CommentsPhase(r) PROVE CommentsPhase(r)'
    BY <1>3, EntriesKept DEF CommentsPhase
  <1>. QED BY <1>1, <1>2, <1>3

\* The own tasks that a run has listed are still own tasks.
LEMMA TasksKept ==
    ASSUME Kept({}, {}), NEW r, TasksPhase(r), r.pc = "adopt" => Copies(r.at.key)' <= mishaps'
    PROVE  TasksPhase(r)'
  <1>1. \A t : Own(t) => Own(t)'
    BY DEF Kept
  <1>2. IssueKeys \subseteq IssueKeys'
    BY DEF Kept
  <1>. QED BY <1>1, <1>2 DEF TasksPhase

\* What a run becomes.
Becomes(r) ==
    /\ Counts /\ DOMAIN run' = DOMAIN r
    /\ run'.pc = r.pc /\ run'.todo = r.todo /\ run'.at = r.at /\ run'.cache = r.cache
    /\ run'.found = r.found /\ run'.mem = r.mem

\* What a run becomes fits afterwards.
LEMMA GHArrives ==
    ASSUME UpsertFits', ReviewsFit', GHWorld', NEW q, RunFits(q)', Becomes(q)
    PROVE  GHOnceInv'
  <1>. SUFFICES ASSUME NEW r, r = run' PROVE RunFits(r)'
    BY DEF GHOnceInv, GHRun
  <1>1. r.pc = q.pc /\ r.at = q.at /\ r.todo = q.todo /\ r.mem = q.mem /\ r.cache = q.cache
    BY DEF Becomes
  <1>2. IssuesPhase(q)' => IssuesPhase(r)'
    BY <1>1 DEF IssuesPhase
  <1>3. CommentsPhase(q)' => CommentsPhase(r)'
    BY <1>1 DEF CommentsPhase
  <1>4. TasksPhase(q)' => TasksPhase(r)'
    BY <1>1 DEF TasksPhase
  <1>5. Been(q.mem.out)' => Been(r.mem.out)'
    BY <1>1 DEF Been
  <1>. QED BY <1>1, <1>2, <1>3, <1>4, <1>5 DEF RunFits

\* And it does, if it does so before, and nothing that the run knows of is disturbed.
LEMMA GHMoves ==
    ASSUME UpsertFits', ReviewsFit', GHWorld', Kept({}, {}), NEW q, RunFits(q), Becomes(q),
           q.pc = "adopt" => Copies(q.at.key)' <= mishaps'
    PROVE  GHOnceInv'
  <1>1. (Been(q.mem.out) => Been(q.mem.out)') /\ (IssuesPhase(q) => IssuesPhase(q)') /\ (CommentsPhase(q) => CommentsPhase(q)')
    BY BeenKept
  <1>2. TasksPhase(q) => TasksPhase(q)'
    BY TasksKept
  <1>3. RunFits(q)'
    BY <1>1, <1>2 DEF RunFits
  <1>. QED BY <1>3, GHArrives

\* A step that leaves the run where it is.
LEMMA GHLasts ==
    ASSUME GHOnceInv, UpsertFits', ReviewsFit', GHWorld', Kept({}, {}), NEW q, q = run, Becomes(q),
           q.pc = "adopt" => Copies(q.at.key)' <= mishaps'
    PROVE  GHOnceInv'
  BY GHMoves DEF GHOnceInv, GHRun

\* A step that leaves issues and tasks alone.
LEMMA GHQuiet ==
    ASSUME GHOnceInv, UNCHANGED odoo, SameIssues, ReviewsFit', NEW r, RunFits(r), Becomes(r),
           DOMAIN r = DOMAIN run, r.pc \notin {"apply", "adopt"},
           \A c \in r.cache : c \in run.cache \/ (c.id \in 1..Len(odoo) /\ odoo[c.id].key = c.key),
           run.pc = "adopt" => mishaps' = mishaps + 1
    PROVE  GHOnceInv'
  <1>1. UpsertFits /\ GHWorld /\ Listed(odoo) /\ mishaps \in Nat /\ Fields \subseteq DOMAIN run /\ Counts
    BY DEF GHOnceInv, UpsertFits, Becomes
  <1>2. UpsertFits'
    BY <1>1, UpsertQuiet DEF SameHand, Becomes
  <1>3. GHWorld' /\ Kept({}, {})
    BY <1>1, QuietWorld DEF Adopting
  <1>. QED BY <1>2, <1>3, GHMoves

\* A run that is elsewhere has nothing in hand.
LEMMA GHRests ==
    ASSUME GHOnceInv, UpsertFits', ReviewsFit', GHWorld', run'.pc \notin GHPlaces,
           run'.cache \subseteq run.cache
    PROVE  GHOnceInv'
  BY DEF GHOnceInv, GHRun, RunFits

\* A step that changes the run only, to one that fits.
LEMMA GHStays ==
    ASSUME GHOnceInv, UNCHANGED <<source, odoo, reviews>>, run.pc # "adopt",
           NEW r, Well(r) \/ Ill(r), RunFits(r), DOMAIN r = DOMAIN run, r.pc \notin {"apply", "adopt"},
           \A c \in r.cache : c \in run.cache \/ (c.id \in 1..Len(odoo) /\ odoo[c.id].key = c.key)
    PROVE  GHOnceInv'
  <1>1. Fields \subseteq DOMAIN run /\ mishaps \in Nat /\ ReviewsFit /\ Listed(source.issues)
    BY DEF GHOnceInv, UpsertFits, GHWorld, GHShape
  <1>2. Becomes(r)
    BY <1>1, TurnsInto DEF Becomes
  <1>3. ReviewsFit'
    BY <1>1, <1>2, ReviewsKept DEF Becomes
  <1>4. SameIssues
    BY <1>1 DEF SameIssues
  <1>. QED BY <1>2, <1>3, <1>4, GHQuiet

\* What is known of a run.
LEMMA GHKnown ==
    ASSUME GHOnceInv
    PROVE  /\ UpsertFits /\ ReviewsFit /\ GHWorld /\ GHShape /\ RunFits(run) /\ mishaps \in Nat
           /\ Fields \subseteq DOMAIN run /\ Listed(odoo) /\ Listed(source.issues)
           /\ Len(odoo) \in Nat /\ Len(source.issues) \in Nat
           /\ run.pc \in GHPlaces => {"phase", "project", "snap", "out"} \subseteq DOMAIN run.mem
  BY DEF GHOnceInv, UpsertFits, GHWorld, GHShape, GHRun, RunFits, Listed

\* The issues are fetched.
LEMMA GHFetchIssues ==
    ASSUME GHOnceInv, GH!FetchIssues
    PROVE  GHOnceInv'
  <1>. DEFINE rows == [i \in 1..Len(source.issues) |-> [key |-> i, text |-> source.issues[i].text]]
              fetched == [GH!Counted(run, "skipped") EXCEPT
                            !.pc = "project", !.mem = GH!NoMemory, !.handed = 1, !.todo = rows]
              over == GH!Aborted(run)
  <1>0. /\ UNCHANGED <<odoo, source, reviews>> /\ run.pc = "fetch"
        /\ (Well(fetched) \/ Ill(over))
    BY GHShares DEF GH!FetchIssues
  <1>1. /\ Listed(rows) /\ Len(rows) = Len(source.issues)
        /\ \A n \in 1..Len(rows) : rows[n].key = n
    <2>1. Len(source.issues) \in Nat
      BY GHKnown
    <2>2. rows \in Seq({rows[i] : i \in 1..Len(source.issues)})
      BY <2>1
    <2>3. Len(rows) = Len(source.issues)
      BY <2>1
    <2>4. \A n \in 1..Len(rows) : rows[n].key = n
      BY <2>1, <2>3
    <2>. HIDE DEF rows
    <2>. QED BY <2>2, <2>3, <2>4 DEF Listed
  <1>. HIDE DEF rows
  <1>2. CASE Well(fetched)
    <2>1. /\ DOMAIN fetched = DOMAIN run /\ fetched.pc = "project" /\ fetched.cache = run.cache
          /\ fetched.mem = GH!NoMemory /\ fetched.todo = rows
      BY GHKnown DEF GH!Counted, Fields
    <2>. HIDE DEF fetched
    <2>2. Been(<<>>)
      BY DEF Been, Listed, Rising
    <2>3. \A n \in 1..Len(rows) : rows[n].key \in IssueKeys
      BY <1>1 DEF IssueKeys
    <2>4. Rising(rows)
      BY <1>1, GHKnown DEF Rising
    <2>5. IssuesPhase(fetched)
      BY <1>1, <2>1, <2>2, <2>3, <2>4 DEF IssuesPhase, GH!NoMemory
    <2>6. RunFits(fetched)
      BY <2>1, <2>5, GHKnown DEF RunFits, GH!NoMemory
    <2>. QED BY <1>0, <1>2, <2>1, <2>6, GHStays
  <1>3. CASE Ill(over)
    <2>1. DOMAIN over = DOMAIN run /\ over.pc = "log" /\ over.cache = run.cache
      BY GHKnown DEF GH!Aborted, Fields
    <2>. HIDE DEF over
    <2>2. RunFits(over)
      BY <2>1, GHKnown DEF RunFits, GHPlaces
    <2>. QED BY <1>0, <1>3, <2>1, <2>2, GHStays
  <1>. QED BY <1>0, <1>2, <1>3

\* The run goes on to its next issue, or to the first.
LEMMA GHNextIssue ==
    ASSUME GHOnceInv, run.pc \in GHPlaces, run.mem.phase = "issues",
           NEW r, r.todo = run.todo, r.mem.out = run.mem.out, r.mem.phase = "issues", DOMAIN r.mem = DOMAIN run.mem,
           r.pc \in {"preload", "next"}, \A c \in r.cache : c \in run.cache \/ c.key \in Nat \ {0}
    PROVE  RunFits(r)
  <1>1. IssuesPhase(run)
    BY GHKnown DEF RunFits
  <1>2. IssuesPhase(r)
    BY <1>1 DEF IssuesPhase
  <1>. QED BY <1>2, GHKnown DEF RunFits

\* The project is found or made, or the run ends.
LEMMA GHEnsureProject ==
    ASSUME GHOnceInv, GH!EnsureProject
    PROVE  GHOnceInv'
  <1>. DEFINE Found(project) == [run EXCEPT !.pc = "preload", !.mem.project = project]
              over == GH!Aborted(run)
              written == GH!Wrote(Found(TRUE))
              lost == GH!Aborted(GH!Wrote(run))
  <1>0. /\ UNCHANGED <<odoo, reviews>> /\ run.pc = "project" /\ SameIssues
        /\ \E r \in {Found(source.project), over, written, lost} : Well(r) \/ Ill(r)
    <2>1. /\ UNCHANGED <<odoo, reviews>> /\ run.pc = "project"
          /\ \/ UNCHANGED source /\ (Well(Found(source.project)) \/ Ill(over))
             \/ \E n \in 0..2 : /\ source' = [source EXCEPT !.project = @ \/ n > 0]
                                /\ \E r \in {written, lost} : Well(r) \/ Ill(r)
      <3>. HIDE DEF Found, over, written, lost
      <3>1. /\ UNCHANGED <<odoo, reviews>> /\ run.pc = "project"
            /\ \/ UNCHANGED source /\ (GH!Well(Found(source.project)) \/ GH!Ill(over))
               \/ \E n \in 0..2 : /\ source' = [source EXCEPT !.project = @ \/ n > 0]
                                  /\ \E r \in {written, lost} : GH!Well(r) \/ GH!Ill(r)
        BY DEF GH!EnsureProject, GH!Send, Found, over, written, lost
      <3>. QED BY <3>1, GHShares
    <2>. HIDE DEF Found, over, written, lost
    <2>2. \A n \in 0..2 : source' = [source EXCEPT !.project = @ \/ n > 0] => SameIssues
      BY GHKnown DEF SameIssues, GHShape
    <2>3. UNCHANGED source => SameIssues
      BY GHKnown DEF SameIssues
    <2>. QED BY <2>1, <2>2, <2>3
  <1>1. /\ Fields \subseteq DOMAIN run /\ {"phase", "project", "snap", "out"} \subseteq DOMAIN run.mem
        /\ run.mem.phase = "issues"
    BY <1>0, GHKnown DEF RunFits, GHPlaces
  <1>2. \A p : LET r == Found(p) IN
               /\ DOMAIN r = DOMAIN run /\ r.pc = "preload" /\ r.cache = run.cache /\ r.todo = run.todo
               /\ DOMAIN r.mem = DOMAIN run.mem /\ r.mem.phase = "issues" /\ r.mem.out = run.mem.out
    BY <1>1 DEF Fields
  <1>3. LET r == written IN
        /\ DOMAIN r = DOMAIN run /\ r.pc = "preload" /\ r.cache = run.cache /\ r.todo = run.todo
        /\ DOMAIN r.mem = DOMAIN run.mem /\ r.mem.phase = "issues" /\ r.mem.out = run.mem.out
    <2>. HIDE DEF Found
    <2>. QED BY <1>1, <1>2 DEF GH!Wrote, Fields
  <1>4. \A r \in {over, lost} : DOMAIN r = DOMAIN run /\ r.pc = "log" /\ r.cache = run.cache
    BY <1>1 DEF GH!Aborted, GH!Wrote, Fields
  <1>. HIDE DEF Found, over, written, lost
  <1>5. PICK r : /\ Well(r) \/ Ill(r)
                 /\ r \in {Found(source.project), over, written, lost}
    BY <1>0
  <1>6. DOMAIN r = DOMAIN run /\ r.pc \in {"preload", "log"} /\ r.cache = run.cache
    BY <1>2, <1>3, <1>4, <1>5
  <1>7. RunFits(r)
    <2>1. CASE r \in {over, lost}
      BY <1>4, <2>1, GHKnown DEF RunFits, GHPlaces
    <2>2. CASE r \in {Found(source.project), written}
      <3>1. /\ r.pc = "preload" /\ r.cache = run.cache /\ r.todo = run.todo
            /\ DOMAIN r.mem = DOMAIN run.mem /\ r.mem.phase = "issues" /\ r.mem.out = run.mem.out
        BY <1>2, <1>3, <2>2
      <3>. QED BY <1>0, <1>1, <3>1, GHNextIssue DEF GHPlaces
    <2>. QED BY <1>5, <2>1, <2>2
  <1>8. Becomes(r)
    BY <1>1, <1>5, <1>6, TurnsInto DEF Becomes
  <1>9. ReviewsFit'
    BY <1>0, <1>8, GHKnown, ReviewsKept DEF Becomes
  <1>. QED BY <1>0, <1>6, <1>7, <1>8, <1>9, GHQuiet

\* What is known of tasks is preloaded, or not.
LEMMA GHPreload ==
    ASSUME GHOnceInv, GH!Preload
    PROVE  GHOnceInv'
  <1>. DEFINE cache == GH!Preloaded(1..Len(run.todo))
              snap == [key \in {c.key : c \in cache} |-> odoo[GH!Lookup(key).id].text]
              known == [run EXCEPT !.pc = "next", !.cache = cache, !.mem.snap = snap]
              none == [run EXCEPT !.pc = "next"]
  <1>0. /\ UNCHANGED <<odoo, source, reviews>> /\ run.pc = "preload"
        /\ Well(known) \/ Ill(none)
    BY GHShares DEF GH!Preload
  <1>1. /\ Fields \subseteq DOMAIN run /\ {"phase", "project", "snap", "out"} \subseteq DOMAIN run.mem
        /\ run.mem.phase = "issues" /\ IssuesPhase(run)
    BY <1>0, GHKnown DEF RunFits, GHPlaces
  <1>2. \A c \in cache : c.id \in 1..Len(odoo) /\ odoo[c.id].key = c.key /\ c.key \in Nat \ {0}
    <2>1. Len(run.todo) \in Nat
      BY <1>1 DEF IssuesPhase, Listed
    <2>2. \A c \in cache : c.id \in 1..Len(odoo) /\ odoo[c.id].key = c.key /\ c.key \in 1..Len(run.todo)
      BY GHKnown, GHShares, PreloadedFits
    <2>. HIDE DEF cache
    <2>. QED BY <2>1, <2>2
  <1>. HIDE DEF cache, snap
  <1>3. \A r \in {known, none} :
            /\ DOMAIN r = DOMAIN run /\ r.pc = "next" /\ r.cache \in {cache, run.cache} /\ r.todo = run.todo
            /\ DOMAIN r.mem = DOMAIN run.mem /\ r.mem.phase = "issues" /\ r.mem.out = run.mem.out
    <2>1. LET r == known IN
            /\ DOMAIN r = DOMAIN run /\ r.pc = "next" /\ r.cache = cache /\ r.todo = run.todo
            /\ DOMAIN r.mem = DOMAIN run.mem /\ r.mem.phase = "issues" /\ r.mem.out = run.mem.out
      BY <1>1 DEF Fields
    <2>2. LET r == none IN
            /\ DOMAIN r = DOMAIN run /\ r.pc = "next" /\ r.cache = run.cache /\ r.todo = run.todo
            /\ DOMAIN r.mem = DOMAIN run.mem /\ r.mem.phase = "issues" /\ r.mem.out = run.mem.out
      BY <1>1 DEF Fields
    <2>. QED BY <2>1, <2>2
  <1>. HIDE DEF known, none
  <1>4. PICK r \in {known, none} : Well(r) \/ Ill(r)
    BY <1>0
  <1>5. RunFits(r)
    BY <1>0, <1>1, <1>2, <1>3, GHNextIssue DEF GHPlaces
  <1>. QED BY <1>0, <1>2, <1>3, <1>4, <1>5, GHStays

\* An issue is taken up: those that are left come after it, and those before it are through.
LEMMA IssueTaken ==
    ASSUME NEW q, IssuesPhase(q), q.todo # <<>>, NEW r, r.mem.out = q.mem.out, r.todo = Tail(q.todo),
           r.pc \in {"next", "review", "find"}, r.pc # "next" => r.at.key = Head(q.todo).key,
           r.pc = "find" /\ source.settings.comments => Threaded(r.at.key, r.at.thread)
    PROVE  IssuesPhase(r) /\ Head(q.todo).key \in IssueKeys
  <1>. DEFINE s == q.todo
  <1>1. /\ Listed(s) /\ Rising(s) /\ Been(q.mem.out)
        /\ \A n \in 1..Len(s) : s[n].key \in IssueKeys
        /\ \A m \in 1..Len(q.mem.out), n \in 1..Len(s) : q.mem.out[m].key < s[n].key
    BY DEF IssuesPhase
  <1>. HIDE DEF s
  <1>2. /\ 1 \in 1..Len(s) /\ Head(s) = s[1] /\ Listed(Tail(s))
        /\ \A n \in 1..Len(Tail(s)) : n + 1 \in 1..Len(s) /\ Tail(s)[n] = s[n + 1]
    BY <1>1, TailOf DEF s
  <1>3. Rising(Tail(s)) /\ \A n \in 1..Len(Tail(s)) : s[1].key < Tail(s)[n].key
    BY <1>1, RisingTail DEF s
  <1>4. \A n \in 1..Len(Tail(s)) : Tail(s)[n].key \in IssueKeys
    BY <1>1, <1>2
  <1>5. \A m \in 1..Len(q.mem.out), n \in 1..Len(Tail(s)) : q.mem.out[m].key < Tail(s)[n].key
    BY <1>1, <1>2
  <1>6. Head(s).key \in IssueKeys /\ \A m \in 1..Len(q.mem.out) : q.mem.out[m].key < Head(s).key
    BY <1>1, <1>2
  <1>. QED BY <1>1, <1>2, <1>3, <1>4, <1>5, <1>6 DEF IssuesPhase, s

\* The next issue is taken up, and its thread is fetched; after a mishap, no thread lacks anything.
LEMMA GHTakeIssue ==
    ASSUME GHOnceInv, GH!TakeIssue
    PROVE  GHOnceInv'
  <1>. DEFINE issue == Head(run.todo)
              thread == IF source.settings.comments THEN source.issues[issue.key].thread ELSE GH!EmptyBag
              at(bodies) == [key |-> issue.key, text |-> issue.text, thread |-> bodies]
              Read(bodies) == [GH!TakenUp(run, at(bodies)) EXCEPT !.pc = "find"]
              review == [GH!TakenUp(run, issue) EXCEPT !.pc = "review"]
              failed == GH!Failed(GH!TakenUp(run, issue))
  <1>0. /\ UNCHANGED <<odoo, source, reviews>> /\ run.pc = "next" /\ run.todo # <<>> /\ run.mem.phase = "issues"
        /\ Well(review) \/ Well(Read(thread)) \/ Ill(Read(GH!EmptyBag)) \/ Ill(failed)
    <2>. HIDE DEF Read, review, failed
    <2>. QED BY GHShares DEF GH!TakeIssue, GH!Phase, Read, review, failed
  <1>1. /\ Fields \subseteq DOMAIN run /\ {"phase", "project", "snap", "out"} \subseteq DOMAIN run.mem
        /\ IssuesPhase(run)
    BY <1>0, GHKnown DEF RunFits, GHPlaces
  <1>2. \A bodies : LET r == Read(bodies) IN
            /\ DOMAIN r = DOMAIN run /\ r.pc = "find" /\ r.cache = run.cache /\ r.todo = Tail(run.todo)
            /\ r.mem = run.mem /\ r.at.key = issue.key /\ r.at.thread = bodies
    <2>1. \A bodies : at(bodies).key = issue.key /\ at(bodies).thread = bodies
      OBVIOUS
    <2>. HIDE DEF at, issue
    <2>. QED BY <1>1, <2>1 DEF GH!TakenUp, Fields
  <1>3. /\ DOMAIN review = DOMAIN run /\ review.pc = "review" /\ review.cache = run.cache
        /\ review.todo = Tail(run.todo) /\ review.mem = run.mem /\ review.at = issue
    BY <1>1 DEF GH!TakenUp, Fields
  <1>4. /\ DOMAIN failed = DOMAIN run /\ failed.pc = "next" /\ failed.cache = run.cache
        /\ failed.todo = Tail(run.todo) /\ failed.mem = run.mem
    BY <1>1 DEF GH!TakenUp, GH!Failed, GH!Onward, GH!Counted, Fields
  <1>5. Head(run.todo).key \in IssueKeys /\ IssuesPhase(review) /\ IssuesPhase(failed)
    <2>. HIDE DEF review, failed
    <2>1. IssuesPhase(review) /\ Head(run.todo).key \in IssueKeys
      BY <1>0, <1>1, <1>3, IssueTaken
    <2>2. IssuesPhase(failed)
      BY <1>0, <1>1, <1>4, IssueTaken
    <2>. QED BY <2>1, <2>2
  <1>. HIDE DEF review, failed, Read
  <1>6. ASSUME NEW r, DOMAIN r = DOMAIN run, r.pc \in {"next", "review", "find"}, r.cache = run.cache, r.mem = run.mem,
               IssuesPhase(r)
        PROVE  RunFits(r)
    BY <1>0, <1>1, <1>6, GHKnown DEF RunFits
  <1>7. CASE Well(review)
    BY <1>0, <1>3, <1>5, <1>6, <1>7, GHStays
  <1>8. CASE Ill(failed)
    BY <1>0, <1>4, <1>5, <1>6, <1>8, GHStays
  <1>9. CASE Well(Read(thread))
    <2>1. source.settings.comments => thread = Thread(issue.key)
      BY DEF Thread
    <2>. PICK r : r = Read(thread)
      BY Zenon
    <2>2. r.pc = "find" /\ source.settings.comments => Threaded(r.at.key, r.at.thread)
      BY <1>2, <2>1 DEF Threaded
    <2>. HIDE DEF thread
    <2>3. IssuesPhase(r)
      BY <1>0, <1>1, <1>2, <2>2, IssueTaken
    <2>4. RunFits(r)
      BY <1>2, <1>6, <2>3
    <2>. QED BY <1>0, <1>2, <1>9, <2>4, GHStays
  <1>10. CASE Ill(Read(GH!EmptyBag))
    <2>. PICK r, key : r = Read(GH!EmptyBag) /\ key = issue.key
      OBVIOUS
    <2>1. Becomes(r) /\ mishaps' = mishaps + 1
      BY <1>1, <1>2, <1>10, TurnsInto DEF Becomes, Ill
    <2>2. SameIssues
      BY <1>0, GHKnown DEF SameIssues
    <2>3. GHWorld' /\ Kept({}, {})
      BY <1>0, <2>1, <2>2, QuietWorld, GHKnown DEF Becomes
    <2>4. UpsertFits'
      BY <1>0, <1>2, <2>1, UpsertQuiet, GHKnown DEF SameHand, Becomes
    <2>5. ReviewsFit'
      BY <1>0, <2>1, ReviewsKept, GHKnown DEF Becomes
    <2>6. Threaded(key, GH!EmptyBag)'
      <3>. PICK m, n : m = mishaps /\ n = mishaps'
        OBVIOUS
      <3>1. n = 1 + m /\ key \in IssueKeys
        BY <1>5, <2>1, GHKnown
      <3>2. \A b \in DOMAIN Thread(key) : Thread(key)[b] <= 1 + m
        BY <3>1, GHKnown DEF GHWorld, ThreadsWithin
      <3>3. Thread(key)' = Thread(key)
        BY <1>0 DEF Thread
      <3>. QED BY <3>1, <3>2, <3>3 DEF Threaded, Postable
    <2>7. IssuesPhase(r)'
      <3>. PICK q : q = review
        OBVIOUS
      <3>1. IssuesPhase(q)'
        BY <1>5, <2>3, BeenKept
      <3>2. /\ q.pc = "review" /\ q.todo = r.todo /\ q.mem = r.mem /\ q.at.key = r.at.key
            /\ r.at.thread = GH!EmptyBag /\ r.at.key = key
        BY <1>2, <1>3
      <3>. QED BY <2>6, <3>1, <3>2 DEF IssuesPhase
    <2>8. RunFits(r)'
      BY <1>0, <1>1, <1>2, <2>7, GHKnown DEF RunFits
    <2>. QED BY <2>1, <2>3, <2>4, <2>5, <2>8, GHArrives
  <1>. QED BY <1>0, <1>7, <1>8, <1>9, <1>10

\* A task is added, or takes the place of one: with what was written on it, and maybe x more.
LEMMA StoredWorld ==
    ASSUME GHWorld, Listed(odoo), mishaps \in Nat, Counts, UNCHANGED source,
           NEW task, {"key", "text", "chatter"} \subseteq DOMAIN task, NEW x,
           \/ \E n \in 0..2 : /\ odoo' = More(odoo, n, task) /\ task.chatter = {}
                              /\ task.key \in IssueKeys \/ (n <= 1 /\ task.key = -(Len(odoo) + 1))
           \/ \E i \in 1..Len(odoo) :
                /\ odoo' = Put(odoo, i, task) /\ task.key = odoo[i].key
                /\ \/ task.chatter = odoo[i].chatter
                   \/ /\ task.chatter = odoo[i].chatter \cup {x}
                      /\ \A k \in IssueKeys : x \notin DOMAIN Thread(k),
           \A t \in 1..Len(odoo) : Adopting(t) => Adopting(t)' \/ mishaps' = mishaps + 1
    PROVE  GHWorld' /\ Kept({}, {})
  <1>0. /\ Len(odoo) \in Nat
        /\ \A t \in 1..Len(odoo) : /\ {"key", "text", "chatter"} \subseteq DOMAIN odoo[t]
                                   /\ odoo[t].key \in IssueKeys \/ odoo[t].key = -t
    BY GHKnown DEF GHWorld, GHShape, Listed
  <1>1. ASSUME NEW n \in 0..2, odoo' = More(odoo, n, task), task.chatter = {},
               task.key \in IssueKeys \/ (n <= 1 /\ task.key = -(Len(odoo) + 1))
        PROVE  GHWorld' /\ Kept({}, {})
    <2>1. Longer(odoo, odoo', n, task)
      <3>1. ASSUME NEW s, NEW r, Listed(s), r = More(s, n, task) PROVE Longer(s, r, n, task)
        BY <3>1, MoreOf
      <3>. QED BY <1>1, <3>1
    <2>2. /\ Listed(odoo') /\ Len(odoo') = Len(odoo) + n
          /\ \A t \in 1..Len(odoo) : odoo'[t] = odoo[t]
          /\ \A t \in (Len(odoo) + 1)..(Len(odoo) + n) : odoo'[t] = task
      BY <2>1 DEF Longer
    <2>3. \A t \in 1..Len(odoo') : t \in 1..Len(odoo) \/ t \in (Len(odoo) + 1)..(Len(odoo) + n)
      BY <1>0, <2>2
    <2>4. \A t \in (Len(odoo) + 1)..(Len(odoo) + n) : n <= 1 => t = Len(odoo) + 1
      BY <1>0
    <2>5. \A t \in 1..Len(odoo') : /\ {"key", "text", "chatter"} \subseteq DOMAIN odoo'[t]
                                   /\ odoo'[t].key \in IssueKeys \/ odoo'[t].key = -t
      <3>. SUFFICES ASSUME NEW t \in 1..Len(odoo')
                    PROVE  /\ {"key", "text", "chatter"} \subseteq DOMAIN odoo'[t]
                           /\ odoo'[t].key \in IssueKeys \/ odoo'[t].key = -t
        OBVIOUS
      <3>1. CASE t \in 1..Len(odoo)
        BY <1>0, <2>2, <3>1
      <3>2. CASE t \in (Len(odoo) + 1)..(Len(odoo) + n)
        BY <1>1, <2>2, <2>4, <3>2
      <3>. QED BY <2>3, <3>1, <3>2
    <2>6. Len(odoo) <= Len(odoo') /\ 1..Len(odoo) \subseteq 1..Len(odoo')
      BY <1>0, <2>2
    <2>7. \A b : Chats(b)' <=> Chats(b)
      <3>1. \A b : Chats(b) => Chats(b)'
        BY <2>2, <2>6 DEF Chats
      <3>2. \A b : Chats(b)' => Chats(b)
        BY <1>1, <2>2, <2>3 DEF Chats
      <3>. QED BY <3>1, <3>2
    <2>8. \A t \in 1..Len(odoo) : odoo'[t].key = odoo[t].key
      BY <2>2
    <2>. QED BY <2>2, <2>5, <2>6, <2>7, <2>8, TasksWorld
  <1>2. ASSUME NEW i \in 1..Len(odoo), odoo' = Put(odoo, i, task), task.key = odoo[i].key,
               \/ task.chatter = odoo[i].chatter
               \/ task.chatter = odoo[i].chatter \cup {x} /\ \A k \in IssueKeys : x \notin DOMAIN Thread(k)
        PROVE  GHWorld' /\ Kept({}, {})
    <2>1. /\ Listed(odoo') /\ Len(odoo') = Len(odoo)
          /\ \A t \in 1..Len(odoo) : odoo'[t] = IF t = i THEN task ELSE odoo[t]
      <3>1. ASSUME NEW s, NEW r, Listed(s), i \in 1..Len(s), r = Put(s, i, task)
            PROVE  /\ Listed(r) /\ Len(r) = Len(s)
                   /\ \A j \in 1..Len(s) : r[j] = IF j = i THEN task ELSE s[j]
        BY <3>1, ExceptOf
      <3>. QED BY <1>2, <3>1
    <2>2. \A t \in 1..Len(odoo') : /\ {"key", "text", "chatter"} \subseteq DOMAIN odoo'[t]
                                   /\ odoo'[t].key \in IssueKeys \/ odoo'[t].key = -t
      BY <1>0, <1>2, <2>1
    <2>3. Len(odoo) <= Len(odoo')
      BY <1>0, <2>1
    <2>4. /\ \A b : Chats(b) => Chats(b)'
          /\ \A b : b # x /\ Chats(b)' => Chats(b)
          /\ (\A k \in IssueKeys : x \notin DOMAIN Thread(k)) \/ (Chats(x)' => Chats(x))
      BY <1>2, <2>1 DEF Chats
    <2>5. \A t \in 1..Len(odoo) : odoo'[t].key = odoo[t].key
      BY <1>2, <2>1
    <2>. QED BY <2>1, <2>2, <2>3, <2>4, <2>5, TasksWorld
  <1>. QED BY <1>1, <1>2

\* What a run has been through grows by the issue in hand.
LEMMA IssueNoted ==
    ASSUME NEW q, IssuesPhase(q)', q.pc \in {"review", "find", "apply"},
           NEW e, e.key = q.at.key, Entry(e)',
           NEW r, r.pc = "next", r.todo = q.todo, r.mem.out = Append(q.mem.out, e)
    PROVE  IssuesPhase(r)'
  <1>. DEFINE out == q.mem.out
  <1>1. /\ Listed(out) /\ Rising(out) /\ \A n \in 1..Len(out) : Entry(out[n])'
        /\ Listed(q.todo) /\ Rising(q.todo) /\ \A n \in 1..Len(q.todo) : q.todo[n].key \in IssueKeys'
        /\ \A m \in 1..Len(out), n \in 1..Len(q.todo) : out[m].key < q.todo[n].key
        /\ \A n \in 1..Len(q.todo) : e.key < q.todo[n].key
        /\ \A m \in 1..Len(out) : out[m].key < e.key
    BY DEF IssuesPhase, Been
  <1>. HIDE DEF out
  <1>2. /\ Len(out) \in Nat /\ Listed(Append(out, e)) /\ Len(Append(out, e)) = Len(out) + 1
        /\ \A n \in 1..Len(out) : Append(out, e)[n] = out[n]
        /\ Append(out, e)[Len(out) + 1] = e
        /\ Rising(Append(out, e))
    <2>1. Listed(out) /\ Rising(out) /\ \A n \in 1..Len(out) : out[n].key < e.key
      BY <1>1
    <2>. QED BY <2>1, AppendOf, ZenonT(30)
  <1>3. \A n \in 1..Len(Append(out, e)) : n \in 1..Len(out) \/ n = Len(out) + 1
    BY <1>2
  <1>4. \A n \in 1..Len(Append(out, e)) : Entry(Append(out, e)[n])'
    BY <1>1, <1>2, <1>3
  <1>5. Been(Append(out, e))'
    BY <1>2, <1>4 DEF Been
  <1>6. \A m \in 1..Len(Append(out, e)), n \in 1..Len(q.todo) : Append(out, e)[m].key < q.todo[n].key
    BY <1>1, <1>2, <1>3
  <1>7. r.mem.out = Append(out, e)
    BY DEF out
  <1>. QED BY <1>1, <1>5, <1>6, <1>7 DEF IssuesPhase

\* An issue without a title is through.
LEMMA GHReviewIssue ==
    ASSUME GHOnceInv, GH!ReviewIssue
    PROVE  GHOnceInv'
  <1>. DEFINE e == [key |-> run.at.key, text |-> run.at.text, thread |-> GH!EmptyBag,
                    outcome |-> "skipped", id |-> 0]
              r == GH!Onward([GH!Counted(run, "skipped") EXCEPT !.mem.out = Append(@, e)])
  <1>0. UNCHANGED <<odoo, source>> /\ run.pc = "review" /\ Raise(run.at.key, r)
    BY GHShares DEF GH!ReviewIssue, GH!Noted
  <1>1. /\ Fields \subseteq DOMAIN run /\ {"phase", "project", "snap", "out"} \subseteq DOMAIN run.mem
        /\ run.mem.phase = "issues" /\ IssuesPhase(run)
    BY <1>0, GHKnown DEF RunFits, GHPlaces
  <1>2. e.key = run.at.key /\ e.id = 0 /\ "bodies" \notin DOMAIN e
    OBVIOUS
  <1>. HIDE DEF e
  <1>3. /\ DOMAIN r = DOMAIN run /\ r.pc = "next" /\ r.cache = run.cache /\ r.todo = run.todo
        /\ DOMAIN r.mem = DOMAIN run.mem /\ r.mem.phase = "issues" /\ r.mem.out = Append(run.mem.out, e)
    BY <1>1 DEF GH!Onward, GH!Counted, Fields
  <1>. HIDE DEF r
  <1>. PICK key, q, s, f : key = run.at.key /\ q = run /\ s = r /\ f = e
    OBVIOUS
  <1>4. ReviewsFit' /\ Counts /\ Becomes(s)
    <2>1. Raise(key, s)
      BY <1>0
    <2>2. ReviewsFit' /\ Counts
      BY <2>1, RaiseFits, GHKnown
    <2>. QED BY <1>1, <1>3, <2>1, <2>2, RaiseTurns DEF Becomes
  <1>5. SameIssues
    BY <1>0, GHKnown DEF SameIssues
  <1>6. GHWorld' /\ Kept({}, {})
    BY <1>0, <1>4, <1>5, QuietWorld, GHKnown DEF Adopting
  <1>7. UpsertFits'
    BY <1>0, <1>3, <1>4, UpsertQuiet, GHKnown DEF SameHand, Becomes
  <1>8. IssuesPhase(q)'
    BY <1>1, <1>6, BeenKept
  <1>9. Entry(f)'
    <2>1. f.key \in IssueKeys'
      BY <1>0, <1>2, <1>8 DEF IssuesPhase
    <2>2. Len(odoo') \in Nat
      BY <1>0, GHKnown
    <2>. QED BY <1>2, <2>1, <2>2 DEF Entry
  <1>10. IssuesPhase(s)'
    BY <1>0, <1>2, <1>3, <1>8, <1>9, IssueNoted
  <1>11. RunFits(s)'
    BY <1>1, <1>3, <1>10, GHKnown DEF RunFits
  <1>. QED BY <1>4, <1>6, <1>7, <1>11, GHArrives

\* The issue in hand is looked for.
LEMMA GHFind ==
    ASSUME GHOnceInv, GH!Find
    PROVE  GHOnceInv'
  <1>0. Find /\ Counts /\ UNCHANGED <<odoo, source, reviews>>
    BY GHShares DEF Find, Well, Ill, Counts
  <1>1. /\ UpsertFits'
        /\ run.pc = "find" /\ run'.pc \in {"next", "apply"} /\ DOMAIN run' = DOMAIN run
        /\ run'.mem = run.mem /\ run'.todo = run.todo
        /\ run'.pc = "apply" => run'.at = run.at
        /\ \A c \in run'.cache : c \in run.cache \/ c.key = run.at.key
    BY <1>0, FindFits, GHKnown
  <1>2. /\ {"phase", "project", "snap", "out"} \subseteq DOMAIN run.mem
        /\ run.mem.phase = "issues" /\ IssuesPhase(run)
    BY <1>1, GHKnown DEF RunFits, GHPlaces
  <1>3. SameIssues
    BY <1>0, GHKnown DEF SameIssues
  <1>4. GHWorld' /\ Kept({}, {})
    BY <1>0, <1>1, <1>3, QuietWorld, GHKnown DEF Adopting
  <1>5. ReviewsFit'
    BY <1>0, ReviewsKept, GHKnown
  <1>. PICK r : r = run'
    OBVIOUS
  <1>6. Becomes(r)
    BY <1>0 DEF Becomes
  <1>7. IssuesPhase(r)
    BY <1>1, <1>2 DEF IssuesPhase
  <1>8. \A c \in r.cache : c.key \in Nat \ {0}
    <2>1. run.at.key \in Nat \ {0}
      BY <1>1, <1>2, GHKnown DEF IssuesPhase, IssueKeys
    <2>. QED BY <1>1, <2>1, GHKnown DEF RunFits
  <1>9. RunFits(r)
    BY <1>1, <1>2, <1>7, <1>8 DEF RunFits
  <1>. QED BY <1>1, <1>4, <1>5, <1>6, <1>9, GHMoves

\* An issue is stored.
LEMMA GHSyncIssue ==
    ASSUME GHOnceInv, run.pc = "apply", GH!SyncIssue
    PROVE  GHOnceInv'
  <1>. DEFINE fresh == GH!Task(run.at.key, run.at.text, run.at.thread)
              old == [fresh EXCEPT !.chatter = odoo[run.found.id].chatter]
              k == GH!Outcome(run.found, fresh)
              e(outcome, id) == [key |-> run.at.key, text |-> run.at.text, thread |-> run.at.thread,
                                 outcome |-> outcome, id |-> id]
              Then(r, outcome, id) == GH!Onward([r EXCEPT !.mem.out = Append(@, e(outcome, id))])
              Done(id) == Then(GH!Counted(run, k), k, id)
              Written(m) == GH!Known(GH!Wrote(Done(m)), m, fresh)
              failed == GH!Failed(GH!Wrote(run))
  <1>shape. /\ UpsertFits /\ ReviewsFit /\ mishaps \in Nat /\ Fields \subseteq DOMAIN run
            /\ {"phase", "project", "snap", "out"} \subseteq DOMAIN run.mem
            /\ run.mem.phase = "issues" /\ IssuesPhase(run)
            /\ UNCHANGED <<source, reviews>>
    BY GHKnown DEF GH!SyncIssue, GH!Upsert, RunFits, GHPlaces
  <1>1. /\ fresh.key = run.at.key /\ old.key = run.at.key /\ fresh.chatter = {}
        /\ old.chatter = odoo[run.found.id].chatter
        /\ {"key", "text", "chatter"} \subseteq DOMAIN fresh /\ {"key", "text", "chatter"} \subseteq DOMAIN old
    BY DEF GH!Task
  <1>2. (k = "created" => run.found = NoRecord) /\ (k = "updated" => run.found # NoRecord)
    BY SMTT(30) DEF GH!Outcome, GH!NoRecord, NoRecord
  <1>3. Requested(fresh, old, k, Done(run.found.id), failed, Written(Len(odoo) + 1), Written(Len(odoo) + 2),
                  Written(run.found.id))
    BY DEF GH!SyncIssue, GH!Upsert, GH!Noted, GH!Send, GH!Well, GH!Ill, Requested, Marred, New
  <1>4. \A id : e(k, id).key = run.at.key /\ e(k, id).thread = run.at.thread /\ e(k, id).id = id
                /\ "bodies" \notin DOMAIN e(k, id)
    OBVIOUS
  <1>. HIDE DEF k, fresh, old, e
  <1>5. \A id : LET r == Done(id) IN
            /\ Plain(r) /\ r.todo = run.todo
            /\ DOMAIN r.mem = DOMAIN run.mem /\ r.mem.phase = "issues" /\ r.mem.out = Append(run.mem.out, e(k, id))
    BY <1>shape DEF GH!Onward, GH!Counted, Fields, Plain
  <1>6. Plain(failed) /\ failed.todo = run.todo /\ failed.mem = run.mem
    BY <1>shape DEF GH!Failed, GH!Onward, GH!Counted, GH!Wrote, Fields, Plain
  <1>. HIDE DEF Done
  <1>7. \A m : LET r == Written(m) IN
            /\ Knows(r, m, fresh.key) /\ r.todo = run.todo
            /\ DOMAIN r.mem = DOMAIN run.mem /\ r.mem.phase = "issues" /\ r.mem.out = Append(run.mem.out, e(k, m))
    BY <1>shape, <1>5 DEF GH!Wrote, GH!Known, Fields, Plain, Knows
  <1>. HIDE DEF Written, failed
  <1>. PICK q, key, it : q = run /\ key = run.at.key /\ it = fresh
    OBVIOUS
  <1>8. Upserted(fresh, old)
    BY <1>shape, <1>1, <1>2, <1>3, <1>5, <1>6, <1>7, RequestEnds
  <1>9. UpsertFits' /\ Counts
    BY <1>shape, <1>1, <1>8, UpsertDone
  <1>10. /\ NoRecord.id = 0 /\ run.found.id \in 0..Len(odoo)
         /\ run.found # NoRecord => run.found.id \in 1..Len(odoo) /\ odoo[run.found.id].key = run.at.key
    <2>1. run.found # NoRecord => run.found.id \in 1..Len(odoo) /\ odoo[run.found.id].key = run.at.key
      BY <1>shape DEF UpsertFits, HandFits
    <2>. QED BY <2>1, GHKnown DEF NoRecord
  <1>11. key \in IssueKeys
    BY <1>shape DEF IssuesPhase
  <1>12. GHWorld' /\ Kept({}, {})
    <2>1. ASSUME NEW n \in 0..2, odoo' = New(n, fresh) PROVE GHWorld' /\ Kept({}, {})
      <3>1. odoo' = More(odoo, n, it)
        BY <2>1 DEF New, More
      <3>. QED BY <1>shape, <1>1, <1>9, <1>11, <3>1, StoredWorld, GHKnown DEF Adopting
    <2>2. CASE run.found # NoRecord /\ odoo' = [odoo EXCEPT ![run.found.id] = old]
      <3>. PICK i, task : i = run.found.id /\ task = old
        OBVIOUS
      <3>1. /\ i \in 1..Len(odoo) /\ odoo' = Put(odoo, i, task)
            /\ task.key = odoo[i].key /\ task.chatter = odoo[i].chatter
        BY <1>1, <1>10, <2>2 DEF Put
      <3>. QED BY <1>shape, <1>1, <1>9, <3>1, StoredWorld, GHKnown DEF Adopting
    <2>3. CASE odoo' = odoo
      <3>1. SameIssues
        BY <1>shape, GHKnown DEF SameIssues
      <3>. QED BY <1>shape, <1>9, <2>3, <3>1, QuietWorld, GHKnown DEF Adopting
    <2>. QED BY <1>8, <2>1, <2>2, <2>3 DEF Upserted, Created, Updated
  <1>13. /\ run'.pc = "next" /\ DOMAIN run' = DOMAIN run /\ run'.todo = run.todo
         /\ DOMAIN run'.mem = DOMAIN run.mem /\ run'.mem.phase = "issues"
         /\ \A c \in run'.cache : c \in run.cache \/ c.key = run.at.key
    <2>. DEFINE all == {Done(run.found.id), failed, Written(Len(odoo) + 1), Written(Len(odoo) + 2), Written(run.found.id)}
    <2>1. \A r \in all : /\ Fields \subseteq DOMAIN r /\ r.todo = run.todo
                         /\ DOMAIN r.mem = DOMAIN run.mem /\ r.mem.phase = "issues"
                         /\ \A c \in r.cache : c \in run.cache \/ c.key = run.at.key
      BY <1>shape, <1>1, <1>5, <1>6, <1>7 DEF Plain, Knows
    <2>2. \E r \in all : run'.todo = r.todo /\ run'.mem = r.mem /\ run'.cache = r.cache
      BY <1>3, <2>1, RequestKeeps
    <2>. QED BY <1>8, <2>1, <2>2 DEF Upserted
  <1>14. \/ run'.mem.out = run.mem.out
         \/ \E id \in 0..Len(odoo') : run'.mem.out = Append(run.mem.out, e(k, id))
    <2>1. \A n \in 0..2 : odoo' = New(n, fresh) => Len(odoo') = Len(odoo) + n
      <3>. SUFFICES ASSUME NEW n \in 0..2, odoo' = New(n, fresh) PROVE Len(odoo') = Len(odoo) + n
        OBVIOUS
      <3>1. ASSUME NEW s, NEW r, Listed(s), r = More(s, n, it) PROVE Longer(s, r, n, it)
        BY <3>1, MoreOf
      <3>2. odoo' = More(odoo, n, it)
        BY DEF New, More
      <3>. QED BY <3>1, <3>2, GHKnown DEF Longer
    <2>2. run.found.id \in 0..Len(odoo')
      BY <1>10, <1>12 DEF Kept
    <2>3. Len(odoo) \in Nat
      BY GHKnown
    <2>4. \A r : Fields \subseteq DOMAIN r => Marred(r).mem = r.mem
      BY DEF Marred, Fields
    <2>5. /\ Done(run.found.id).mem.out = Append(run.mem.out, e(k, run.found.id))
          /\ Written(run.found.id).mem.out = Append(run.mem.out, e(k, run.found.id))
          /\ Written(Len(odoo) + 1).mem.out = Append(run.mem.out, e(k, Len(odoo) + 1))
          /\ Written(Len(odoo) + 2).mem.out = Append(run.mem.out, e(k, Len(odoo) + 2))
          /\ failed.mem.out = run.mem.out
      BY <1>5, <1>6, <1>7
    <2>6. /\ Fields \subseteq DOMAIN failed /\ Fields \subseteq DOMAIN Written(run.found.id)
          /\ Fields \subseteq DOMAIN Written(Len(odoo) + 2)
      BY <1>shape, <1>6, <1>7 DEF Plain, Knows
    <2>7. CASE run' = Done(run.found.id) \/ run' = Marred(failed) \/ run' = Written(run.found.id) \/ run' = Marred(Written(run.found.id))
      BY <2>2, <2>4, <2>5, <2>6, <2>7
    <2>8. CASE odoo' = New(1, fresh) /\ run' = Written(Len(odoo) + 1)
      <3>1. Len(odoo) + 1 \in 0..Len(odoo')
        BY <2>1, <2>3, <2>8
      <3>. QED BY <2>5, <2>8, <3>1
    <2>9. CASE odoo' = New(2, fresh) /\ run' = Marred(Written(Len(odoo) + 2))
      <3>1. Len(odoo) + 2 \in 0..Len(odoo')
        BY <2>1, <2>3, <2>9
      <3>. QED BY <2>4, <2>5, <2>6, <2>9, <3>1
    <2>. QED BY <1>3, <2>7, <2>8, <2>9 DEF Requested
  <1>15. ReviewsFit'
    BY <1>shape, <1>9, ReviewsKept
  <1>16. IssuesPhase(q)'
    BY <1>shape, <1>12, BeenKept
  <1>. PICK r : r = run'
    OBVIOUS
  <1>17. Becomes(r)
    BY <1>9 DEF Becomes
  <1>18. IssuesPhase(r)'
    <2>1. CASE r.mem.out = q.mem.out
      BY <1>13, <1>16, <2>1 DEF IssuesPhase
    <2>2. CASE \E id \in 0..Len(odoo') : r.mem.out = Append(q.mem.out, e(k, id))
      <3>. PICK id \in 0..Len(odoo') : r.mem.out = Append(q.mem.out, e(k, id))
        BY <2>2
      <3>. PICK f : f = e(k, id)
        OBVIOUS
      <3>1. f.key = q.at.key /\ f.thread = q.at.thread /\ f.id = id /\ "bodies" \notin DOMAIN f
        BY <1>4
      <3>2. Entry(f)'
        BY <1>16, <3>1 DEF Entry, IssuesPhase
      <3>. QED BY <1>13, <1>16, <3>1, <3>2, IssueNoted
    <2>. QED BY <1>14, <2>1, <2>2
  <1>19. RunFits(r)'
    <2>1. run.at.key \in Nat \ {0}
      BY <1>11, GHKnown DEF IssueKeys
    <2>2. \A c \in r.cache : c.key \in Nat \ {0}
      BY <1>13, <2>1, GHKnown DEF RunFits
    <2>. QED BY <1>shape, <1>13, <1>18, <2>2 DEF RunFits
  <1>. QED BY <1>9, <1>12, <1>15, <1>17, <1>19, GHArrives

\* The tasks that say something else than their issue are listed, or not.
LEMMA GHIdentifyUpdates ==
    ASSUME GHOnceInv, GH!IdentifyUpdates
    PROVE  GHOnceInv'
  <1>. DEFINE Updates(todo) == [run EXCEPT !.mem.phase = "updates", !.todo = todo]
              over == GH!Aborted([run EXCEPT !.mem = {}])
  <1>0. /\ UNCHANGED <<odoo, source, reviews>> /\ run.pc = "next" /\ run.mem.phase = "issues"
        /\ (\E todo : Well(Updates(todo)) \/ Ill(Updates(todo))) \/ Ill(over)
    <2>. HIDE DEF Updates, over
    <2>1. /\ UNCHANGED <<odoo, source, reviews>> /\ run.pc = "next" /\ run.mem.phase = "issues"
          /\ (\E todo : GH!Well(Updates(todo)) \/ GH!Ill(Updates(todo))) \/ GH!Ill(over)
      BY DEF GH!IdentifyUpdates, GH!Over, Updates, over
    <2>. QED BY SMTT(30), <2>1, GHShares
  <1>1. /\ Fields \subseteq DOMAIN run /\ {"phase", "project", "snap", "out"} \subseteq DOMAIN run.mem
        /\ Been(run.mem.out)
    BY <1>0, GHKnown DEF RunFits, GHPlaces, IssuesPhase
  <1>2. \A todo : LET r == Updates(todo) IN
            /\ DOMAIN r = DOMAIN run /\ r.pc = "next" /\ r.cache = run.cache
            /\ DOMAIN r.mem = DOMAIN run.mem /\ r.mem.phase = "updates" /\ r.mem.out = run.mem.out
    BY <1>0, <1>1 DEF Fields
  <1>3. DOMAIN over = DOMAIN run /\ over.pc = "log" /\ over.cache = run.cache
    BY <1>1 DEF GH!Aborted, Fields
  <1>. HIDE DEF Updates, over
  <1>4. CASE Ill(over)
    <2>1. RunFits(over)
      BY <1>3, GHKnown DEF RunFits, GHPlaces
    <2>. QED BY <1>0, <1>3, <1>4, <2>1, GHStays
  <1>5. ASSUME NEW todo, Well(Updates(todo)) \/ Ill(Updates(todo)) PROVE GHOnceInv'
    <2>. PICK r : r = Updates(todo)
      OBVIOUS
    <2>1. RunFits(r)
      BY <1>1, <1>2, GHKnown DEF RunFits
    <2>. QED BY <1>0, <1>2, <1>5, <2>1, GHStays
  <1>. QED BY <1>0, <1>4, <1>5

\* An issue may say something else, and be the same otherwise.
LEMMA TextChanges ==
    ASSUME GHShape, NEW k, NEW x, source' = [source EXCEPT !.issues[k].text = x]
    PROVE  SameIssues
  <1>1. /\ {"issues", "project", "settings"} \subseteq DOMAIN source /\ Listed(source.issues)
    BY DEF GHShape
  <1>2. /\ DOMAIN source' = DOMAIN source /\ source'.settings = source.settings
        /\ source'.issues = Put(source.issues, k, [source.issues[k] EXCEPT !.text = x])
    BY <1>1 DEF Put
  <1>3. CASE k \in 1..Len(source.issues)
    <2>1. ASSUME NEW e, NEW s, NEW r, Listed(s), k \in 1..Len(s), r = Put(s, k, e)
          PROVE  /\ Listed(r) /\ Len(r) = Len(s)
                 /\ \A j \in 1..Len(s) : r[j] = IF j = k THEN e ELSE s[j]
      BY <2>1, ExceptOf
    <2>2. /\ Listed(source'.issues) /\ Len(source'.issues) = Len(source.issues)
          /\ \A j \in 1..Len(source.issues) :
                source'.issues[j] = IF j = k THEN [source.issues[k] EXCEPT !.text = x] ELSE source.issues[j]
      BY <1>1, <1>2, <1>3, <2>1
    <2>3. LET e == [source.issues[k] EXCEPT !.text = x] IN
          /\ DOMAIN e = DOMAIN source.issues[k]
          /\ e.thread = source.issues[k].thread /\ e.origin = source.issues[k].origin
      BY <1>3 DEF GHShape, IssueKeys
    <2>. QED BY <1>2, <2>2, <2>3 DEF SameIssues, IssueKeys
  <1>4. CASE k \notin 1..Len(source.issues)
    <2>1. ASSUME NEW e, NEW s, Listed(s), k \notin 1..Len(s) PROVE Put(s, k, e) = s
      <3>1. PICK S : s \in Seq(S)
        BY <2>1 DEF Listed
      <3>2. k \notin DOMAIN s /\ s = [j \in DOMAIN s |-> s[j]]
        BY <2>1, <3>1
      <3>. QED BY <3>2 DEF Put
    <2>2. source'.issues = source.issues
      BY <1>1, <1>2, <1>4, <2>1
    <2>. QED BY <1>1, <1>2, <2>2 DEF SameIssues
  <1>. QED BY <1>3, <1>4

\* An issue is made to say what its task says, or not.
LEMMA GHPushUpdate ==
    ASSUME GHOnceInv, GH!PushUpdate
    PROVE  GHOnceInv'
  <1>. DEFINE update == Head(run.todo)
              taken == GH!TakenUp(run, update)
              withheld == GH!Withheld(taken)
              pushed == GH!Onward(GH!Counted(GH!Pushed(taken), "updated"))
              failed == GH!Failed(GH!Pushed(taken))
  <1>0. /\ UNCHANGED <<odoo, reviews>> /\ run.pc = "next" /\ run.mem.phase = "updates"
        /\ UNCHANGED source \/ \E x : source' = [source EXCEPT !.issues[update.key].text = x]
        /\ \E r \in {withheld, pushed, failed} : Well(r) \/ Ill(r)
    <2>. HIDE DEF update, withheld, pushed, failed
    <2>1. /\ UNCHANGED <<odoo, reviews>> /\ run.pc = "next" /\ run.mem.phase = "updates"
          /\ UNCHANGED source \/ source' = [source EXCEPT !.issues[update.key].text = update.text]
          /\ \E r \in {withheld, pushed, failed} : GH!Well(r) \/ GH!Ill(r)
      BY DEF GH!PushUpdate, GH!Phase, GH!Send, update, withheld, pushed, failed
    <2>. QED BY <2>1, GHShares
  <1>1. /\ Fields \subseteq DOMAIN run /\ {"phase", "project", "snap", "out"} \subseteq DOMAIN run.mem
        /\ Been(run.mem.out)
    BY <1>0, GHKnown DEF RunFits, GHPlaces
  <1>. HIDE DEF update
  <1>2. \A r \in {withheld, pushed, failed} :
            DOMAIN r = DOMAIN run /\ r.pc = "next" /\ r.cache = run.cache /\ r.mem = run.mem
    <2>1. DOMAIN taken = DOMAIN run /\ taken.cache = run.cache /\ taken.mem = run.mem
      BY <1>1 DEF GH!TakenUp, Fields
    <2>. HIDE DEF taken
    <2>2. DOMAIN withheld = DOMAIN run /\ withheld.pc = "next" /\ withheld.cache = run.cache /\ withheld.mem = run.mem
      BY <1>1, <2>1 DEF GH!Withheld, GH!Onward, GH!Counted, Fields
    <2>3. DOMAIN pushed = DOMAIN run /\ pushed.pc = "next" /\ pushed.cache = run.cache /\ pushed.mem = run.mem
      BY <1>1, <2>1 DEF GH!Pushed, GH!Wrote, GH!Onward, GH!Counted, Fields
    <2>4. DOMAIN failed = DOMAIN run /\ failed.pc = "next" /\ failed.cache = run.cache /\ failed.mem = run.mem
      BY <1>1, <2>1 DEF GH!Pushed, GH!Wrote, GH!Failed, GH!Onward, GH!Counted, Fields
    <2>. HIDE DEF withheld, pushed, failed
    <2>. QED BY <2>2, <2>3, <2>4
  <1>. HIDE DEF withheld, pushed, failed
  <1>3. PICK r \in {withheld, pushed, failed} : Well(r) \/ Ill(r)
    BY <1>0
  <1>4. RunFits(r)
    BY <1>0, <1>1, <1>2, GHKnown DEF RunFits
  <1>5. Becomes(r)
    BY <1>1, <1>2, <1>3, TurnsInto DEF Becomes
  <1>6. SameIssues
    <2>. PICK k : k = update.key
      OBVIOUS
    <2>1. CASE UNCHANGED source
      BY <2>1, GHKnown DEF SameIssues
    <2>. QED BY <1>0, <2>1, TextChanges, GHKnown
  <1>7. ReviewsFit'
    BY <1>0, <1>5, ReviewsKept, GHKnown DEF Becomes
  <1>. QED BY <1>0, <1>2, <1>4, <1>5, <1>6, <1>7, GHQuiet

\* The comments of the issues that were gone through are next.
LEMMA GHSelectThreads ==
    ASSUME GHOnceInv, GH!SelectThreads
    PROVE  GHOnceInv'
  <1>. DEFINE r == [run EXCEPT !.mem.phase = "comments",
                               !.todo = IF source.settings.comments THEN run.mem.out ELSE <<>>]
  <1>0. /\ UNCHANGED <<odoo, source, reviews>> /\ run.pc = "next" /\ run.mem.phase = "updates" /\ Well(r)
    BY GHShares DEF GH!SelectThreads, GH!Over
  <1>1. /\ Fields \subseteq DOMAIN run /\ {"phase", "project", "snap", "out"} \subseteq DOMAIN run.mem
        /\ Been(run.mem.out)
    BY <1>0, GHKnown DEF RunFits, GHPlaces
  <1>2. /\ DOMAIN r = DOMAIN run /\ r.pc = "next" /\ r.cache = run.cache
        /\ DOMAIN r.mem = DOMAIN run.mem /\ r.mem.phase = "comments"
        /\ r.todo = (IF source.settings.comments THEN run.mem.out ELSE <<>>)
    BY <1>0, <1>1 DEF Fields
  <1>. HIDE DEF r
  <1>3. CommentsPhase(r)
    <2>1. CASE source.settings.comments
      BY <1>1, <1>2, <2>1 DEF CommentsPhase, Been, Entry, Speech
    <2>2. CASE ~source.settings.comments
      BY <1>2, <2>2 DEF CommentsPhase, Rising, Listed
    <2>. QED BY <2>1, <2>2
  <1>4. RunFits(r)
    BY <1>1, <1>2, <1>3, GHKnown DEF RunFits
  <1>. QED BY <1>0, <1>2, <1>4, GHStays

\* A list of what is in another, but for its first, and this.
Reheaded(s, f, r) ==
    /\ Listed(r) /\ Rising(r)
    /\ \A n \in 1..Len(r) : r[n] = f \/ \E m \in 1..Len(s) : r[n] = s[m] /\ s[m].key # f.key

\* The first of a rising list gives way to another with its key, or goes.
LEMMA HeadReplaced ==
    ASSUME NEW s, Listed(s), s # <<>>, Rising(s), \A n \in 1..Len(s) : s[n].key \in Nat,
           NEW f, f.key = s[1].key, NEW r, r = <<f>> \o Tail(s) \/ r = Tail(s)
    PROVE  Reheaded(s, f, r)
  <1>1. /\ 1 \in 1..Len(s) /\ Head(s) = s[1] /\ Listed(Tail(s)) /\ Len(s) \in Nat /\ Len(s) > 0
        /\ Len(Tail(s)) = Len(s) - 1
        /\ \A n \in 1..Len(Tail(s)) : n + 1 \in 1..Len(s) /\ Tail(s)[n] = s[n + 1]
    BY TailOf
  <1>2. Rising(Tail(s)) /\ \A n \in 1..Len(Tail(s)) : s[1].key < Tail(s)[n].key
    BY RisingTail
  <1>3. \A n \in 1..Len(Tail(s)) : \E m \in 1..Len(s) : Tail(s)[n] = s[m] /\ s[m].key # f.key
    <2>1. ASSUME NEW n \in 1..Len(Tail(s)) PROVE Tail(s)[n].key # f.key
      <3>1. s[1].key \in Nat /\ Tail(s)[n].key \in Nat
        BY <1>1
      <3>. QED BY <1>2, <3>1
    <2>. QED BY <1>1, <2>1
  <1>. PICK t : t = Tail(s)
    OBVIOUS
  <1>4. CASE r = t
    BY <1>1, <1>2, <1>3, <1>4 DEF Reheaded
  <1>5. CASE r = <<f>> \o t
    <2>1. PICK T : t \in Seq(T)
      BY <1>1 DEF Listed
    <2>2. t \in Seq(T \cup {f}) /\ <<f>> \in Seq(T \cup {f})
      BY <2>1
    <2>3. /\ r \in Seq(T \cup {f}) /\ Len(r) = Len(t) + 1 /\ r[1] = f /\ Len(t) \in Nat
          /\ \A n \in 2..Len(r) : r[n] = t[n - 1]
      BY <1>5, <2>2
    <2>4. \A n \in 1..Len(r) : n = 1 \/ (n \in 2..Len(r) /\ n - 1 \in 1..Len(t))
      BY <2>3
    <2>5. \A n \in 1..Len(r) : r[n] = f \/ \E m \in 1..Len(s) : r[n] = s[m] /\ s[m].key # f.key
      BY <1>3, <2>3, <2>4
    <2>6. Rising(r)
      <3>1. ASSUME NEW n \in 1..Len(r), NEW m \in 1..(n - 1) PROVE r[m].key < r[n].key
        <4>1. n \in 2..Len(r) /\ n - 1 \in 1..Len(t) /\ r[n] = t[n - 1]
          BY <2>3
        <4>2. CASE m = 1
          BY <1>2, <2>3, <4>1, <4>2
        <4>3. CASE m # 1
          <5>1. m \in 2..Len(r) /\ m - 1 \in 1..((n - 1) - 1) /\ r[m] = t[m - 1]
            BY <2>3, <4>1, <4>3
          <5>. QED BY <1>2, <4>1, <5>1 DEF Rising
        <4>. QED BY <4>2, <4>3
      <3>. QED BY <3>1 DEF Rising
    <2>. QED BY <2>3, <2>5, <2>6 DEF Listed, Reheaded
  <1>. QED BY <1>4, <1>5

\* What was written on a task and is not in the thread, as it was fetched, is to be posted.
LEMMA GHReadChatter ==
    ASSUME GHOnceInv, GH!ReadChatter
    PROVE  GHOnceInv'
  <1>. DEFINE e == Head(run.todo)
              bodies == GH!Pending(e)
              f == [key |-> e.key, bodies |-> bodies]
              Rest(todo) == [run EXCEPT !.todo = todo]
  <1>0. /\ UNCHANGED <<odoo, source, reviews>> /\ run.pc = "next" /\ run.mem.phase = "comments"
        /\ run.todo # <<>> /\ "thread" \in DOMAIN e
        /\ \E todo : /\ todo = Tail(run.todo) \/ (bodies # {} /\ todo = <<f>> \o Tail(run.todo))
                     /\ Well(Rest(todo)) \/ Ill(Rest(todo))
    <2>1. /\ UNCHANGED <<odoo, source, reviews>> /\ run.pc = "next" /\ run.mem.phase = "comments"
          /\ run.todo # <<>> /\ "thread" \in DOMAIN e
          /\ Well(Rest(GH!Posting(e.key, bodies))) \/ Ill(Rest(Tail(run.todo)))
      BY GHShares DEF GH!ReadChatter, GH!Phase
    <2>2. bodies = {} => GH!Posting(e.key, bodies) = <<>> \o Tail(run.todo)
      BY DEF GH!Posting
    <2>3. bodies # {} => GH!Posting(e.key, bodies) = <<f>> \o Tail(run.todo)
      BY DEF GH!Posting
    <2>4. <<>> \o Tail(run.todo) = Tail(run.todo)
      <3>1. Listed(run.todo)
        BY <2>1, GHKnown DEF RunFits, GHPlaces, CommentsPhase
      <3>2. PICK S : Tail(run.todo) \in Seq(S)
        BY <2>1, <3>1, TailOf DEF Listed
      <3>. QED BY <3>2
    <2>. HIDE DEF bodies, f, Rest, e
    <2>. QED BY <2>1, <2>2, <2>3, <2>4
  <1>1. /\ Fields \subseteq DOMAIN run /\ {"phase", "project", "snap", "out"} \subseteq DOMAIN run.mem
        /\ CommentsPhase(run)
    BY <1>0, GHKnown DEF RunFits, GHPlaces
  <1>2. /\ Listed(run.todo) /\ Rising(run.todo) /\ \A n \in 1..Len(run.todo) : Speech(run.todo[n])
        /\ 1 \in 1..Len(run.todo) /\ e = run.todo[1]
    BY <1>0, <1>1, TailOf DEF CommentsPhase
  <1>3. /\ e.key \in IssueKeys /\ e.id \in 0..Len(odoo) /\ (e.id # 0 => Threaded(e.key, e.thread))
    BY <1>0, <1>2 DEF Speech
  <1>4. bodies # {} => Speech(f)
    <2>1. \A b \in bodies : e.id # 0 /\ b \in odoo[e.id].chatter /\ b \notin DOMAIN e.thread
      BY DEF GH!Pending, GH!BagToSet
    <2>2. \A b \in bodies : Chats(b)
      <3>1. e.id # 0 => e.id \in 1..Len(odoo)
        BY <1>3
      <3>. QED BY <2>1, <3>1 DEF Chats
    <2>3. \A b \in bodies : Postable(e.key, b)
      BY <1>3, <2>1, <2>2 DEF Threaded, Postable
    <2>4. f.key = e.key /\ f.bodies = bodies /\ "bodies" \in DOMAIN f /\ "thread" \notin DOMAIN f
      OBVIOUS
    <2>. HIDE DEF f, bodies, e
    <2>. QED BY <1>3, <2>2, <2>3, <2>4 DEF Speech
  <1>5. f.key = run.todo[1].key
    BY <1>2
  <1>6. \A todo : LET r == Rest(todo) IN
            /\ DOMAIN r = DOMAIN run /\ r.pc = "next" /\ r.cache = run.cache /\ r.mem = run.mem /\ r.todo = todo
    BY <1>0, <1>1 DEF Fields
  <1>. HIDE DEF f, bodies, Rest, e
  <1>7. PICK todo : /\ todo = Tail(run.todo) \/ (bodies # {} /\ todo = <<f>> \o Tail(run.todo))
                    /\ Well(Rest(todo)) \/ Ill(Rest(todo))
    BY <1>0
  <1>8. /\ Listed(todo) /\ Rising(todo)
        /\ \A n \in 1..Len(todo) : todo[n] = f \/ \E m \in 1..Len(run.todo) : todo[n] = run.todo[m]
    <2>1. \A n \in 1..Len(run.todo) : run.todo[n].key \in Nat
      BY <1>2, GHKnown DEF Speech, IssueKeys
    <2>2. ASSUME NEW s, NEW g, Listed(s), s # <<>>, Rising(s), \A n \in 1..Len(s) : s[n].key \in Nat, g.key = s[1].key,
                 todo = <<g>> \o Tail(s) \/ todo = Tail(s)
          PROVE  /\ Listed(todo) /\ Rising(todo)
                 /\ \A n \in 1..Len(todo) : todo[n] = g \/ \E m \in 1..Len(s) : todo[n] = s[m]
      <3>1. Reheaded(s, g, todo)
        BY <2>2, HeadReplaced
      <3>. QED BY <3>1 DEF Reheaded
    <2>. QED BY <1>0, <1>2, <1>5, <1>7, <2>1, <2>2
  <1>. PICK r : r = Rest(todo)
    OBVIOUS
  <1>9. CommentsPhase(r)
    <2>1. CASE todo = Tail(run.todo)
      <3>1. \A n \in 1..Len(todo) : n + 1 \in 1..Len(run.todo) /\ todo[n] = run.todo[n + 1]
        BY <1>0, <1>2, <2>1, TailOf
      <3>. QED BY <1>2, <1>6, <1>8, <3>1 DEF CommentsPhase
    <2>2. CASE bodies # {}
      BY <1>2, <1>4, <1>6, <1>8, <2>2 DEF CommentsPhase
    <2>. QED BY <1>7, <2>1, <2>2
  <1>10. RunFits(r)
    BY <1>0, <1>1, <1>6, <1>9, GHKnown DEF RunFits
  <1>. QED BY <1>0, <1>6, <1>7, <1>10, GHStays

\* A comment is posted: nothing, once or twice.  What is left of its issue may still be posted.
LEMMA GHPushComment ==
    ASSUME GHOnceInv, GH!PushComment
    PROVE  GHOnceInv'
  <1>. DEFINE post == Head(run.todo)
              body == CHOOSE b \in post.bodies : TRUE
              f == [key |-> post.key, bodies |-> post.bodies \ {body}]
              left == GH!TakenUp(run, post)
              rest == GH!Posting(post.key, post.bodies \ {body})
              taken == [left EXCEPT !.todo = rest]
              withheld == GH!Withheld(taken)
              pushed == GH!Onward(GH!Counted(GH!Pushed(taken), "updated"))
              failed == GH!Failed(GH!Pushed(left))
              Said(n) == [source EXCEPT !.issues[post.key].thread = GH!(+)(@, [b \in {body} |-> n])]
              Sent(n) == source' = IF n = 0 THEN source ELSE Said(n)
  <1>0. /\ UNCHANGED <<odoo, reviews>> /\ run.pc = "next" /\ run.mem.phase = "comments"
        /\ run.todo # <<>> /\ "bodies" \in DOMAIN post
        /\ \E r \in {withheld, pushed, failed} :
            /\ Well(r) \/ Ill(r)
            /\ UNCHANGED source \/ source' = Said(1) \/ (source' = Said(2) /\ Ill(r))
    <2>1. GH!Phase("comments") => run.pc = "next" /\ run.mem.phase = "comments" /\ run.todo # <<>>
      BY SMTT(30) DEF GH!Phase
    <2>2. /\ UNCHANGED <<odoo, reviews>> /\ GH!Phase("comments") /\ "bodies" \in DOMAIN post
          /\ \/ GH!Well(withheld) /\ UNCHANGED source
             \/ Sent(1) /\ GH!Well(pushed)
             \/ Sent(0) /\ GH!Ill(failed)
             \/ Sent(1) /\ GH!Ill(failed)
             \/ Sent(2) /\ GH!Ill(pushed)
      BY DEF GH!PushComment, GH!Send
    <2>. HIDE DEF Said, post, withheld, pushed, failed
    <2>. QED BY <2>1, <2>2, GHShares
  <1>1. /\ Fields \subseteq DOMAIN run /\ {"phase", "project", "snap", "out"} \subseteq DOMAIN run.mem
        /\ CommentsPhase(run)
    BY SMTT(30), <1>0, GHKnown DEF RunFits, GHPlaces
  <1>2. /\ Listed(run.todo) /\ Rising(run.todo) /\ \A n \in 1..Len(run.todo) : Speech(run.todo[n])
        /\ 1 \in 1..Len(run.todo) /\ post = run.todo[1]
        /\ \A n \in 1..Len(Tail(run.todo)) : n + 1 \in 1..Len(run.todo) /\ Tail(run.todo)[n] = run.todo[n + 1]
    BY <1>0, <1>1, TailOf DEF CommentsPhase
  <1>3. /\ post.key \in IssueKeys /\ body \in post.bodies
        /\ \A b \in post.bodies : Chats(b) /\ Postable(post.key, b)
    <2>1. Speech(post)
      BY <1>2
    <2>. HIDE DEF post
    <2>. QED BY <1>0, <2>1 DEF Speech
  <1>4. /\ f.key = post.key /\ f.bodies = post.bodies \ {body} /\ "bodies" \in DOMAIN f /\ "thread" \notin DOMAIN f
        /\ rest = Tail(run.todo) \/ (f.bodies # {} /\ rest = <<f>> \o Tail(run.todo))
    <2>1. PICK S : Tail(run.todo) \in Seq(S)
      BY <1>0, <1>2, TailOf DEF Listed
    <2>2. <<>> \o Tail(run.todo) = Tail(run.todo)
      BY <2>1
    <2>. HIDE DEF post, body
    <2>. QED BY <2>2 DEF GH!Posting
  <1>. HIDE DEF post, body, f, rest
  <1>5. \A r \in {withheld, pushed, failed} :
            /\ DOMAIN r = DOMAIN run /\ r.pc = "next" /\ r.cache = run.cache /\ r.mem = run.mem
            /\ r.todo \in {Tail(run.todo), rest}
    <2>1. DOMAIN left = DOMAIN run /\ left.cache = run.cache /\ left.mem = run.mem /\ left.todo = Tail(run.todo)
      BY <1>1 DEF GH!TakenUp, Fields
    <2>. HIDE DEF left
    <2>2. DOMAIN taken = DOMAIN run /\ taken.cache = run.cache /\ taken.mem = run.mem /\ taken.todo = rest
      BY <1>1, <2>1 DEF Fields
    <2>. HIDE DEF taken
    <2>3. /\ DOMAIN withheld = DOMAIN run /\ withheld.pc = "next" /\ withheld.cache = run.cache
          /\ withheld.mem = run.mem /\ withheld.todo = rest
      BY <1>1, <2>2 DEF GH!Withheld, GH!Onward, GH!Counted, Fields
    <2>4. /\ DOMAIN pushed = DOMAIN run /\ pushed.pc = "next" /\ pushed.cache = run.cache
          /\ pushed.mem = run.mem /\ pushed.todo = rest
      BY <1>1, <2>2 DEF GH!Pushed, GH!Wrote, GH!Onward, GH!Counted, Fields
    <2>5. /\ DOMAIN failed = DOMAIN run /\ failed.pc = "next" /\ failed.cache = run.cache
          /\ failed.mem = run.mem /\ failed.todo = Tail(run.todo)
      BY <1>1, <2>1 DEF GH!Pushed, GH!Wrote, GH!Failed, GH!Onward, GH!Counted, Fields
    <2>. HIDE DEF withheld, pushed, failed
    <2>. QED BY <2>3, <2>4, <2>5
  <1>. HIDE DEF withheld, pushed, failed
  <1>6. PICK r : /\ DOMAIN r = DOMAIN run /\ r.pc = "next" /\ r.cache = run.cache /\ r.mem = run.mem
                 /\ r.todo \in {Tail(run.todo), rest}
                 /\ Well(r) \/ Ill(r)
                 /\ UNCHANGED source \/ source' = Said(1) \/ (source' = Said(2) /\ Ill(r))
    BY <1>0, <1>5
  <1>7. Becomes(r) /\ Counts
    BY <1>1, <1>6, TurnsInto DEF Becomes
  <1>8. ReviewsFit'
    BY <1>0, <1>7, ReviewsKept, GHKnown
  <1>9. UpsertFits'
    BY <1>0, <1>6, <1>7, UpsertQuiet, GHKnown DEF SameHand, Becomes
  <1>. PICK i, x, bodies : i = post.key /\ x = body /\ bodies = post.bodies
    OBVIOUS
  <1>10. /\ GHWorld' /\ Kept({i}, {})
         /\ \A b : Chats(b) /\ Postable(i, b) /\ b # x => Chats(b)' /\ Postable(i, b)'
    <2>1. CASE UNCHANGED source
      <3>1. SameIssues
        BY <2>1, GHKnown DEF SameIssues
      <3>2. GHWorld' /\ Kept({}, {})
        BY <1>0, <1>7, <3>1, QuietWorld, GHKnown DEF Adopting
      <3>. QED BY <1>3, <3>2 DEF Kept, KeyKept
    <2>2. ASSUME NEW n \in 1..2, source' = Said(n), n = 2 => mishaps' = mishaps + 1
          PROVE  /\ GHWorld' /\ Kept({i}, {})
                 /\ \A b : Chats(b) /\ Postable(i, b) /\ b # x => Chats(b)' /\ Postable(i, b)'
      <3>1. \A s, t : GH!(+)(s, t) = s (+) t
        BY DEF GH!(+), (+), GH!BagToSet, BagToSet
      <3>2. source' = Commented(i, x, n)
        BY <2>2, <3>1 DEF Commented
      <3>. HIDE DEF Said
      <3>3. i \in IssueKeys /\ Postable(i, x)
        BY <1>3
      <3>4. \A t \in 1..Len(odoo) : ~Adopting(t)
        BY <1>0 DEF Adopting
      <3>5. GHWorld /\ Listed(odoo) /\ mishaps \in Nat /\ Counts /\ UNCHANGED odoo
        BY <1>0, <1>7, GHKnown
      <3>. QED BY <2>2, <3>2, <3>3, <3>4, <3>5, ThreadWorld
    <2>3. Ill(r) => mishaps' = mishaps + 1
      BY DEF Ill
    <2>. HIDE DEF Said
    <2>. QED BY <1>6, <2>1, <2>2, <2>3
  <1>. PICK g, s : g = f /\ s = run.todo
    OBVIOUS
  <1>11. g.bodies # {} => Speech(g)'
    <2>1. i \in IssueKeys'
      BY <1>3, <1>10 DEF Kept
    <2>2. \A b \in bodies \ {x} : Chats(b)' /\ Postable(i, b)'
      BY <1>3, <1>10
    <2>. QED BY <1>4, <2>1, <2>2 DEF Speech
  <1>12. \A m \in 1..Len(s) : s[m].key # i => Speech(s[m])'
    <2>1. \A e : Speech(e) /\ e.key \notin {i} => Speech(e)'
      BY <1>10, EntriesKept
    <2>. QED BY <1>2, <2>1
  <1>13. /\ Listed(r.todo) /\ Rising(r.todo)
         /\ \A n \in 1..Len(r.todo) : r.todo[n] = g \/ \E m \in 1..Len(s) : r.todo[n] = s[m] /\ s[m].key # i
    <2>1. \A n \in 1..Len(s) : s[n].key \in Nat
      BY <1>2, GHKnown DEF Speech, IssueKeys
    <2>2. r.todo = Tail(s) \/ r.todo = <<g>> \o Tail(s)
      BY <1>4, <1>6
    <2>3. Listed(s) /\ Rising(s) /\ s # <<>> /\ s[1].key = i /\ g.key = s[1].key
      BY <1>0, <1>2, <1>4
    <2>. PICK t : t = r.todo
      OBVIOUS
    <2>4. t = <<g>> \o Tail(s) \/ t = Tail(s)
      BY <2>2
    <2>5. Reheaded(s, g, t)
      BY <2>1, <2>3, <2>4, HeadReplaced
    <2>. QED BY <2>3, <2>5 DEF Reheaded
  <1>14. CommentsPhase(r)'
    <2>1. CASE r.todo = Tail(s)
      <3>1. Rising(s) /\ Listed(s) /\ s # <<>>
        BY <1>0, <1>2
      <3>2. \A n \in 1..Len(Tail(s)) : s[1].key < Tail(s)[n].key
        BY <3>1, RisingTail
      <3>3. \A n \in 1..Len(Tail(s)) : Tail(s)[n].key # i
        <4>1. \A n \in 1..Len(s) : s[n].key \in Nat
          BY <1>2, GHKnown DEF Speech, IssueKeys
        <4>2. s[1].key = i /\ \A n \in 1..Len(Tail(s)) : Tail(s)[n].key \in Nat
          BY <1>2, <4>1
        <4>. QED BY <3>2, <4>2
      <3>4. \A n \in 1..Len(Tail(s)) : Speech(Tail(s)[n])'
        BY <1>2, <1>12, <3>3
      <3>. QED BY <1>13, <2>1, <3>4 DEF CommentsPhase
    <2>2. CASE g.bodies # {}
      <3>1. \A n \in 1..Len(r.todo) : Speech(r.todo[n])'
        BY <1>11, <1>12, <1>13, <2>2
      <3>. QED BY <1>13, <3>1 DEF CommentsPhase
    <2>. QED BY <1>4, <1>6, <2>1, <2>2
  <1>15. RunFits(r)'
    BY <1>0, <1>1, <1>6, <1>14, GHKnown DEF RunFits
  <1>. QED BY <1>7, <1>8, <1>9, <1>10, <1>15, GHArrives

\* A set that is listed: each of it once.
LEMMA GHSetToSeq ==
    ASSUME NEW S, IsFiniteSet(S), NEW s, s = GH!SetToSeq(S)
    PROVE  s \in Seq(S) /\ \A m, n \in 1..Len(s) : s[m] = s[n] => m = n
  <1>1. GH!Cardinality(S) = Cardinality(S)
    BY DEF GH!Cardinality, Cardinality
  <1>2. Cardinality(S) \in Nat /\ \E f \in [1..Cardinality(S) -> S] : GH!IsInjective(f)
    BY FS_CardinalityType DEF ExistsBijection, Bijection, Injection, IsInjective, GH!IsInjective
  <1>3. s \in [1..Cardinality(S) -> S] /\ GH!IsInjective(s)
    BY <1>1, <1>2 DEF GH!SetToSeq
  <1>4. s \in Seq(S) /\ 1..Len(s) = DOMAIN s
    BY <1>2, <1>3
  <1>. QED BY <1>3, <1>4 DEF GH!IsInjective

\* The own tasks are listed, each once.
LEMMA GHListTasks ==
    ASSUME GHOnceInv, GH!ListTasks
    PROVE  GHOnceInv'
  <1>. DEFINE own == {i \in 1..Len(odoo) : GH!OnlyInOdoo(odoo[i])}
              rows(ids) == {[key |-> i, text |-> odoo[i].text] : i \in ids}
              Exports(ids) == [run EXCEPT !.mem.phase = "tasks", !.todo = GH!SetToSeq(rows(ids))]
  <1>0. /\ UNCHANGED <<odoo, source, reviews>> /\ run.pc = "next" /\ run.mem.phase = "comments"
        /\ \E ids \in {own, {}} : Well(Exports(ids)) \/ Ill(Exports(ids))
    <2>1. /\ UNCHANGED <<odoo, source, reviews>> /\ run.pc = "next" /\ run.mem.phase = "comments"
          /\ GH!Well(Exports(IF run.mem.project THEN own ELSE {})) \/ GH!Ill(Exports({}))
      BY DEF GH!ListTasks, GH!Over
    <2>. HIDE DEF own, Exports
    <2>. QED BY <2>1, GHShares
  <1>1. Fields \subseteq DOMAIN run /\ {"phase", "project", "snap", "out"} \subseteq DOMAIN run.mem
    BY <1>0, GHKnown DEF RunFits, GHPlaces
  <1>2. \A ids : LET r == Exports(ids) IN
            /\ DOMAIN r = DOMAIN run /\ r.pc = "next" /\ r.cache = run.cache
            /\ DOMAIN r.mem = DOMAIN run.mem /\ r.mem.phase = "tasks" /\ r.todo = GH!SetToSeq(rows(ids))
    BY <1>0, <1>1 DEF Fields
  <1>. HIDE DEF Exports
  <1>3. PICK ids \in {own, {}} : Well(Exports(ids)) \/ Ill(Exports(ids))
    BY <1>0
  <1>4. IsFiniteSet(ids) /\ \A i \in ids : Own(i)
    <2>1. IsFiniteSet(1..Len(odoo))
      BY GHKnown, FS_Interval
    <2>2. ids \subseteq 1..Len(odoo) /\ \A i \in ids : Own(i)
      BY DEF Own, GH!OnlyInOdoo
    <2>. QED BY <2>1, <2>2, FS_Subset
  <1>5. IsFiniteSet(rows(ids))
    <2>1. [i \in ids |-> [key |-> i, text |-> odoo[i].text]] \in Surjection(ids, rows(ids))
      BY DEF Surjection
    <2>. QED BY <1>4, <2>1, FS_Surjection
  <1>6. (\A row \in rows(ids) : Own(row.key)) /\ \A row, other \in rows(ids) : row.key = other.key => row = other
    <2>1. \A row \in rows(ids) : row.key \in ids /\ row = [key |-> row.key, text |-> odoo[row.key].text]
      OBVIOUS
    <2>. HIDE DEF rows
    <2>. QED BY <1>4, <2>1
  <1>. PICK S, r : S = rows(ids) /\ r = Exports(ids)
    OBVIOUS
  <1>. HIDE DEF rows
  <1>7. r.todo \in Seq(S) /\ \A m, n \in 1..Len(r.todo) : r.todo[m] = r.todo[n] => m = n
    BY <1>2, <1>5, GHSetToSeq
  <1>8. TasksPhase(r)
    <2>1. \A n \in 1..Len(r.todo) : r.todo[n] \in S
      BY <1>7
    <2>. QED BY <1>2, <1>6, <1>7, <2>1 DEF TasksPhase, Listed
  <1>9. RunFits(r)
    BY <1>1, <1>2, <1>8, GHKnown DEF RunFits
  <1>. QED BY <1>0, <1>2, <1>3, <1>9, GHStays

\* Different keys stay different without the first.
LEMMA DistinctTail ==
    ASSUME NEW s, Listed(s), s # <<>>, \A m, n \in 1..Len(s) : s[m].key = s[n].key => m = n
    PROVE  /\ \A m, n \in 1..Len(Tail(s)) : Tail(s)[m].key = Tail(s)[n].key => m = n
           /\ \A n \in 1..Len(Tail(s)) : Tail(s)[n].key # s[1].key
  <1>1. /\ 1 \in 1..Len(s) /\ Len(s) \in Nat
        /\ \A n \in 1..Len(Tail(s)) : n + 1 \in 1..Len(s) /\ Tail(s)[n] = s[n + 1]
    BY TailOf
  <1>2. ASSUME NEW m \in 1..Len(Tail(s)), NEW n \in 1..Len(Tail(s)), Tail(s)[m].key = Tail(s)[n].key PROVE m = n
    <2>1. m + 1 \in 1..Len(s) /\ n + 1 \in 1..Len(s) /\ s[m + 1].key = s[n + 1].key
      BY <1>1, <1>2
    <2>2. m + 1 = n + 1
      BY <2>1
    <2>. QED BY <2>2
  <1>3. ASSUME NEW n \in 1..Len(Tail(s)), Tail(s)[n].key = s[1].key PROVE FALSE
    <2>1. n + 1 \in 1..Len(s) /\ s[n + 1].key = s[1].key
      BY <1>1, <1>3
    <2>2. n + 1 = 1
      BY <1>1, <2>1
    <2>. QED BY <2>2
  <1>. QED BY <1>2, <1>3

\* A task is made into an issue: none, one or two, of which the last is adopted if the answer
\* says which it is.
LEMMA GHPushTask ==
    ASSUME GHOnceInv, GH!PushTask
    PROVE  GHOnceInv'
  <1>. DEFINE task == Head(run.todo)
              taken == GH!TakenUp(run, task)
              withheld == GH!Withheld(taken)
              failed == GH!Failed(GH!Pushed(taken))
              created == GH!Onward(GH!Counted(GH!Pushed(taken), "created"))
              at(n) == [key |-> Len(source.issues) + n, id |-> task.key]
              Answered(n) == [GH!Pushed(taken) EXCEPT !.pc = "adopt", !.at = at(n)]
              MadeOne(n, text) == source' = [source EXCEPT !.issues = @ \o [i \in 1..n |-> GH!Issue(text, task.key)]]
  <1>0. /\ UNCHANGED <<odoo, reviews>> /\ run.pc = "next" /\ run.mem.phase = "tasks" /\ run.todo # <<>>
        /\ \/ UNCHANGED source /\ Well(withheld)
           \/ \E text : \/ \E n \in 0..1 : MadeOne(n, text) /\ (Ill(failed) \/ Ill(created))
                        \/ \E n \in 1..2 : /\ MadeOne(n, text)
                                           /\ (Well(Answered(n)) /\ n = 1) \/ Ill(Answered(n))
    <2>1. GH!Phase("tasks") => run.pc = "next" /\ run.mem.phase = "tasks" /\ run.todo # <<>>
      BY SMTT(30) DEF GH!Phase
    <2>2. /\ UNCHANGED <<odoo, reviews>> /\ GH!Phase("tasks")
          /\ \/ GH!Well(withheld) /\ UNCHANGED source
             \/ MadeOne(1, task.text) /\ GH!Well(Answered(1))
             \/ MadeOne(0, task.text) /\ GH!Ill(failed)
             \/ MadeOne(1, task.text) /\ GH!Ill(failed)
             \/ MadeOne(2, task.text) /\ GH!Ill(Answered(2))
             \/ MadeOne(1, GH!Unlabelled(task.text)) /\ GH!Ill(Answered(1))
             \/ MadeOne(1, task.text) /\ GH!Ill(created)
      BY DEF GH!PushTask, GH!Send
    <2>3. 0 \in 0..1 /\ 1 \in 0..1 /\ 1 \in 1..2 /\ 2 \in 1..2
      BY SMTT(30)
    <2>. HIDE DEF MadeOne, task, withheld, failed, created, Answered
    <2>. QED BY <2>1, <2>2, <2>3, GHShares
  <1>1. /\ Fields \subseteq DOMAIN run /\ {"phase", "project", "snap", "out"} \subseteq DOMAIN run.mem
        /\ TasksPhase(run)
    BY SMTT(30), <1>0, GHKnown DEF RunFits, GHPlaces
  <1>2. /\ \A n \in 1..Len(run.todo) : Own(run.todo[n].key)
        /\ \A m, n \in 1..Len(run.todo) : run.todo[m].key = run.todo[n].key => m = n
        /\ 1 \in 1..Len(run.todo) /\ task = run.todo[1] /\ Listed(Tail(run.todo))
        /\ \A n \in 1..Len(Tail(run.todo)) : n + 1 \in 1..Len(run.todo) /\ Tail(run.todo)[n] = run.todo[n + 1]
    BY <1>0, <1>1, TailOf DEF TasksPhase
  <1>3. /\ Own(task.key)
        /\ \A m, n \in 1..Len(Tail(run.todo)) : Tail(run.todo)[m].key = Tail(run.todo)[n].key => m = n
        /\ \A n \in 1..Len(Tail(run.todo)) : Tail(run.todo)[n].key # task.key
    <2>1. Listed(run.todo)
      BY <1>1 DEF TasksPhase
    <2>. QED BY <1>0, <1>2, <2>1, DistinctTail
  <1>4. \A r \in {withheld, failed, created} :
            /\ DOMAIN r = DOMAIN run /\ r.pc = "next" /\ r.cache = run.cache /\ r.mem = run.mem
            /\ r.todo = Tail(run.todo)
    <2>1. DOMAIN taken = DOMAIN run /\ taken.cache = run.cache /\ taken.mem = run.mem /\ taken.todo = Tail(run.todo)
      BY <1>1 DEF GH!TakenUp, Fields
    <2>. HIDE DEF taken
    <2>2. /\ DOMAIN withheld = DOMAIN run /\ withheld.pc = "next" /\ withheld.cache = run.cache
          /\ withheld.mem = run.mem /\ withheld.todo = Tail(run.todo)
      BY <1>1, <2>1 DEF GH!Withheld, GH!Onward, GH!Counted, Fields
    <2>3. /\ DOMAIN failed = DOMAIN run /\ failed.pc = "next" /\ failed.cache = run.cache
          /\ failed.mem = run.mem /\ failed.todo = Tail(run.todo)
      BY <1>1, <2>1 DEF GH!Pushed, GH!Wrote, GH!Failed, GH!Onward, GH!Counted, Fields
    <2>4. /\ DOMAIN created = DOMAIN run /\ created.pc = "next" /\ created.cache = run.cache
          /\ created.mem = run.mem /\ created.todo = Tail(run.todo)
      BY <1>1, <2>1 DEF GH!Pushed, GH!Wrote, GH!Onward, GH!Counted, Fields
    <2>. HIDE DEF withheld, failed, created
    <2>. QED BY <2>2, <2>3, <2>4
  <1>5. \A n : LET r == Answered(n) IN
            /\ DOMAIN r = DOMAIN run /\ r.pc = "adopt" /\ r.cache = run.cache /\ r.mem = run.mem
            /\ r.todo = Tail(run.todo) /\ r.at.key = Len(source.issues) + n /\ r.at.id = task.key
    <2>1. DOMAIN taken = DOMAIN run /\ taken.cache = run.cache /\ taken.mem = run.mem /\ taken.todo = Tail(run.todo)
      BY <1>1 DEF GH!TakenUp, Fields
    <2>2. \A n : at(n).key = Len(source.issues) + n /\ at(n).id = task.key
      OBVIOUS
    <2>. HIDE DEF taken, at
    <2>. QED BY <1>1, <2>1, <2>2 DEF GH!Pushed, GH!Wrote, Fields
  <1>. HIDE DEF withheld, failed, created, Answered, taken, at
  <1>6. CASE UNCHANGED source /\ Well(withheld)
    <2>1. TasksPhase(withheld)
      <3>1. withheld.todo = Tail(run.todo) /\ withheld.pc # "adopt"
        BY <1>4
      <3>2. \A n \in 1..Len(Tail(run.todo)) : Own(Tail(run.todo)[n].key)
        BY <1>2
      <3>3. Listed(Tail(run.todo))
        BY <1>2
      <3>. QED BY <1>3, <3>1, <3>2, <3>3 DEF TasksPhase
    <2>2. RunFits(withheld)
      BY <1>0, <1>1, <1>4, <2>1, GHKnown DEF RunFits
    <2>. QED BY <1>0, <1>4, <1>6, <2>2, GHStays
  <1>7. ASSUME NEW n \in 0..2, NEW text, MadeOne(n, text), NEW r, Well(r) \/ Ill(r), n = 2 => Ill(r),
               /\ DOMAIN r = DOMAIN run /\ r.cache = run.cache /\ r.mem = run.mem
               /\ r.todo = Tail(run.todo),
               \/ r.pc = "next" /\ n \in 0..1 /\ Ill(r)
               \/ r.pc = "adopt" /\ n > 0 /\ r.at.key = Len(source.issues) + n /\ r.at.id = task.key
        PROVE  GHOnceInv'
    <2>1. Becomes(r) /\ Counts
      BY <1>1, <1>7, TurnsInto DEF Becomes
    <2>2. run'.pc = r.pc /\ run'.at = r.at /\ (Ill(r) => mishaps' = mishaps + 1)
      BY <2>1 DEF Becomes, Ill
    <2>. PICK t, issue, s : t = task.key /\ issue = GH!Issue(text, t) /\ s = run.todo
      OBVIOUS
    <2>3. {"text", "thread", "origin"} \subseteq DOMAIN issue /\ issue.origin = t /\ issue.thread = GH!EmptyBag
      BY DEF GH!Issue
    <2>4. source' = [source EXCEPT !.issues = @ \o [i \in 1..n |-> issue]]
      BY <1>7
    <2>5. /\ run'.pc = "adopt" => run'.at.id = t
          /\ n = 2 => run'.pc = "adopt" /\ mishaps' = mishaps + 1
          /\ n = 1 => run'.pc = "adopt" \/ mishaps' = mishaps + 1
      BY <1>7, <2>2
    <2>. HIDE DEF MadeOne, task
    <2>6. GHWorld' /\ Kept({}, {}) /\ Len(source'.issues) = Len(source.issues) + n
      BY <1>0, <1>3, <2>1, <2>3, <2>4, <2>5, MadeWorld, GHKnown
    <2>7. ReviewsFit' /\ UpsertFits'
      BY <1>0, <1>7, <2>1, ReviewsKept, UpsertQuiet, GHKnown DEF SameHand, Becomes
    <2>8. \A u : Own(u) => Own(u)'
      BY <2>6 DEF Kept
    <2>9. r.pc = "adopt" => r.at.key \in IssueKeys' /\ Copies(r.at.key)' <= mishaps'
      <3>. SUFFICES ASSUME r.pc = "adopt" PROVE r.at.key \in IssueKeys' /\ Copies(r.at.key)' <= mishaps'
        OBVIOUS
      <3>. PICK key : key = r.at.key
        OBVIOUS
      <3>1. key = Len(source.issues) + n /\ n > 0 /\ Len(source.issues) \in Nat
        BY <1>7, GHKnown
      <3>2. key \in IssueKeys'
        BY <2>6, <3>1 DEF IssueKeys
      <3>3. Indices(key) = {}
        <4>1. \A i \in 1..Len(odoo) : odoo[i].key # key
          <5>. SUFFICES ASSUME NEW i \in 1..Len(odoo) PROVE odoo[i].key # key
            OBVIOUS
          <5>1. odoo[i].key \in IssueKeys \/ odoo[i].key = -i
            BY GHKnown DEF GHShape
          <5>2. CASE odoo[i].key \in IssueKeys
            BY <3>1, <5>2 DEF IssueKeys
          <5>3. CASE odoo[i].key = -i
            BY <3>1, <5>3, GHKnown
          <5>. QED BY <5>1, <5>2, <5>3
        <4>. QED BY <4>1 DEF Indices
      <3>4. Copies(key)' = 0
        BY <1>0, <3>3, FS_EmptySet DEF Copies, Indices
      <3>5. mishaps' \in Nat
        BY <2>1, GHKnown DEF Counts
      <3>. QED BY <3>2, <3>4, <3>5
    <2>10. TasksPhase(r)'
      <3>1. /\ Listed(r.todo)
            /\ \A j \in 1..Len(r.todo) : j + 1 \in 1..Len(s) /\ r.todo[j] = s[j + 1] /\ Own(s[j + 1].key)'
        BY <1>2, <1>7, <2>8
      <3>2. \A m, j \in 1..Len(r.todo) : r.todo[m].key = r.todo[j].key => m = j
        BY <1>3, <1>7
      <3>3. \A j \in 1..Len(r.todo) : r.todo[j].key # t
        BY <1>3, <1>7
      <3>4. r.pc = "adopt" => r.at.id = t /\ Own(t)'
        BY <1>3, <1>7, <2>8
      <3>. QED BY <2>9, <3>1, <3>2, <3>3, <3>4 DEF TasksPhase
    <2>11. RunFits(r)'
      BY <1>0, <1>1, <1>7, <2>10, GHKnown DEF RunFits
    <2>. QED BY <2>1, <2>6, <2>7, <2>11, GHArrives
  <1>8. ASSUME NEW n \in 0..1, NEW text, MadeOne(n, text), NEW r \in {failed, created}, Ill(r) PROVE GHOnceInv'
    <2>1. n \in 0..2 /\ n # 2
      OBVIOUS
    <2>. HIDE DEF MadeOne
    <2>. QED BY <1>4, <1>7, <1>8, <2>1
  <1>9. ASSUME NEW n \in 1..2, NEW text, MadeOne(n, text), (Well(Answered(n)) /\ n = 1) \/ Ill(Answered(n)) PROVE GHOnceInv'
    <2>1. n \in 0..2 /\ n > 0 /\ (n = 1 => n # 2)
      OBVIOUS
    <2>. PICK r : r = Answered(n)
      OBVIOUS
    <2>. HIDE DEF MadeOne
    <2>. QED BY <1>5, <1>7, <1>9, <2>1
  <1>. HIDE DEF MadeOne
  <1>. QED BY <1>0, <1>6, <1>8, <1>9

\* The task becomes that of the issue made from it, or stays one that has none.
LEMMA GHAdopt ==
    ASSUME GHOnceInv, GH!Adopt
    PROVE  GHOnceInv'
  <1>. DEFINE created == GH!Onward(GH!Counted(run, "created"))
              failed == GH!Failed(run)
              rekeyed == [odoo EXCEPT ![run.at.id].key = run.at.key]
  <1>0. /\ UNCHANGED <<source, reviews>> /\ run.pc = "adopt"
        /\ \E r \in {created, failed} : \/ odoo' = rekeyed /\ (Well(r) \/ Ill(r))
                                        \/ odoo' = odoo /\ Ill(r)
    <2>. DEFINE Sent(n) == odoo' = IF n = 0 THEN odoo ELSE rekeyed
    <2>1. /\ UNCHANGED <<source, reviews>> /\ run.pc = "adopt"
          /\ \/ Sent(1) /\ GH!Well(created)
             \/ Sent(0) /\ GH!Ill(failed)
             \/ Sent(1) /\ GH!Ill(failed)
             \/ Sent(2) /\ GH!Ill(created)
      BY DEF GH!Adopt, GH!Send
    <2>. HIDE DEF created, failed, rekeyed
    <2>. QED BY <2>1, GHShares
  <1>1. /\ Fields \subseteq DOMAIN run /\ {"phase", "project", "snap", "out"} \subseteq DOMAIN run.mem
        /\ run.mem.phase = "tasks" /\ TasksPhase(run)
    BY <1>0, GHKnown DEF RunFits, GHPlaces
  <1>2. \A r \in {created, failed} :
            /\ DOMAIN r = DOMAIN run /\ r.pc = "next" /\ r.cache = run.cache /\ r.mem = run.mem
            /\ r.todo = run.todo
    BY <1>1 DEF GH!Onward, GH!Failed, GH!Counted, Fields
  <1>. HIDE DEF created, failed
  <1>3. PICK r : /\ DOMAIN r = DOMAIN run /\ r.pc = "next" /\ r.cache = run.cache /\ r.mem = run.mem
                 /\ r.todo = run.todo
                 /\ \/ odoo' = rekeyed /\ (Well(r) \/ Ill(r))
                    \/ odoo' = odoo /\ Ill(r)
    BY <1>0, <1>2
  <1>4. Becomes(r) /\ Counts
    BY <1>1, <1>3, TurnsInto DEF Becomes
  <1>5. ReviewsFit'
    BY <1>0, <1>4, ReviewsKept, GHKnown
  <1>6. CASE odoo' = odoo /\ Ill(r)
    <2>1. TasksPhase(r)
      BY <1>1, <1>3 DEF TasksPhase
    <2>2. RunFits(r)
      BY <1>1, <1>3, <2>1, GHKnown DEF RunFits
    <2>3. SameIssues /\ mishaps' = mishaps + 1
      BY <1>0, <1>6, GHKnown DEF SameIssues, Ill
    <2>. QED BY <1>3, <1>4, <1>5, <1>6, <2>2, <2>3, GHQuiet
  <1>7. CASE odoo' = rekeyed
    <2>. PICK t, key : t = run.at.id /\ key = run.at.key
      OBVIOUS
    <2>1. /\ Own(t) /\ t \in 1..Len(odoo) /\ odoo[t].key < 0 /\ key \in IssueKeys /\ Copies(key) <= mishaps
          /\ \A n \in 1..Len(run.todo) : run.todo[n].key # t
      BY <1>0, <1>1 DEF TasksPhase, Own
    <2>2. odoo' = Put(odoo, t, [odoo[t] EXCEPT !.key = key])
      BY <1>7 DEF Put
    <2>. HIDE DEF rekeyed
    <2>3. \A u \in 1..Len(odoo) : Adopting(u) => u = t
      BY DEF Adopting
    <2>4. GHWorld' /\ Kept({}, {t})
      BY <1>0, <1>4, <2>1, <2>2, <2>3, RekeyWorld, GHKnown
    <2>5. UpsertFits'
      <3>1. \A c \in run.cache : c.key # odoo[t].key
        <4>1. \A c \in run.cache : c.key \in Nat \ {0}
          BY GHKnown DEF RunFits
        <4>2. odoo[t].key = -t
          BY <2>1, GHKnown DEF GHShape, IssueKeys
        <4>. QED BY <2>1, <4>1, <4>2
      <3>2. "key" \in DOMAIN odoo[t]
        BY <2>1, GHKnown DEF GHShape
      <3>3. Fields \subseteq DOMAIN run' /\ run'.pc # "apply" /\ run'.cache = run.cache
        BY <1>1, <1>3, <1>4 DEF Becomes
      <3>. QED BY <1>4, <2>1, <2>2, <3>1, <3>2, <3>3, RekeyFits, GHKnown
    <2>6. \A u : Own(u) /\ u # t => Own(u)'
      BY <2>4 DEF Kept
    <2>7. TasksPhase(r)'
      <3>1. \A n \in 1..Len(r.todo) : Own(r.todo[n].key) /\ r.todo[n].key # t
        BY <1>1, <1>3, <2>1 DEF TasksPhase
      <3>. QED BY <1>1, <1>3, <2>6, <3>1 DEF TasksPhase
    <2>8. RunFits(r)'
      BY <1>1, <1>3, <2>7, GHKnown DEF RunFits
    <2>. QED BY <1>4, <1>5, <2>4, <2>5, <2>8, GHArrives
  <1>. QED BY <1>3, <1>6, <1>7

\* A run is over.
LEMMA GHFinish ==
    ASSUME GHOnceInv, GH!Finish
    PROVE  GHOnceInv'
  <1>. DEFINE over == GH!Synced([run EXCEPT !.mem = {}, !.cache = {}])
  <1>0. UNCHANGED <<odoo, source, reviews>> /\ run.pc = "next" /\ Well(over)
    BY GHShares DEF GH!Finish, GH!Over
  <1>1. DOMAIN over = DOMAIN run /\ over.pc = "log" /\ over.cache = {}
    BY GHKnown DEF GH!Synced, Fields
  <1>. HIDE DEF over
  <1>2. RunFits(over)
    BY <1>1 DEF RunFits, GHPlaces
  <1>. QED BY <1>0, <1>1, <1>2, GHStays

\* A run begins, writes its log and is killed with no issue and no task in hand.
LEMMA GHEnds ==
    ASSUME GHOnceInv, GH!Start \/ GH!WriteLog \/ GH!Crash
    PROVE  GHOnceInv'
  <1>1. UNCHANGED <<odoo, source, reviews>>
    BY DEF GH!Start, GH!Begin, GH!WriteLog, GH!Crash
  <1>2. /\ UpsertFits' /\ Counts /\ run'.pc \in {"fetch", "done", "raised", "idle"} /\ run'.cache = {}
        /\ run.pc = "adopt" => mishaps' = mishaps + 1
    <2>1. CASE GH!Start
      <3>1. Begin("fetch", <<>>)
        BY <2>1, GHSame DEF GH!Start
      <3>2. UpsertFits' /\ Counts /\ run'.pc = "fetch"
        BY <3>1, BeginFits, GHKnown DEF Counts
      <3>3. run'.cache = {} /\ run.pc # "adopt"
        BY <3>1 DEF Begin, Idle, Ended
      <3>. QED BY <3>2, <3>3
    <2>2. CASE GH!WriteLog
      <3>1. WriteLog
        BY <2>2, GHSame
      <3>2. UpsertFits' /\ Counts /\ run'.pc \in {"done", "raised"}
        BY <3>1, EndFits, GHKnown
      <3>3. run'.cache = {} /\ run.pc # "adopt"
        BY <3>1 DEF WriteLog, Well, Ill, Idle
      <3>. QED BY <3>2, <3>3
    <2>3. CASE GH!Crash
      <3>1. Ill(Idle)
        BY <2>3, GHSame DEF GH!Crash
      <3>2. UpsertFits' /\ Counts /\ run'.pc = "idle"
        BY <1>1, <3>1, CrashFits, GHKnown
      <3>3. run'.cache = {} /\ mishaps' = mishaps + 1
        BY <3>1 DEF Ill, Idle
      <3>. QED BY <3>2, <3>3
    <2>. QED BY <2>1, <2>2, <2>3
  <1>3. ReviewsFit'
    BY <1>1, <1>2, ReviewsKept, GHKnown
  <1>4. SameIssues
    BY <1>1, GHKnown DEF SameIssues
  <1>5. GHWorld'
    BY <1>1, <1>2, <1>4, QuietWorld, GHKnown DEF Adopting
  <1>. QED BY <1>2, <1>3, <1>5, GHRests DEF GHPlaces

\* One more is what is appended.
LEMMA AppendIsMore ==
    ASSUME NEW s, Listed(s), NEW e
    PROVE  Append(s, e) = More(s, 1, e)
  <1>1. <<e>> = [i \in 1..1 |-> e]
    OBVIOUS
  <1>2. PICK S : s \in Seq(S)
    BY DEF Listed
  <1>3. s \in Seq(S \cup {e}) /\ e \in S \cup {e}
    BY <1>2
  <1>4. Append(s, e) = s \o <<e>>
    BY <1>3
  <1>. QED BY <1>1, <1>4 DEF More

\* An issue that is being adopted has as many tasks as it had, when another key is added.
LEMMA AdoptedKept ==
    ASSUME GHOnceInv, Counts, NEW key, NEW n \in 0..2, Grown(key, n),
           NEW q, q = run, n > 0 => Copies(key) = 0 /\ (n <= mishaps' \/ q.at.key # key)
    PROVE  q.pc = "adopt" => Copies(q.at.key)' <= mishaps'
  <1>. SUFFICES ASSUME q.pc = "adopt" PROVE Copies(q.at.key)' <= mishaps'
    OBVIOUS
  <1>. PICK m, k, j : m = mishaps /\ k = mishaps' /\ j = q.at.key
    OBVIOUS
  <1>1. m \in Nat /\ k \in Nat /\ m <= k
    BY GHKnown DEF Counts
  <1>2. Copies(j) \in Nat /\ Copies(j) <= m
    BY GHKnown, CopiesType DEF RunFits, GHPlaces, TasksPhase
  <1>3. Copies(j)' = Copies(j) + (IF j = key THEN n ELSE 0)
    BY GHKnown, CopiesGrow
  <1>4. CASE j = key /\ n > 0
    <2>1. Copies(j)' = n /\ n <= k
      BY <1>3, <1>4
    <2>. QED BY <2>1
  <1>5. CASE j # key \/ n = 0
    <2>1. Copies(j)' = Copies(j)
      BY <1>2, <1>3, <1>5
    <2>. QED BY <1>1, <1>2, <2>1
  <1>. QED BY <1>4, <1>5

\* Another run imports an issue while this one is wherever it is.
LEMMA GHOtherRun ==
    ASSUME GHOnceInv, GH!OtherRun
    PROVE  GHOnceInv'
  <1>1. PICK i \in 1..Len(source.issues) :
            LET task == GH!Task(i, source.issues[i].text, IF source.settings.comments THEN source.issues[i].thread ELSE GH!EmptyBag) IN
            GH!Overlap(task, LAMBDA old : [task EXCEPT !.chatter = old.chatter])
    BY DEF GH!OtherRun
  <1>. DEFINE task == GH!Task(i, source.issues[i].text, IF source.settings.comments THEN source.issues[i].thread ELSE GH!EmptyBag)
              f == First(Indices(i))
              old == [task EXCEPT !.chatter = odoo[f].chatter]
  <1>2. task.key = i /\ task.chatter = {} /\ {"key", "text", "chatter"} \subseteq DOMAIN task
    BY DEF GH!Task
  <1>3. old.key = i /\ old.chatter = odoo[f].chatter /\ {"key", "text", "chatter"} \subseteq DOMAIN old
    BY DEF GH!Task
  <1>4. /\ Ill(run) /\ UNCHANGED <<source, reviews>>
        /\ odoo' = IF Indices(task.key) = {} THEN Append(odoo, task)
                   ELSE IF odoo[First(Indices(task.key))].hash = task.hash THEN odoo
                   ELSE [odoo EXCEPT ![First(Indices(task.key))] = old]
    BY <1>1, <1>2, GHShares DEF GH!Overlap
  <1>. PICK fresh, it, q : fresh = task /\ it = old /\ q = run
    OBVIOUS
  <1>. HIDE DEF task, old
  <1>5. PICK n \in 0..1 : /\ UpsertFits' /\ mishaps' = mishaps + 1
                          /\ Grown(i, n) /\ (n > 0 => Indices(i) = {})
    BY <1>2, <1>3, <1>4, OverlapDone, GHKnown
  <1>6. Becomes(q) /\ Counts
    BY <1>4, TurnsInto, GHKnown DEF Becomes
  <1>7. ReviewsFit'
    BY <1>4, <1>6, ReviewsKept, GHKnown
  <1>8. i \in IssueKeys
    BY DEF IssueKeys
  <1>9. GHWorld' /\ Kept({}, {})
    <2>1. CASE Indices(i) = {}
      <3>1. odoo' = More(odoo, 1, fresh)
        BY <1>2, <1>4, <2>1, AppendIsMore, GHKnown
      <3>2. fresh.key \in IssueKeys /\ fresh.chatter = {} /\ {"key", "text", "chatter"} \subseteq DOMAIN fresh /\ 1 \in 0..2
        BY <1>2, <1>8
      <3>. QED BY <1>4, <1>5, <1>6, <3>1, <3>2, StoredWorld, GHKnown
    <2>2. CASE Indices(i) # {} /\ odoo' = [odoo EXCEPT ![f] = old]
      <3>1. f \in 1..Len(odoo) /\ odoo[f].key = i
        <4>1. Indices(i) \in SUBSET Nat
          BY GHKnown DEF Indices
        <4>2. f \in Indices(i)
          BY <2>2, <4>1, FirstIsIn
        <4>. QED BY <4>2 DEF Indices
      <3>. PICK g : g = f
        OBVIOUS
      <3>2. /\ odoo' = Put(odoo, g, it) /\ it.key = odoo[g].key /\ it.chatter = odoo[g].chatter /\ g \in 1..Len(odoo)
            /\ {"key", "text", "chatter"} \subseteq DOMAIN it
        BY <1>3, <2>2, <3>1 DEF Put
      <3>. QED BY <1>4, <1>5, <1>6, <3>2, StoredWorld, GHKnown
    <2>3. CASE odoo' = odoo
      <3>1. SameIssues
        BY <1>4, GHKnown DEF SameIssues
      <3>. QED BY <1>5, <1>6, <2>3, <3>1, QuietWorld, GHKnown
    <2>. QED BY <1>2, <1>4, <2>1, <2>2, <2>3
  <1>10. q.pc = "adopt" => Copies(q.at.key)' <= mishaps'
    <2>1. n > 0 => Copies(i) = 0 /\ n <= mishaps'
      <3>1. Indices(i) = {} => Copies(i) = 0
        BY GHKnown, CopiesType
      <3>2. \A a \in Nat : n <= a + 1
        OBVIOUS
      <3>. QED BY <1>5, <3>1, <3>2, GHKnown
    <2>2. n \in 0..2
      OBVIOUS
    <2>. QED BY <1>5, <1>6, <2>1, <2>2, AdoptedKept
  <1>. QED BY <1>5, <1>6, <1>7, <1>9, <1>10, GHLasts

\* Somebody changes something: the run goes on as it was.
LEMMA GHChanged ==
    ASSUME GHOnceInv, GH!Change, NEW q, q = run
    PROVE  /\ Becomes(q) /\ Counts /\ UNCHANGED mishaps /\ SameHand /\ Fields \subseteq DOMAIN run' /\ run'.cache = run.cache
           /\ \A t \in 1..Len(odoo) : Adopting(t) => Adopting(t)'
  <1>1. /\ DOMAIN run' = DOMAIN run /\ run'.pc = run.pc /\ run'.cache = run.cache /\ run'.found = run.found
        /\ run'.at = run.at /\ run'.todo = run.todo /\ run'.mem = run.mem
        /\ UNCHANGED mishaps
    BY GHKnown DEF GH!Change, Fields
  <1>. QED BY <1>1, GHKnown DEF Becomes, Counts, SameHand, Adopting

\* Somebody edits an issue, or comments on it what nobody has said yet.
LEMMA GHEditIssue ==
    ASSUME GHOnceInv, GH!EditIssue
    PROVE  GHOnceInv'
  <1>. PICK q : q = run
    OBVIOUS
  <1>0. UNCHANGED <<odoo, reviews>> /\ GH!Change
    BY DEF GH!EditIssue
  <1>1. /\ Becomes(q) /\ Counts /\ SameHand /\ Fields \subseteq DOMAIN run' /\ run'.cache = run.cache
        /\ \A t \in 1..Len(odoo) : Adopting(t) => Adopting(t)'
    BY <1>0, GHChanged
  <1>2. UpsertFits' /\ ReviewsFit'
    BY <1>0, <1>1, UpsertQuiet, ReviewsKept, GHKnown
  <1>3. GHWorld' /\ Kept({}, {})
    <2>1. ASSUME NEW i, NEW text, source' = [source EXCEPT !.issues[i].text = text] PROVE GHWorld' /\ Kept({}, {})
      <3>1. SameIssues
        BY <2>1, TextChanges, GHKnown
      <3>. QED BY <1>0, <1>1, <3>1, QuietWorld, GHKnown
    <2>2. ASSUME NEW i \in 1..Len(source.issues), NEW b, ~GH!Said(b),
                 source' = [source EXCEPT !.issues[i].thread = GH!(+)(@, GH!SetToBag({b}))]
          PROVE  GHWorld' /\ Kept({}, {})
      <3>1. \A s, t : GH!(+)(s, t) = s (+) t
        BY DEF GH!(+), (+), GH!BagToSet, BagToSet
      <3>2. GH!SetToBag({b}) = [y \in {b} |-> 1]
        BY DEF GH!SetToBag
      <3>3. source' = Commented(i, b, 1)
        BY <2>2, <3>1, <3>2 DEF Commented
      <3>4. ~Chats(b) /\ b \notin DOMAIN Thread(i) /\ i \in IssueKeys
        BY <2>2 DEF GH!Said, Chats, Thread, GH!BagIn, GH!BagToSet, IssueKeys
      <3>5. 1 \in 1..2
        OBVIOUS
      <3>6. GHWorld' /\ (~Chats(b) => Kept({}, {}))
        BY <1>0, <1>1, <3>3, <3>4, <3>5, ThreadWorld, GHKnown
      <3>. QED BY <3>4, <3>6
    <2>. QED BY <2>1, <2>2 DEF GH!EditIssue
  <1>4. q.pc = "adopt" => Copies(q.at.key)' <= mishaps'
    <2>1. Grown("none", 0) /\ 0 \in 0..2 /\ ~(0 > 0)
      BY <1>0, NothingGrows, GHKnown
    <2>. QED BY <1>1, <2>1, AdoptedKept
  <1>. QED BY <1>1, <1>2, <1>3, <1>4, GHLasts

\* Somebody edits a task, comments on it what nobody has said yet, or makes a new one.
LEMMA GHEditTask ==
    ASSUME GHOnceInv, GH!EditTask
    PROVE  GHOnceInv'
  <1>. PICK q : q = run
    OBVIOUS
  <1>0. UNCHANGED <<source, reviews>> /\ GH!Change
    BY DEF GH!EditTask
  <1>1. /\ Becomes(q) /\ Counts /\ SameHand /\ Fields \subseteq DOMAIN run' /\ run'.cache = run.cache
        /\ \A t \in 1..Len(odoo) : Adopting(t) => Adopting(t)'
        /\ UNCHANGED mishaps
    BY <1>0, GHChanged
  <1>2. ReviewsFit'
    BY <1>0, <1>1, ReviewsKept, GHKnown
  <1>3. \A i \in 1..Len(odoo) : {"key", "text", "chatter"} \subseteq DOMAIN odoo[i]
    BY GHKnown DEF GHShape
  <1>4. ASSUME NEW i \in 1..Len(odoo), NEW task, NEW x, odoo' = [odoo EXCEPT ![i] = task], task.key = odoo[i].key,
               {"key", "text", "chatter"} \subseteq DOMAIN task,
               \/ task.chatter = odoo[i].chatter
               \/ task.chatter = odoo[i].chatter \cup {x} /\ \A k \in IssueKeys : x \notin DOMAIN Thread(k)
        PROVE  GHOnceInv'
    <2>1. odoo' = Put(odoo, i, task)
      BY <1>4 DEF Put
    <2>2. GHWorld' /\ Kept({}, {})
      BY <1>0, <1>1, <1>4, <2>1, StoredWorld, GHKnown
    <2>3. Grown("none", 0) /\ 0 \in 0..2 /\ ~(0 > 0)
      <3>1. Listed(odoo) /\ odoo' = [odoo EXCEPT ![i] = task] /\ task.key = odoo[i].key
        BY <1>4, GHKnown
      <3>2. Grown("none", 0)
        BY <3>1, RewriteGrows
      <3>. QED BY <3>2
    <2>4. Len(odoo') = Len(odoo) /\ \A j \in 1..Len(odoo) : odoo'[j].key = odoo[j].key
      BY <2>3, GHKnown DEF Grown
    <2>5. UpsertFits'
      BY <1>1, <2>3, UpsertKept, GHKnown
    <2>6. q.pc = "adopt" => Copies(q.at.key)' <= mishaps'
      BY <1>1, <2>3, AdoptedKept
    <2>. QED BY <1>1, <1>2, <2>2, <2>5, <2>6, GHLasts
  <1>5. ASSUME NEW i \in 1..Len(odoo), NEW text, odoo' = [odoo EXCEPT ![i].text = text] PROVE GHOnceInv'
    <2>. PICK task : task = [odoo[i] EXCEPT !.text = text]
      OBVIOUS
    <2>1. /\ {"key", "text", "chatter"} \subseteq DOMAIN task /\ task.key = odoo[i].key /\ task.chatter = odoo[i].chatter
          /\ odoo' = [odoo EXCEPT ![i] = task]
      BY <1>3, <1>5
    <2>. QED BY <1>4, <2>1
  <1>6. ASSUME NEW i \in 1..Len(odoo), NEW b, ~GH!Said(b), odoo' = [odoo EXCEPT ![i].chatter = @ \cup {b}]
        PROVE  GHOnceInv'
    <2>. PICK task : task = [odoo[i] EXCEPT !.chatter = @ \cup {b}]
      OBVIOUS
    <2>1. /\ {"key", "text", "chatter"} \subseteq DOMAIN task /\ task.key = odoo[i].key
          /\ task.chatter = odoo[i].chatter \cup {b}
          /\ odoo' = [odoo EXCEPT ![i] = task]
      BY <1>3, <1>6
    <2>2. \A k \in IssueKeys : b \notin DOMAIN Thread(k)
      BY <1>6 DEF GH!Said, GH!BagIn, GH!BagToSet, IssueKeys, Thread
    <2>. QED BY <1>4, <2>1, <2>2
  <1>7. ASSUME NEW text, odoo' = Append(odoo, GH!OwnTask(Len(odoo) + 1, text)) PROVE GHOnceInv'
    <2>. PICK n, task : n = Len(odoo) + 1 /\ task = GH!OwnTask(n, text)
      OBVIOUS
    <2>1. task.key = -n /\ task.chatter = {} /\ {"key", "text", "chatter"} \subseteq DOMAIN task
      BY DEF GH!OwnTask
    <2>2. n \in Nat /\ n = Len(odoo) + 1 /\ 1 \in 0..2
      BY GHKnown
    <2>3. odoo' = More(odoo, 1, task)
      BY <1>7, AppendIsMore, GHKnown
    <2>4. GHWorld' /\ Kept({}, {})
      BY <1>0, <1>1, <2>1, <2>2, <2>3, StoredWorld, GHKnown
    <2>5. Grown(-n, 1)
      <3>1. odoo' = odoo \o [i \in 1..1 |-> task]
        BY <2>3 DEF More
      <3>. QED BY <2>1, <2>2, <3>1, AppendGrows, GHKnown
    <2>6. Copies(-n) = 0
      <3>1. \A i \in 1..Len(odoo) : odoo[i].key # -n
        <4>. SUFFICES ASSUME NEW i \in 1..Len(odoo) PROVE odoo[i].key # -n
          OBVIOUS
        <4>1. odoo[i].key \in IssueKeys \/ odoo[i].key = -i
          BY GHKnown DEF GHShape
        <4>2. CASE odoo[i].key \in IssueKeys
          BY <2>2, <4>2 DEF IssueKeys
        <4>3. CASE odoo[i].key = -i
          BY <2>2, <4>3, GHKnown
        <4>. QED BY <4>1, <4>2, <4>3
      <3>2. Indices(-n) = {}
        BY <3>1 DEF Indices
      <3>. QED BY <3>2, FS_EmptySet DEF Copies
    <2>7. q.pc \in {"apply", "adopt"} => q.at.key # -n
      <3>1. q.pc \in {"apply", "adopt"} => q.at.key \in IssueKeys
        BY GHKnown DEF RunFits, GHPlaces, IssuesPhase, TasksPhase
      <3>. QED BY <2>2, <3>1 DEF IssueKeys
    <2>8. UpsertFits'
      <3>. PICK k, m : k = -n /\ m = mishaps
        OBVIOUS
      <3>1. Copies(k) + 1 <= 1 + mishaps'
        BY <1>1, <2>6, GHKnown
      <3>2. run'.pc = "apply" => run.at.key # k
        BY <1>1, <2>7 DEF SameHand
      <3>3. \A c \in run'.cache : c \in run.cache
        BY <1>1
      <3>. QED BY <1>1, <2>2, <2>5, <3>1, <3>2, <3>3, UpsertKept, GHKnown
    <2>9. q.pc = "adopt" => Copies(q.at.key)' <= mishaps'
      BY <1>1, <2>2, <2>5, <2>6, <2>7, AdoptedKept
    <2>. QED BY <1>1, <1>2, <2>4, <2>8, <2>9, GHLasts
  <1>. QED BY <1>5, <1>6, <1>7 DEF GH!EditTask

\* A person sees to an activity.
LEMMA GHCloseReview ==
    ASSUME GHOnceInv, GH!CloseReview
    PROVE  GHOnceInv'
  <1>. PICK q : q = run
    OBVIOUS
  <1>0. UNCHANGED <<odoo, source>> /\ GH!Change
    BY DEF GH!CloseReview
  <1>1. /\ Becomes(q) /\ Counts /\ SameHand /\ Fields \subseteq DOMAIN run' /\ run'.cache = run.cache
        /\ \A t \in 1..Len(odoo) : Adopting(t) => Adopting(t)'
        /\ UNCHANGED mishaps
    BY <1>0, GHChanged
  <1>2. ReviewsFit'
    <2>1. \E k \in BagToSet(reviews) : reviews' = reviews (-) SetToBag({k})
      BY DEF GH!CloseReview, GH!BagToSet, BagToSet, GH!(-), (-), GH!SetToBag, SetToBag
    <2>. QED BY <1>1, <2>1, CloseFits, GHKnown
  <1>3. SameIssues
    BY <1>0, GHKnown DEF SameIssues
  <1>4. UpsertFits' /\ GHWorld' /\ Kept({}, {})
    BY <1>0, <1>1, <1>3, UpsertQuiet, QuietWorld, GHKnown
  <1>5. q.pc = "adopt" => Copies(q.at.key)' <= mishaps'
    <2>1. Grown("none", 0) /\ 0 \in 0..2 /\ ~(0 > 0)
      BY <1>0, NothingGrows, GHKnown
    <2>. QED BY <1>1, <2>1, AdoptedKept
  <1>. QED BY <1>1, <1>2, <1>4, <1>5, GHLasts

\* Every step of GitHub leaves things in order.
LEMMA GHOnce ==
    ASSUME GHOnceInv, GH!Next
    PROVE  GHOnceInv'
  <1>1. ASSUME GH!SyncIssue PROVE GHOnceInv'
    <2>1. run.pc = "apply"
      BY <1>1 DEF GH!SyncIssue
    <2>. QED BY <1>1, <2>1, GHSyncIssue
  <1>2. ASSUME GH!Step PROVE GHOnceInv'
    BY <1>1, <1>2, GHFetchIssues, GHEnsureProject, GHPreload, GHTakeIssue, GHReviewIssue, GHFind, GHIdentifyUpdates,
       GHPushUpdate, GHSelectThreads, GHReadChatter, GHPushComment, GHListTasks, GHPushTask, GHAdopt, GHFinish, GHEnds
    DEF GH!Step
  <1>. QED BY <1>2, GHEnds, GHOtherRun, GHEditIssue, GHEditTask, GHCloseReview DEF GH!Next

\* So no comment and no issue made from a task is there twice, but for mishaps.
LEMMA GHPostedOnce == GHOnceInv => GH!PostedOnce
  <1>. SUFFICES ASSUME GHOnceInv PROVE GH!PostedOnce
    OBVIOUS
  <1>1. \A i \in 1..Len(source.issues) : \A b \in DOMAIN source.issues[i].thread : source.issues[i].thread[b] <= 1 + mishaps
    BY GHKnown DEF GHWorld, ThreadsWithin, IssueKeys, Thread
  <1>2. \A t \in 1..Len(odoo) : Cardinality({i \in 1..Len(source.issues) : source.issues[i].origin = t}) <= 1 + mishaps
    BY GHKnown DEF GHWorld, MadeWithin, Made, MadeOf, IssueKeys
  <1>3. \A S : GH!Cardinality(S) = Cardinality(S)
    BY DEF GH!Cardinality, Cardinality
  <1>. QED BY <1>1, <1>2, <1>3 DEF GH!PostedOnce, GH!BagToSet

-------------------------------------------------------------------------------
(* From the first state to every state                                     *)

\* A connector begins with no record and no approval activity.
Blanks == run = Idle /\ odoo = <<>> /\ reviews = EmptyBag /\ mishaps = 0

\* Then everything is in order.
LEMMA InitFits ==
    ASSUME Blanks
    PROVE  /\ UpsertFits /\ ReviewsFit /\ run.pc = "idle" /\ run.cache = {}
           /\ \A key : Copies(key) = 0
  <1>1. Fields \subseteq DOMAIN Idle /\ Idle.pc = "idle" /\ Idle.cache = {}
    BY DEF Fields, Idle
  <1>2. Listed(odoo) /\ Len(odoo) = 0
    <2>1. <<>> \in Seq({}) /\ Len(<<>>) = 0
      OBVIOUS
    <2>. QED BY <2>1 DEF Blanks, Listed
  <1>3. ASSUME NEW key PROVE Copies(key) = 0
    <2>1. Indices(key) = {}
      BY <1>2 DEF Indices
    <2>. QED BY <2>1, FS_EmptySet DEF Copies
  <1>4. UpsertFits
    BY <1>1, <1>2 DEF Blanks, UpsertFits, KeysFit, CacheFits, HandFits
  <1>5. ReviewsFit
    BY DEF Blanks, ReviewsFit, EmptyBag, SetToBag, BagToSet, IsABag
  <1>. QED BY <1>1, <1>3, <1>4, <1>5 DEF Blanks

\* The empty bag of the instances is the empty bag.
LEMMA InitBlank == NG!Init \/ JP!Init \/ FF!Init \/ GH!Init => Blanks
  <1>1. /\ NG!EmptyBag = EmptyBag /\ JP!EmptyBag = EmptyBag
        /\ FF!EmptyBag = EmptyBag /\ GH!EmptyBag = EmptyBag
    BY DEF NG!EmptyBag, JP!EmptyBag, FF!EmptyBag, GH!EmptyBag, EmptyBag,
           NG!SetToBag, JP!SetToBag, FF!SetToBag, GH!SetToBag, SetToBag
  <1>. QED BY <1>1, NGSame, JPSame, FFSame, GHSame
       DEF Blanks, NG!Init, JP!Init, FF!Init, GH!Init, NG!RunInit, JP!RunInit, FF!RunInit, GH!RunInit

\* So JsonPlaceholder begins with no post anywhere.
LEMMA JPBegins == JP!Init => JPOnceInv
  <1>. SUFFICES ASSUME JP!Init PROVE JPOnceInv
    OBVIOUS
  <1>1. Blanks
    BY InitBlank
  <1>2. UpsertFits /\ ReviewsFit /\ run.pc \notin JPPlaces /\ \A key : Copies(key) = 0
    BY <1>1, InitFits DEF JPPlaces
  <1>3. JPSource
    BY DEF JP!Init, JPSource
  <1>4. JPRun /\ ~Misread
    BY <1>2 DEF JPRun, Misread
  <1>5. PostsFit
    BY <1>1, <1>2, <1>4 DEF PostsFit, PostsWithin, Blanks
  <1>. QED BY <1>2, <1>3, <1>4, <1>5 DEF JPOnceInv

\* GitHub begins with one issue, which nobody has said anything about.
LEMMA GHBegins == GH!Init => GHOnceInv
  <1>. SUFFICES ASSUME GH!Init PROVE GHOnceInv
    OBVIOUS
  <1>1. Blanks
    BY InitBlank
  <1>2. UpsertFits /\ ReviewsFit /\ run.pc \notin GHPlaces /\ run.cache = {}
    BY <1>1, InitFits DEF GHPlaces
  <1>3. PICK first, settings :
          source = [issues |-> <<GH!Issue(first, 0)>>, project |-> FALSE, settings |-> settings]
    BY DEF GH!Init
  <1>4. /\ Len(source.issues) = 1 /\ source.issues[1] = GH!Issue(first, 0) /\ Listed(source.issues)
        /\ {"issues", "project", "settings"} \subseteq DOMAIN source
    <2>1. <<GH!Issue(first, 0)>> \in Seq({GH!Issue(first, 0)})
      OBVIOUS
    <2>. QED BY <1>3, <2>1 DEF Listed
  <1>5. /\ {"text", "thread", "origin"} \subseteq DOMAIN source.issues[1]
        /\ source.issues[1].origin = 0
        /\ DOMAIN source.issues[1].thread = {} /\ IsABag(source.issues[1].thread)
    BY <1>4 DEF GH!Issue, GH!EmptyBag, GH!SetToBag, IsABag
  <1>6. Len(odoo) = 0
    BY <1>1 DEF Blanks
  <1>7. GHWorld
    <2>1. \A i \in IssueKeys : i = 1
      BY <1>4 DEF IssueKeys
    <2>2. GHShape
      BY <1>4, <1>5, <1>6, <2>1 DEF GHShape, Thread
    <2>3. ThreadsWithin(mishaps) /\ MadeWithin(mishaps)
      BY <1>5, <1>6, <2>1 DEF ThreadsWithin, MadeWithin, Thread
    <2>. QED BY <2>2, <2>3 DEF GHWorld
  <1>8. GHRun
    BY <1>2 DEF GHRun, RunFits
  <1>. QED BY <1>2, <1>7, <1>8 DEF GHOnceInv

\* What the connector at work keeps in order.
AllFits ==
    /\ provider \in Providers
    /\ provider = "nager_date"      => OnceInv
    /\ provider = "jsonplaceholder" => JPOnceInv
    /\ provider = "frankfurter"     => FFInv /\ ReviewsFit /\ mishaps \in Nat
    /\ provider = "github"          => GHOnceInv

\* It stays so when nothing changes.
LEMMA FitsIdle == AllFits /\ UNCHANGED <<vars, provider>> => AllFits'
  <1>. SUFFICES ASSUME AllFits, UNCHANGED <<vars, provider>> PROVE AllFits'
    OBVIOUS
  <1>1. UNCHANGED <<run, source, odoo, reviews, mishaps, provider>>
    BY DEF vars
  <1>2. /\ UpsertFits => UpsertFits'
        /\ ReviewsFit => ReviewsFit'
    BY <1>1 DEF UpsertFits, ReviewsFit, KeysFit, CacheFits, HandFits, Copies, Indices
  <1>3. FFInv => FFInv'
    BY <1>1 DEF FFInv, FFWorld, FFRun, FFSource,
                FFKeys, FFLate, FFSlow, FF!BagToSet, FF!IsPrior, FF!RatesMoveSlowly
  <1>4. JPOnceInv => JPOnceInv'
    BY <1>1, <1>2 DEF JPOnceInv, JPSource, JPRun, PostsFit, PostsWithin, Misread, TheModel, Keyed, Copies,
                      Indices, JP!PostModel
  <1>5. GHWorld => GHWorld'
    BY <1>1 DEF GHWorld, GHShape, ThreadsWithin, MadeWithin, IssueKeys, Thread, Made, MadeOf, Adopting
  <1>6. GHRun => GHRun'
    <2>1. ASSUME NEW r PROVE RunFits(r)' <=> RunFits(r)
      BY <1>1 DEF RunFits, IssuesPhase, CommentsPhase, TasksPhase, Been, Entry, Speech, Own, Threaded, Postable,
                  Chats, IssueKeys, Thread, Copies, Indices
    <2>. QED BY <1>1, <2>1 DEF GHRun
  <1>. QED BY <1>1, <1>2, <1>3, <1>4, <1>5, <1>6 DEF AllFits, OnceInv, GHOnceInv

\* Nothing is kept twice by a rerun of NagerDate, JsonPlaceholder, Frankfurter or GitHub, but
\* for what a lost answer, a crash or an overlap may have doubled: no record, no approval
\* activity, no post in two models, no comment, no issue made of a task (Upserter,
\* raise_activity, _push_comments, _push_new_tasks).
THEOREM KeptOnce == Spec => []OnceForGood
  <1>1. Init => AllFits
    <2>1. NG!Init => OnceInv
      BY InitBlank, InitFits DEF OnceInv
    <2>2. FF!Init => FFInv /\ ReviewsFit /\ mishaps \in Nat
      BY FFStart, InitBlank, InitFits DEF Blanks
    <2>. QED BY <2>1, <2>2, JPBegins, GHBegins DEF Init, AllFits, Providers
  <1>2. AllFits /\ [Next]_<<vars, provider>> => AllFits'
    <2>. SUFFICES ASSUME AllFits, [Next]_<<vars, provider>> PROVE AllFits'
      OBVIOUS
    <2>1. CASE NagerDate
      BY <2>1, NGOnce DEF NagerDate, AllFits
    <2>2. CASE JsonPlaceholder
      BY <2>2, JPOnce DEF JsonPlaceholder, AllFits
    <2>3. CASE Frankfurter
      BY <2>3, FFStep, FFReviews DEF Frankfurter, AllFits
    <2>4. CASE GitHub
      BY <2>4, GHOnce DEF GitHub, AllFits
    <2>5. CASE OpenMeteo
      BY <2>5 DEF OpenMeteo, AllFits
    <2>. QED BY <2>1, <2>2, <2>3, <2>4, <2>5, FitsIdle DEF Next
  <1>3. AllFits => OnceForGood
    <2>. SUFFICES ASSUME AllFits PROVE OnceForGood
      OBVIOUS
    <2>1. provider = "frankfurter" => KeysFit /\ ReviewsFit
      BY FFOneEach DEF AllFits, FFInv, FFWorld
    <2>2. provider # "open_meteo" => KeysFit /\ ReviewsFit
      BY <2>1 DEF AllFits, Providers, OnceInv, JPOnceInv, GHOnceInv, UpsertFits
    <2>. QED BY <2>2, NoneTwice, JPPostsOnce, GHPostedOnce DEF AllFits, OnceForGood
  <1>. QED BY <1>1, <1>2, <1>3, PTL DEF Spec
=============================================================================
