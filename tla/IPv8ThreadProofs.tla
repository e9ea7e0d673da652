--------------------------- MODULE IPv8ThreadProofs ---------------------------
(***************************************************************************)
(* Proofs about IPv8Thread, for every number of objects: types, and that   *)
(* objects are broadcast in the order in which they were published.        *)
(***************************************************************************)
EXTENDS IPv8Thread, SequenceTheorems, TLAPS

USE ThreadAssumption

(* The objects of a sequence are in the order of publication; the tasks    *)
(* StartTask and StopTask are not objects.                                 *)
Increasing(s) == \A i, j \in 1..Len(s) : i < j /\ s[j] > 0 => s[i] < s[j]

(* Every object of t is later than whatever is in s. *)
Before(s, t) == \A i \in 1..Len(s), j \in 1..Len(t) : t[j] > 0 => s[i] < t[j]

AtMost(s, n) == \A i \in 1..Len(s) : s[i] <= n

(* An object passes from ready through pending to sent, and every place    *)
(* only holds objects later than those of the next: what makes SentInOrder *)
(* inductive.  Nothing waits once the overlay is set, so a broadcast never *)
(* overtakes one that was queued.                                          *)
OrderInv ==
  /\ Increasing(sent) /\ Increasing(pending) /\ Increasing(ready)
  /\ Before(sent, pending) /\ Before(sent, ready) /\ Before(pending, ready)
  /\ AtMost(sent, published) /\ AtMost(pending, published) /\ AtMost(ready, published)
  /\ overlay => pending = <<>>

ThreadInv == TypeOK /\ OrderInv

Tasks == Objects \cup {StartTask, StopTask}

-----------------------------------------------------------------------------
(* Sequences of integers.                                                   *)

LEMMA TasksAreIntegers == Tasks \subseteq Int /\ Objects \subseteq Int
BY DEF Tasks, Objects, StartTask, StopTask

(* Appending what is later than everything before it. *)
LEMMA AppendOrdered ==
  ASSUME NEW s \in Seq(Int), NEW x \in Int, Increasing(s),
         \A i \in 1..Len(s) : x > 0 => s[i] < x
  PROVE  Increasing(Append(s, x))
BY DEF Increasing

LEMMA AppendBefore ==
  ASSUME NEW s \in Seq(Int), NEW t \in Seq(Int), NEW x \in Int
  PROVE  /\ Before(s, t) /\ (\A j \in 1..Len(t) : t[j] > 0 => x < t[j])
              => Before(Append(s, x), t)
         /\ Before(s, t) /\ (\A i \in 1..Len(s) : x > 0 => s[i] < x)
              => Before(s, Append(t, x))
BY DEF Before

LEMMA AppendAtMost ==
  ASSUME NEW s \in Seq(Int), NEW x \in Int, NEW n \in Int, AtMost(s, n), x <= n
  PROVE  AtMost(Append(s, x), n)
BY DEF AtMost

(* A bound that is raised by one is above every element. *)
LEMMA AtMostNext ==
  ASSUME NEW s \in Seq(Int), NEW n \in Int, AtMost(s, n)
  PROVE  AtMost(s, n + 1) /\ \A i \in 1..Len(s) : s[i] < n + 1
<1> SUFFICES ASSUME NEW i \in 1..Len(s) PROVE s[i] <= n + 1 /\ s[i] < n + 1
  BY DEF AtMost
<1>1. s[i] \in Int /\ s[i] <= n
  BY DEF AtMost
<1> QED
  BY <1>1

(* The head of an ordered sequence is before its tail. *)
LEMMA HeadTail ==
  ASSUME NEW s \in Seq(Int), s # <<>>, Increasing(s), NEW n \in Int, AtMost(s, n)
  PROVE  /\ Tail(s) \in Seq(Int) /\ Head(s) \in Int
         /\ Increasing(Tail(s)) /\ AtMost(Tail(s), n) /\ Head(s) <= n
         /\ \A j \in 1..Len(Tail(s)) : Tail(s)[j] > 0 => Head(s) < Tail(s)[j]
<1>1. /\ Len(s) \in Nat /\ Len(s) >= 1 /\ Len(Tail(s)) = Len(s) - 1 /\ Head(s) = s[1]
      /\ Tail(s) \in Seq(Int) /\ \A i \in 1..Len(Tail(s)) : Tail(s)[i] = s[i + 1]
  OBVIOUS
<1> QED
  BY <1>1 DEF Increasing, AtMost

LEMMA BeforeTail ==
  ASSUME NEW s \in Seq(Int), NEW t \in Seq(Int), t # <<>>, Before(s, t)
  PROVE  /\ Before(s, Tail(t))
         /\ \A i \in 1..Len(s) : Head(t) > 0 => s[i] < Head(t)
<1>1. /\ Len(t) \in Nat /\ Len(t) >= 1 /\ Len(Tail(t)) = Len(t) - 1 /\ Head(t) = t[1]
      /\ \A i \in 1..Len(Tail(t)) : Tail(t)[i] = t[i + 1]
  OBVIOUS
<1> QED
  BY <1>1 DEF Before

LEMMA ConcatOrdered ==
  ASSUME NEW s \in Seq(Int), NEW t \in Seq(Int), NEW r \in Seq(Int), NEW n \in Int,
         Increasing(s), Increasing(t), Before(s, t), Before(s, r), Before(t, r),
         AtMost(s, n), AtMost(t, n)
  PROVE  /\ Increasing(s \o t) /\ Before(s \o t, r) /\ AtMost(s \o t, n)
<1> DEFINE u == s \o t
<1>1. Len(s) \in Nat /\ Len(t) \in Nat /\ Len(u) = Len(s) + Len(t)
  BY ConcatProperties
<1>2. ASSUME NEW i \in 1..Len(u)
      PROVE  \/ i <= Len(s) /\ i \in 1..Len(s) /\ u[i] = s[i]
             \/ /\ i > Len(s) /\ \E a \in 1..Len(t) : a = i - Len(s) /\ u[i] = t[a]
  <2>1. u[i] = IF i <= Len(s) THEN s[i] ELSE t[i - Len(s)]
    BY <1>1, ConcatProperties
  <2>2. i > Len(s) => i - Len(s) \in 1..Len(t)
    BY <1>1
  <2> QED
    BY <1>1, <2>1, <2>2
<1> HIDE DEF u
<1>3. ASSUME NEW i \in 1..Len(u), NEW j \in 1..Len(u), i < j, u[j] > 0
      PROVE  u[i] < u[j]
  <2>i. \/ i <= Len(s) /\ i \in 1..Len(s) /\ u[i] = s[i]
        \/ i > Len(s) /\ \E a \in 1..Len(t) : a = i - Len(s) /\ u[i] = t[a]
    BY <1>2
  <2>j. \/ j <= Len(s) /\ j \in 1..Len(s) /\ u[j] = s[j]
        \/ j > Len(s) /\ \E b \in 1..Len(t) : b = j - Len(s) /\ u[j] = t[b]
    BY <1>2
  <2>1. CASE i \in 1..Len(s) /\ j \in 1..Len(s) /\ u[i] = s[i] /\ u[j] = s[j]
    BY <1>3, <2>1 DEF Increasing
  <2>2. CASE i \in 1..Len(s) /\ u[i] = s[i] /\ \E b \in 1..Len(t) : u[j] = t[b]
    BY <1>3, <2>2 DEF Before
  <2>3. CASE /\ \E a \in 1..Len(t) : a = i - Len(s) /\ u[i] = t[a]
             /\ \E b \in 1..Len(t) : b = j - Len(s) /\ u[j] = t[b]
    <3>1. PICK a \in 1..Len(t) : a = i - Len(s) /\ u[i] = t[a]
      BY <2>3
    <3>2. PICK b \in 1..Len(t) : b = j - Len(s) /\ u[j] = t[b]
      BY <2>3
    <3>3. a < b
      BY <1>1, <1>3, <3>1, <3>2
    <3> QED
      BY <1>3, <3>1, <3>2, <3>3 DEF Increasing
  <2>4. ~(i > Len(s) /\ j <= Len(s))
    BY <1>1, <1>3
  <2> QED
    BY <2>i, <2>j, <2>1, <2>2, <2>3, <2>4
<1>4. ASSUME NEW i \in 1..Len(u)
      PROVE  u[i] <= n /\ \A j \in 1..Len(r) : r[j] > 0 => u[i] < r[j]
  <2>1. CASE i \in 1..Len(s) /\ u[i] = s[i]
    BY <2>1 DEF Before, AtMost
  <2>2. CASE \E a \in 1..Len(t) : u[i] = t[a]
    BY <2>2 DEF Before, AtMost
  <2> QED
    BY <1>2, <2>1, <2>2
<1> QED
  BY <1>3, <1>4 DEF u, Increasing, Before, AtMost

(* What is true of a whole sequence is true of its beginning. *)
LEMMA BeginningOrdered ==
  ASSUME NEW s \in Seq(Int), NEW t \in Seq(Int), NEW r \in Seq(Int), NEW n \in Int,
         Increasing(t), Before(s, t), Before(t, r), AtMost(t, n), NEW m \in 0..(Len(t) - 1)
  PROVE  LET u == SubSeq(t, 1, m)
         IN  u \in Seq(Int) /\ Increasing(u) /\ Before(s, u) /\ Before(u, r) /\ AtMost(u, n)
<1> DEFINE u == SubSeq(t, 1, m)
<1>1. Len(t) \in Nat /\ m \in Nat /\ m <= Len(t)
  OBVIOUS
<1>2. u \in Seq(Int) /\ Len(u) = m /\ \A i \in 1..m : u[i] = t[i] /\ i \in 1..Len(t)
  BY <1>1
<1> HIDE DEF u
<1>3. Increasing(u) /\ Before(s, u) /\ Before(u, r) /\ AtMost(u, n)
  BY <1>1, <1>2 DEF Increasing, Before, AtMost
<1> QED
  BY <1>2, <1>3 DEF u

(* A task put in front is no object and is before every object. *)
LEMMA PrependOrdered ==
  ASSUME NEW s \in Seq(Int), NEW r \in Seq(Int), NEW n \in Nat,
         Increasing(r), Before(s, r), AtMost(r, n)
  PROVE  /\ Increasing(<<StartTask>> \o r) /\ Before(s, <<StartTask>> \o r)
         /\ AtMost(<<StartTask>> \o r, n)
<1> DEFINE q == <<StartTask>>
<1>1. q \in Seq(Int) /\ Len(q) = 1 /\ q[1] = 0
  BY DEF StartTask
<1> HIDE DEF q
<1>2. Len(r) \in Nat /\ Len(q \o r) = Len(r) + 1
  <2>1. Len(q \o r) = Len(q) + Len(r)
    BY <1>1, ConcatProperties
  <2> QED
    BY <1>1, <2>1
<1>3. ASSUME NEW i \in 1..Len(q \o r)
      PROVE  \/ i = 1 /\ (q \o r)[i] = 0
             \/ i > 1 /\ \E a \in 1..Len(r) : a = i - 1 /\ (q \o r)[i] = r[a]
  <2>1. (q \o r)[i] = IF i <= Len(q) THEN q[i] ELSE r[i - Len(q)]
    BY <1>1, <1>2, ConcatProperties
  <2>2. i > 1 => i - 1 \in 1..Len(r)
    BY <1>2
  <2> QED
    BY <1>1, <1>2, <2>1, <2>2
<1>4. ASSUME NEW i \in 1..Len(q \o r), NEW j \in 1..Len(q \o r), i < j, (q \o r)[j] > 0
      PROVE  (q \o r)[i] < (q \o r)[j]
  <2>1. PICK b \in 1..Len(r) : b = j - 1 /\ (q \o r)[j] = r[b]
    BY <1>2, <1>3, <1>4
  <2>2. CASE (q \o r)[i] = 0
    BY <1>4, <2>1, <2>2
  <2>3. CASE \E a \in 1..Len(r) : a = i - 1 /\ (q \o r)[i] = r[a]
    <3>1. PICK a \in 1..Len(r) : a = i - 1 /\ (q \o r)[i] = r[a]
      BY <2>3
    <3>2. a < b
      BY <1>2, <1>4, <2>1, <3>1
    <3> QED
      BY <1>4, <2>1, <3>1, <3>2 DEF Increasing
  <2> QED
    BY <1>3, <2>2, <2>3
<1>5. ASSUME NEW j \in 1..Len(q \o r)
      PROVE  /\ (q \o r)[j] <= n
             /\ (q \o r)[j] > 0 => \A i \in 1..Len(s) : s[i] < (q \o r)[j]
  <2>1. CASE (q \o r)[j] = 0
    BY <2>1
  <2>2. CASE \E b \in 1..Len(r) : (q \o r)[j] = r[b]
    BY <2>2 DEF Before, AtMost
  <2> QED
    BY <1>3, <2>1, <2>2
<1> QED
  BY <1>4, <1>5 DEF q, Increasing, Before, AtMost

-----------------------------------------------------------------------------
LEMMA ThreadInvInit == Init => ThreadInv
<1> SUFFICES ASSUME Init PROVE ThreadInv
  OBVIOUS
<1>0. app \in BOOLEAN /\ overlay \in BOOLEAN /\ ipv8 \in BOOLEAN
  BY DEF Init
<1>1. published = 0 /\ published \in 0..MaxObjects
  BY DEF Init
<1>2. sent = <<>> /\ pending = <<>> /\ ready = <<>>
  BY DEF Init
<1>3. /\ sent \in Seq(Objects) /\ pending \in Seq(Objects)
      /\ ready \in Seq(Objects \cup {StartTask, StopTask})
  BY <1>2
<1>4. TypeOK
  BY <1>0, <1>1, <1>3 DEF Init, TypeOK
<1>5. /\ Increasing(<<>>) /\ Before(<<>>, <<>>) /\ AtMost(<<>>, 0)
  BY DEF Increasing, Before, AtMost
<1>6. OrderInv
  BY <1>1, <1>2, <1>5 DEF OrderInv
<1> QED
  BY <1>4, <1>6 DEF ThreadInv

(* What a step finds. *)
LEMMA ThreadFacts ==
  ASSUME ThreadInv
  PROVE  /\ sent \in Seq(Int) /\ pending \in Seq(Int) /\ ready \in Seq(Int)
         /\ ready \in Seq(Tasks) /\ published \in Nat
BY TasksAreIntegers, SeqMonotonic DEF ThreadInv, TypeOK, Tasks

LEMMA ThreadInvStep ==
  ASSUME ThreadInv, [Next]_vars
  PROVE  ThreadInv'
<1>0. TypeOK /\ OrderInv
  BY DEF ThreadInv
<1>t. /\ sent \in Seq(Int) /\ pending \in Seq(Int) /\ ready \in Seq(Int)
      /\ ready \in Seq(Tasks) /\ published \in Nat
  BY ThreadFacts
<1>1. CASE _on_broadcast
  <2>1. /\ published' = published + 1 /\ published' \in Objects
        /\ UNCHANGED <<app, loop, start, overlay, ipv8, pending, stopping, sent>>
    BY <1>0, <1>1, <1>t DEF _on_broadcast, Objects, TypeOK
  <2>2. AtMost(sent, published') /\ AtMost(pending, published') /\ AtMost(ready, published')
    BY <1>0, <1>t, <2>1, AtMostNext DEF OrderInv
  <2>3. CASE loop = "none"
    <3>1. ready' = ready
      BY <1>1, <2>3 DEF _on_broadcast
    <3> QED
      BY <1>0, <2>1, <2>2, <3>1 DEF ThreadInv, TypeOK, OrderInv, Objects
  <2>4. CASE loop # "none"
    <3>1. ready' = Append(ready, published')
      BY <1>1, <2>4 DEF _on_broadcast
    <3>2. /\ \A i \in 1..Len(ready) : ready[i] < published'
          /\ \A i \in 1..Len(sent) : sent[i] < published'
          /\ \A i \in 1..Len(pending) : pending[i] < published'
      BY <1>0, <1>t, <2>1, AtMostNext DEF OrderInv
    <3>3. Increasing(ready') /\ Before(sent, ready') /\ Before(pending, ready')
      <4>1. published' \in Int
        BY <1>t, <2>1
      <4> QED
        BY <1>0, <1>t, <3>1, <3>2, <4>1, AppendOrdered, AppendBefore DEF OrderInv
    <3>4. AtMost(ready', published')
      BY <1>t, <2>1, <2>2, <3>1, AppendAtMost
    <3>5. ready' \in Seq(Objects \cup {StartTask, StopTask})
      BY <1>t, <2>1, <3>1 DEF Tasks
    <3> QED
      BY <1>0, <2>1, <2>2, <3>3, <3>4, <3>5 DEF ThreadInv, TypeOK, OrderInv, Objects
  <2> QED
    BY <2>3, <2>4
<1>2. CASE stop
  <2>1. CASE loop = "none"
    BY <1>0, <1>2, <2>1 DEF stop, ThreadInv, TypeOK, OrderInv
  <2>2. CASE loop # "none"
    <3>1. /\ ready' = Append(ready, StopTask) /\ app' = FALSE /\ stopping' = "asked"
          /\ UNCHANGED <<published, loop, start, overlay, ipv8, pending, sent>>
      BY <1>2, <2>2 DEF stop
    <3>2. StopTask \in Int /\ ~(StopTask > 0) /\ StopTask <= published
      BY <1>t DEF StopTask
    <3>3. Increasing(ready') /\ Before(sent, ready') /\ Before(pending, ready')
      BY <1>0, <1>t, <3>1, <3>2, AppendOrdered, AppendBefore DEF OrderInv
    <3>4. AtMost(ready', published)
      BY <1>0, <1>t, <3>1, <3>2, AppendAtMost DEF OrderInv
    <3>5. ready' \in Seq(Objects \cup {StartTask, StopTask})
      BY <1>t, <3>1 DEF Tasks
    <3> QED
      BY <1>0, <3>1, <3>3, <3>4, <3>5 DEF ThreadInv, TypeOK, OrderInv
  <2> QED
    BY <2>1, <2>2
<1>3. CASE NewLoop \/ IPv8Stopped
  BY <1>0, <1>3 DEF NewLoop, IPv8Stopped, ThreadInv, TypeOK, OrderInv
<1>4. CASE RunForever
  <2>1. /\ ready' = <<StartTask>> \o ready /\ start' = "queued"
        /\ UNCHANGED <<app, published, loop, overlay, ipv8, pending, stopping, sent>>
    BY <1>4 DEF RunForever
  <2>2. /\ Increasing(ready') /\ Before(sent, ready') /\ Before(pending, ready')
        /\ AtMost(ready', published)
    BY <1>0, <1>t, <2>1, PrependOrdered DEF OrderInv
  <2>3. ready' \in Seq(Objects \cup {StartTask, StopTask})
    BY <1>t, <2>1 DEF Tasks
  <2> QED
    BY <1>0, <2>1, <2>2, <2>3 DEF ThreadInv, TypeOK, OrderInv
<1>5. ASSUME NEW task \in Tasks, Begins(task)
      PROVE  /\ ready' \in Seq(Objects \cup {StartTask, StopTask}) /\ task <= published
             /\ Increasing(ready') /\ Before(sent, ready') /\ Before(pending, ready')
             /\ AtMost(ready', published)
             /\ \A j \in 1..Len(ready') : ready'[j] > 0 => task < ready'[j]
             /\ \A i \in 1..Len(sent) : task > 0 => sent[i] < task
             /\ \A i \in 1..Len(pending) : task > 0 => pending[i] < task
  <2>1. ready # <<>> /\ Head(ready) = task /\ ready' = Tail(ready)
    BY <1>5 DEF Begins
  <2>2. ready' \in Seq(Objects \cup {StartTask, StopTask})
    BY <1>t, <2>1 DEF Tasks
  <2>3. /\ Increasing(ready') /\ AtMost(ready', published) /\ task <= published
        /\ \A j \in 1..Len(ready') : ready'[j] > 0 => task < ready'[j]
    BY <1>0, <1>t, <2>1, HeadTail DEF OrderInv
  <2>4. /\ Before(sent, ready')
        /\ \A i \in 1..Len(sent) : task > 0 => sent[i] < task
    BY <1>0, <1>t, <2>1, BeforeTail DEF OrderInv
  <2>5. /\ Before(pending, ready')
        /\ \A i \in 1..Len(pending) : task > 0 => pending[i] < task
    BY <1>0, <1>t, <2>1, BeforeTail DEF OrderInv
  <2> QED
    BY <2>2, <2>3, <2>4, <2>5
<1>6. CASE _start_community
  <2>1. /\ ready' \in Seq(Objects \cup {StartTask, StopTask})
        /\ Increasing(ready') /\ Before(sent, ready') /\ Before(pending, ready')
        /\ AtMost(ready', published)
    BY <1>5, <1>6 DEF _start_community, Tasks
  <2>2. /\ UNCHANGED <<app, published, loop, overlay, stopping, sent>>
        /\ start' \in {"awaiting", "failed"} /\ ipv8' \in {ipv8, TRUE}
        /\ pending' = pending \/ pending' = <<>>
    BY <1>6 DEF _start_community
  <2>3. /\ Increasing(<<>>) /\ Before(sent, <<>>) /\ AtMost(<<>>, published)
        /\ Before(<<>>, ready')
    BY <1>t DEF Increasing, Before, AtMost
  <2>4. CASE pending' = pending
    BY <1>0, <2>1, <2>2, <2>4 DEF ThreadInv, TypeOK, OrderInv
  <2>5. CASE pending' = <<>>
    <3>1. pending' \in Seq(Objects)
      BY <2>5
    <3> QED
      BY <1>0, <2>1, <2>2, <2>3, <2>5, <3>1 DEF ThreadInv, TypeOK, OrderInv
  <2> QED
    BY <2>2, <2>4, <2>5
<1>7. CASE Started
  <2>1. /\ start' = "done" /\ overlay' = TRUE /\ pending' = <<>> /\ sent' = sent \o pending
        /\ UNCHANGED <<app, published, loop, ready, ipv8, stopping>>
    BY <1>7 DEF Started, _flush_pending
  <2>2. Increasing(sent') /\ Before(sent', ready) /\ AtMost(sent', published)
    BY <1>0, <1>t, <2>1, ConcatOrdered DEF OrderInv
  <2>3. /\ Increasing(<<>>) /\ Before(sent', <<>>) /\ AtMost(<<>>, published)
        /\ Before(<<>>, ready)
    BY <1>t DEF Increasing, Before, AtMost
  <2>4. sent' \in Seq(Objects) /\ pending' \in Seq(Objects)
    BY <1>0, <2>1 DEF TypeOK
  <2> QED
    BY <1>0, <2>1, <2>2, <2>3, <2>4 DEF ThreadInv, TypeOK, OrderInv
<1>8. CASE StartFails
  <2>1. /\ start' = "failed" /\ pending' = <<>>
        /\ UNCHANGED <<app, published, loop, ready, overlay, ipv8, stopping, sent>>
    BY <1>8 DEF StartFails
  <2>2. /\ Increasing(<<>>) /\ Before(sent, <<>>) /\ AtMost(<<>>, published)
        /\ Before(<<>>, ready)
    BY <1>t DEF Increasing, Before, AtMost
  <2> QED
    BY <1>0, <2>1, <2>2 DEF ThreadInv, TypeOK, OrderInv
<1>f. CASE FlushFails
  <2>1. /\ start' = "failed" /\ overlay' = TRUE /\ pending' = <<>>
        /\ UNCHANGED <<app, published, loop, ready, ipv8, stopping>>
    BY <1>f DEF FlushFails
  <2>2. PICK n \in 0..(Len(pending) - 1) : sent' = sent \o SubSeq(pending, 1, n)
    BY <1>f DEF FlushFails
  <2> DEFINE out == SubSeq(pending, 1, n)
  <2>3. /\ out \in Seq(Int) /\ Increasing(out) /\ Before(sent, out) /\ Before(out, ready)
        /\ AtMost(out, published)
    BY <1>0, <1>t, BeginningOrdered DEF OrderInv
  <2>4. out \in Seq(Objects) /\ sent \in Seq(Objects)
    BY <1>0 DEF TypeOK
  <2> HIDE DEF out
  <2>5. sent' = sent \o out
    BY <2>2 DEF out
  <2>6. Increasing(sent') /\ Before(sent', ready) /\ AtMost(sent', published)
    BY <1>0, <1>t, <2>3, <2>5, ConcatOrdered DEF OrderInv
  <2>7. sent' \in Seq(Objects) /\ pending' \in Seq(Objects)
    BY <2>1, <2>4, <2>5
  <2>8. /\ Increasing(<<>>) /\ Before(sent', <<>>) /\ AtMost(<<>>, published)
        /\ Before(<<>>, ready)
    BY <1>t DEF Increasing, Before, AtMost
  <2> QED
    BY <1>0, <2>1, <2>6, <2>7, <2>8 DEF ThreadInv, TypeOK, OrderInv
<1>9. ASSUME NEW o \in Objects, _do(o)
      PROVE  ThreadInv'
  <2>0. o \in Tasks /\ o \in Int
    BY TasksAreIntegers DEF Tasks
  <2>1. /\ ready' \in Seq(Objects \cup {StartTask, StopTask}) /\ o <= published
        /\ Increasing(ready') /\ Before(sent, ready') /\ Before(pending, ready')
        /\ AtMost(ready', published)
        /\ \A j \in 1..Len(ready') : ready'[j] > 0 => o < ready'[j]
        /\ \A i \in 1..Len(sent) : o > 0 => sent[i] < o
        /\ \A i \in 1..Len(pending) : o > 0 => pending[i] < o
    BY <1>5, <1>9, <2>0 DEF _do
  <2>2. UNCHANGED <<app, published, loop, start, overlay, ipv8, stopping>>
    BY <1>9 DEF _do
  <2>3. ready' \in Seq(Int)
    BY <2>1, TasksAreIntegers, SeqMonotonic DEF Tasks
  <2>4. CASE overlay
    <3>1. sent' = Append(sent, o) /\ pending' = pending /\ pending = <<>>
      BY <1>0, <1>9, <2>4 DEF _do, OrderInv
    <3>2. Increasing(sent') /\ Before(sent', ready') /\ AtMost(sent', published)
      BY <1>0, <1>t, <2>0, <2>1, <2>3, <3>1, AppendOrdered, AppendBefore, AppendAtMost
         DEF OrderInv
    <3>3. Before(sent', pending') /\ sent' \in Seq(Objects)
      BY <1>0, <3>1 DEF Before, TypeOK
    <3> QED
      BY <1>0, <2>1, <2>2, <3>1, <3>2, <3>3 DEF ThreadInv, TypeOK, OrderInv
  <2>5. CASE ~overlay
    <3>1. pending' = Append(pending, o) /\ sent' = sent
      BY <1>9, <2>5 DEF _do
    <3>2. Increasing(pending') /\ Before(pending', ready') /\ AtMost(pending', published)
      BY <1>0, <1>t, <2>0, <2>1, <2>3, <3>1, AppendOrdered, AppendBefore, AppendAtMost
         DEF OrderInv
    <3>3. Before(sent, pending')
      BY <1>0, <1>t, <2>0, <2>1, <3>1, AppendBefore DEF OrderInv
    <3>4. pending' \in Seq(Objects)
      BY <1>0, <3>1 DEF TypeOK
    <3> QED
      BY <1>0, <2>1, <2>2, <2>5, <3>1, <3>2, <3>3, <3>4 DEF ThreadInv, TypeOK, OrderInv
  <2> QED
    BY <2>4, <2>5
<1>10. CASE _shutdown
  <2>1. /\ ready' \in Seq(Objects \cup {StartTask, StopTask})
        /\ Increasing(ready') /\ Before(sent, ready') /\ Before(pending, ready')
        /\ AtMost(ready', published)
    BY <1>5, <1>10 DEF _shutdown, Tasks
  <2> QED
    BY <1>0, <1>10, <2>1 DEF _shutdown, ThreadInv, TypeOK, OrderInv
<1>11. CASE Cleanup
  <2>1. /\ loop' = "closed" /\ ready' = <<>>
        /\ UNCHANGED <<app, published, start, overlay, ipv8, pending, stopping, sent>>
    BY <1>11 DEF Cleanup
  <2>2. /\ Increasing(<<>>) /\ Before(sent, <<>>) /\ Before(pending, <<>>)
        /\ AtMost(<<>>, published)
    BY <1>t DEF Increasing, Before, AtMost
  <2> QED
    BY <1>0, <2>1, <2>2 DEF ThreadInv, TypeOK, OrderInv
<1>12. CASE UNCHANGED vars
  BY <1>0, <1>12 DEF vars, ThreadInv, TypeOK, OrderInv
<1> QED
  BY <1>1, <1>2, <1>3, <1>4, <1>6, <1>7, <1>8, <1>f, <1>9, <1>10, <1>11, <1>12 DEF Next

LEMMA ThreadInvariant == Spec => []ThreadInv
BY ThreadInvInit, ThreadInvStep, PTL DEF Spec

-----------------------------------------------------------------------------
(* Every variable of the thread keeps its type. *)
THEOREM ThreadTypeCorrect == Spec => []TypeOK
<1>1. ThreadInv => TypeOK
  BY DEF ThreadInv
<1> QED
  BY <1>1, ThreadInvariant, PTL

(* However the slots, the start of IPv8, _flush_pending and stop() are     *)
(* interleaved, objects leave in the order of their publication, and none  *)
(* twice.                                                                  *)
THEOREM BroadcastsInOrder == Spec => []SentInOrder
<1>1. ThreadInv => SentInOrder
  BY DEF ThreadInv, TypeOK, OrderInv, Increasing, SentInOrder, Objects
<1> QED
  BY <1>1, ThreadInvariant, PTL
=============================================================================
