------------------------ MODULE DocumentLocksProofs ------------------------
(***************************************************************************)
(* Proofs about the edit lock: its types, that a client that has closed its *)
(* editor does not keep the lock, and that two editors at rest never both   *)
(* let their users write, for any numbers of clients, connections and       *)
(* openings of an editor.                                                   *)
(*                                                                         *)
(* The hub answers an acquire in two steps, between which the lock can      *)
(* change hands only on another connection: what a client believes is       *)
(* therefore right, or a message, the call in progress, or an acquire of    *)
(* its own that is still queued will put it right.  The inductive invariant *)
(* says so of every connection, from the order of its two queues.           *)
(***************************************************************************)
EXTENDS DocumentLocks, Queues, TLAPS

\* The message msg changes what an editor of the n-th opening shows of the lock;
\* it tells that editor, on connection k, that the lock is its own.
Tells(n, msg) == msg.m = "changed" \/ (msg.m = "answer" /\ msg.n = n)
Won(n, k, msg) == msg.m = "answer" /\ msg.n = n /\ msg.by = k

\* After the first i messages of d, with the call w in progress and the calls q
\* queued, that editor will be told of the lock again.
Due(d, w, q, n, i) ==
    \/ \E j \in DOMAIN d : j > i /\ Tells(n, d[j])
    \/ w.m = "freed"
    \/ w.m = "answer" /\ w.n = n
    \/ \E j \in DOMAIN q : q[j] = Acquire(n)

\* An editor that shows v without holding the lock, or is about to, is told again.
Honest(d, w, q, n, k, v) ==
    /\ v = "mine" => Due(d, w, q, n, 0)
    /\ \A i \in DOMAIN d : Won(n, k, d[i]) => Due(d, w, q, n, i)

\* The acquires and their answers are of openings up to the n-th.
Dated(d, w, q, n) ==
    /\ \A i \in DOMAIN q : q[i].m = "acquire" => q[i].n <= n
    /\ w.m = "answer" => w.n <= n
    /\ \A i \in DOMAIN d : d[i].m = "answer" => d[i].n <= n

\* Every acquire queued is followed by a release.
Released(q) == \A i \in DOMAIN q : q[i].m = "acquire" =>
                  \E j \in DOMAIN q : i < j /\ q[j].m = "release"

\* A connection not made yet.
Unused(k) == /\ up[k] = <<>> /\ down[k] = <<>> /\ work[k] = NoWork
             /\ k \notin member /\ k \notin alive /\ holder # k

\* A connection up that has not entered the group has only asked to; an acquire
\* that won is still good while it is answered.
LinkInv(k) ==
    /\ conn[k[1]] < k[2] => Unused(k)
    /\ k \in alive => k[2] = conn[k[1]]
    /\ k \in alive /\ k \notin member => /\ up[k] # <<>> /\ Head(up[k]).m = "join"
                                         /\ work[k] = NoWork /\ holder # k
    /\ work[k].m = "answer" /\ work[k].by = k => holder = k

\* A closed editor has given back what it holds or will take; an open one is honest.
ClientInv(c, k) ==
    /\ open[c] => mount[c] > 0
    /\ Dated(down[k], work[k], up[k], mount[c])
    /\ k \in alive /\ ~open[c] =>
          Released(up[k]) /\ (holder = k => Has(up[k], "release"))
    /\ open[c] /\ ~broken[c] =>
          /\ k \notin alive => view[c] # "mine"
          /\ k \in alive /\ holder # k => Honest(down[k], work[k], up[k], mount[c], k, view[c])

IInv == /\ TypeOK
        /\ \A k \in Conn : LinkInv(k)
        /\ \A c \in Client : ClientInv(c, Current(c))
-----------------------------------------------------------------------------
(* The queues.                                                              *)

\* A message more: what was due stays due, and a message about the lock is due.
LEMMA DueSaid ==
    ASSUME NEW d \in Seq(Msg), NEW w, NEW q, NEW n, NEW e \in Msg
    PROVE  /\ \A i : Due(d, w, q, n, i) => Due(Append(d, e), w, q, n, i)
           /\ Tells(n, e) => \A i \in DOMAIN d \cup {0} : Due(Append(d, e), w, q, n, i)
<1>1. /\ \A j \in DOMAIN d : j \in DOMAIN Append(d, e) /\ Append(d, e)[j] = d[j]
      /\ Len(d) + 1 \in DOMAIN Append(d, e) /\ Append(d, e)[Len(d) + 1] = e
      /\ \A i \in DOMAIN d \cup {0} : Len(d) + 1 > i
    OBVIOUS
<1> QED BY <1>1 DEF Due

\* A message not lost on the editor arrives, or one that does not concern it.
LEMMA DueReceived ==
    ASSUME NEW d \in Seq(Msg), d # <<>>, NEW w, NEW q, NEW n, NEW i \in Nat
    PROVE  /\ Due(d, w, q, n, i + 1) => Due(Tail(d), w, q, n, i)
           /\ Due(d, w, q, n, 0) /\ ~Tells(n, Head(d)) => Due(Tail(d), w, q, n, 0)
<1>1. \A j \in DOMAIN d : j # 1 => j - 1 \in DOMAIN Tail(d) /\ Tail(d)[j - 1] = d[j] /\ j - 1 > 0 /\ j \in Nat
    OBVIOUS
<1>2. Head(d) = d[1]
    OBVIOUS
<1>3. ASSUME NEW j \in DOMAIN d, j > i + 1, Tells(n, d[j])
      PROVE  \E l \in DOMAIN Tail(d) : l > i /\ Tells(n, Tail(d)[l])
    <2>1. j - 1 \in DOMAIN Tail(d) /\ Tail(d)[j - 1] = d[j] /\ j - 1 > i
        BY <1>1, <1>3
    <2> QED BY <1>3, <2>1
<1>4. ASSUME NEW j \in DOMAIN d, j > 0, Tells(n, d[j]), ~Tells(n, Head(d))
      PROVE  \E l \in DOMAIN Tail(d) : l > 0 /\ Tells(n, Tail(d)[l])
    <2>1. j # 1
        BY <1>2, <1>4
    <2>2. j - 1 \in DOMAIN Tail(d) /\ Tail(d)[j - 1] = d[j] /\ j - 1 > 0
        BY <1>1, <2>1
    <2> QED BY <1>4, <2>2
<1> QED BY <1>3, <1>4 DEF Due

\* A call more, or a call started that is no acquire.
LEMMA DueCalled ==
    ASSUME NEW d, NEW w, NEW q \in Seq(Call), NEW n, NEW i, NEW e \in Call
    PROVE  /\ Due(d, w, q, n, i) => Due(d, w, Append(q, e), n, i)
           /\ e = Acquire(n) => Due(d, w, Append(q, e), n, i)
           /\ q # <<>> /\ Head(q).m # "acquire" /\ Due(d, w, q, n, i) => Due(d, w, Tail(q), n, i)
<1>1. /\ \A j \in DOMAIN q : j \in DOMAIN Append(q, e) /\ Append(q, e)[j] = q[j]
      /\ Len(q) + 1 \in DOMAIN Append(q, e) /\ Append(q, e)[Len(q) + 1] = e
    OBVIOUS
<1>2. \A j \in DOMAIN q : q # <<>> /\ j # 1 => j - 1 \in DOMAIN Tail(q) /\ Tail(q)[j - 1] = q[j]
    OBVIOUS
<1>3. q # <<>> => Head(q) = q[1]
    OBVIOUS
<1>4. \A m : Acquire(m).m = "acquire"
    BY DEF Acquire
<1>5. ASSUME NEW j \in DOMAIN q, q[j] = Acquire(n), q # <<>>, Head(q).m # "acquire"
      PROVE  \E l \in DOMAIN Tail(q) : Tail(q)[l] = Acquire(n)
    <2>1. j # 1
        BY <1>3, <1>4, <1>5
    <2> QED BY <1>2, <1>5, <2>1
<1>6. Due(d, w, q, n, i) => Due(d, w, Append(q, e), n, i)
    BY <1>1 DEF Due
<1>7. e = Acquire(n) => Due(d, w, Append(q, e), n, i)
    BY <1>1 DEF Due
<1>8. q # <<>> /\ Head(q).m # "acquire" /\ Due(d, w, q, n, i) => Due(d, w, Tail(q), n, i)
    BY <1>5 DEF Due
<1> QED BY <1>6, <1>7, <1>8

\* An acquire starts: its answer is due instead.
LEMMA DueAcquired ==
    ASSUME NEW d, NEW w, NEW q \in Seq(Call), NEW n, NEW i, q # <<>>, Head(q).m = "acquire",
           w.m = "answer", w.n = Head(q).n, Due(d, NoWork, q, n, i)
    PROVE  Due(d, w, Tail(q), n, i)
<1>1. \A j \in DOMAIN q : j # 1 => j - 1 \in DOMAIN Tail(q) /\ Tail(q)[j - 1] = q[j]
    OBVIOUS
<1>2. Head(q) = q[1]
    OBVIOUS
<1>3. Acquire(n).n = n
    BY DEF Acquire
<1>4. NoWork.m = "none"
    BY DEF NoWork
<1>5. CASE \E j \in DOMAIN d : j > i /\ Tells(n, d[j])
    BY <1>5 DEF Due
<1>6. ASSUME NEW j \in DOMAIN q, q[j] = Acquire(n)
      PROVE  Due(d, w, Tail(q), n, i)
    <2>1. CASE j = 1
        BY <1>2, <1>3, <1>6, <2>1 DEF Due
    <2>2. CASE j # 1
        BY <1>1, <1>6, <2>2 DEF Due
    <2> QED BY <2>1, <2>2
<1> QED BY <1>4, <1>5, <1>6 DEF Due
-----------------------------------------------------------------------------
(* What an editor believes, as its connection's queues move.                *)

\* The hub tells it of the lock, or of a request for it.
LEMMA HonestSaid ==
    ASSUME NEW d \in Seq(Msg), NEW w, NEW q, NEW n, NEW k, NEW v, NEW e \in Msg, ~Won(n, k, e),
           Honest(d, w, q, n, k, v)
    PROVE  Honest(Append(d, e), w, q, n, k, v)
<1>1. \A i \in DOMAIN Append(d, e) : (i \in DOMAIN d /\ Append(d, e)[i] = d[i]) \/ Append(d, e)[i] = e
    OBVIOUS
<1>2. \A i : Due(d, w, q, n, i) => Due(Append(d, e), w, q, n, i)
    BY DueSaid
<1> QED BY <1>1, <1>2 DEF Honest

\* A message about the lock that does not promise it puts everything right.
LEMMA HonestTold ==
    ASSUME NEW d \in Seq(Msg), NEW w, NEW q, NEW n, NEW k, NEW v, NEW e \in Msg, ~Won(n, k, e),
           Tells(n, e)
    PROVE  Honest(Append(d, e), w, q, n, k, v)
<1>1. \A i \in DOMAIN Append(d, e) : (i \in DOMAIN d /\ Append(d, e)[i] = d[i]) \/ Append(d, e)[i] = e
    OBVIOUS
<1>2. \A i \in DOMAIN d \cup {0} : Due(Append(d, e), w, q, n, i)
    BY DueSaid
<1> QED BY <1>1, <1>2 DEF Honest

\* An acquire that another had won is answered.
LEMMA HonestAnswered ==
    ASSUME NEW d \in Seq(Msg), NEW w \in Msg, w.m = "answer", NEW q, NEW n, NEW k, w.by # k, NEW v,
           Honest(d, w, q, n, k, v)
    PROVE  Honest(Append(d, w), NoWork, q, n, k, v)
<1>1. CASE w.n = n
    BY <1>1, HonestTold DEF Won, Tells
<1>2. CASE w.n # n
    <2>1. \A i : Due(d, w, q, n, i) => Due(d, NoWork, q, n, i)
        BY <1>2 DEF Due
    <2>2. Honest(d, NoWork, q, n, k, v)
        BY <2>1 DEF Honest
    <2> QED BY <2>2, HonestSaid DEF Won
<1> QED BY <1>1, <1>2

\* While the hub has a lock to say free, everything is put right.
LEMMA HonestFreeing ==
    ASSUME NEW d, NEW w, w.m = "freed", NEW q, NEW n, NEW k, NEW v
    PROVE  Honest(d, w, q, n, k, v)
    BY DEF Honest, Due

\* The client calls, or the hub starts a call.
LEMMA HonestCalled ==
    ASSUME NEW d, NEW w, NEW q \in Seq(Call), NEW n, NEW k, NEW v, NEW e \in Call,
           Honest(d, w, q, n, k, v)
    PROVE  Honest(d, w, Append(q, e), n, k, v)
<1>1. \A i : Due(d, w, q, n, i) => Due(d, w, Append(q, e), n, i)
    BY DueCalled
<1> QED BY <1>1 DEF Honest

LEMMA HonestStarted ==
    ASSUME NEW d, NEW w, NEW q \in Seq(Call), NEW n, NEW k, NEW v, q # <<>>, Head(q).m # "acquire",
           Honest(d, w, q, n, k, v)
    PROVE  Honest(d, w, Tail(q), n, k, v)
<1>1. Head(q) \in Call
    OBVIOUS
<1>2. \A i : Due(d, w, q, n, i) => Due(d, w, Tail(q), n, i)
    BY <1>1, DueCalled
<1> QED BY <1>2 DEF Honest

LEMMA HonestAcquired ==
    ASSUME NEW d, NEW w, NEW q \in Seq(Call), NEW n, NEW k, NEW v, q # <<>>, Head(q).m = "acquire",
           w.m = "answer", w.n = Head(q).n, Honest(d, NoWork, q, n, k, v)
    PROVE  Honest(d, w, Tail(q), n, k, v)
<1>1. \A i : Due(d, NoWork, q, n, i) => Due(d, w, Tail(q), n, i)
    BY DueAcquired
<1> QED BY <1>1 DEF Honest

\* An acquire that is queued puts everything right.
LEMMA HonestAsking ==
    ASSUME NEW d, NEW w, NEW q \in Seq(Call), NEW n, Acquire(n) \in Call, NEW k, NEW v
    PROVE  Honest(d, w, Append(q, Acquire(n)), n, k, v)
<1>1. \A i : Due(d, w, Append(q, Acquire(n)), n, i)
    BY DueCalled
<1> QED BY <1>1 DEF Honest

\* The client receives a message.
LEMMA HonestReceived ==
    ASSUME NEW d \in Seq(Msg), d # <<>>, NEW w, NEW q, NEW n, NEW k, NEW v, NEW u,
           Honest(d, w, q, n, k, v),
           u = "mine" => (v = "mine" /\ ~Tells(n, Head(d))) \/ Won(n, k, Head(d))
    PROVE  Honest(Tail(d), w, q, n, k, u)
<1>1. /\ 1 \in DOMAIN d /\ Head(d) = d[1]
      /\ \A i \in DOMAIN Tail(d) : i \in Nat /\ i + 1 \in DOMAIN d /\ Tail(d)[i] = d[i + 1]
    OBVIOUS
<1>2. \A i \in Nat : Due(d, w, q, n, i + 1) => Due(Tail(d), w, q, n, i)
    BY DueReceived
<1>3. Due(d, w, q, n, 0) /\ ~Tells(n, Head(d)) => Due(Tail(d), w, q, n, 0)
    BY DueReceived
<1>4. \A i \in DOMAIN d : Won(n, k, d[i]) => Due(d, w, q, n, i)
    BY DEF Honest
<1>5. Won(n, k, Head(d)) => Due(Tail(d), w, q, n, 0)
    <2>1. Won(n, k, Head(d)) => Due(d, w, q, n, 0 + 1)
        BY <1>1, <1>4
    <2> QED BY <1>2, <2>1
<1>6. u = "mine" => Due(Tail(d), w, q, n, 0)
    BY <1>3, <1>5 DEF Honest
<1>7. \A i \in DOMAIN Tail(d) : Won(n, k, Tail(d)[i]) => Due(Tail(d), w, q, n, i)
    BY <1>1, <1>2, <1>4
<1> QED BY <1>6, <1>7 DEF Honest
-----------------------------------------------------------------------------
(* The openings the acquires are of, and the releases that follow them.     *)

LEMMA DatedSteps ==
    ASSUME NEW d \in Seq(Msg), NEW w, NEW q \in Seq(Call), NEW n, Dated(d, w, q, n)
    PROVE  /\ Dated(d, NoWork, q, n) /\ Dated(d, [m |-> "freed"], q, n) /\ Dated(<<>>, NoWork, <<>>, n)
           /\ Dated(<<>>, w, q, n) /\ Dated(d, w, <<>>, n) 
           /\ \A e \in Msg : (e.m = "answer" => e.n <= n) => Dated(Append(d, e), w, q, n)
           /\ \A e \in Call : (e.m = "acquire" => e.n <= n) => Dated(d, w, Append(q, e), n)
           /\ d # <<>> => Dated(Tail(d), w, q, n)
           /\ q # <<>> => Dated(d, w, Tail(q), n)
<1>1. NoWork.m = "none"
    BY DEF NoWork
<1>2. /\ Dated(d, NoWork, q, n) /\ Dated(d, [m |-> "freed"], q, n) /\ Dated(<<>>, NoWork, <<>>, n)
      /\ Dated(<<>>, w, q, n) /\ Dated(d, w, <<>>, n)
    BY <1>1 DEF Dated
<1>3. ASSUME NEW e \in Msg, e.m = "answer" => e.n <= n PROVE Dated(Append(d, e), w, q, n)
    <2>1. \A i \in DOMAIN Append(d, e) : (i \in DOMAIN d /\ Append(d, e)[i] = d[i]) \/ Append(d, e)[i] = e
        OBVIOUS
    <2> QED BY <1>3, <2>1 DEF Dated
<1>4. ASSUME NEW e \in Call, e.m = "acquire" => e.n <= n PROVE Dated(d, w, Append(q, e), n)
    <2>1. \A i \in DOMAIN Append(q, e) : (i \in DOMAIN q /\ Append(q, e)[i] = q[i]) \/ Append(q, e)[i] = e
        OBVIOUS
    <2> QED BY <1>4, <2>1 DEF Dated
<1>5. ASSUME d # <<>> PROVE Dated(Tail(d), w, q, n)
    <2>1. \A i \in DOMAIN Tail(d) : i + 1 \in DOMAIN d /\ Tail(d)[i] = d[i + 1]
        BY <1>5
    <2> QED BY <2>1 DEF Dated
<1>6. ASSUME q # <<>> PROVE Dated(d, w, Tail(q), n)
    <2>1. \A i \in DOMAIN Tail(q) : i + 1 \in DOMAIN q /\ Tail(q)[i] = q[i + 1]
        BY <1>6
    <2> QED BY <2>1 DEF Dated
<1> QED BY <1>2, <1>3, <1>4, <1>5, <1>6

\* A closed editor sends nothing more after its release.
LEMMA ReleasedSteps ==
    ASSUME NEW q \in Seq(Call)
    PROVE  /\ \A e \in Call : e.m = "release" => Released(Append(q, e)) /\ Has(Append(q, e), "release")
           /\ q # <<>> /\ Released(q) => Released(Tail(q))
           /\ q # <<>> /\ Released(q) /\ Head(q).m = "acquire" => Has(Tail(q), "release")
           /\ q # <<>> /\ Has(q, "release") /\ Head(q).m # "release" => Has(Tail(q), "release")
<1>1. ASSUME NEW e \in Call, e.m = "release" PROVE Released(Append(q, e)) /\ Has(Append(q, e), "release")
    <2>1. /\ Len(q) + 1 \in DOMAIN Append(q, e) /\ Append(q, e)[Len(q) + 1] = e
          /\ \A i \in DOMAIN Append(q, e) : i = Len(q) + 1 \/ i < Len(q) + 1
        OBVIOUS
    <2>2. Append(q, e)[Len(q) + 1].m # "acquire"
        BY <1>1, <2>1
    <2> QED BY <1>1, <2>1, <2>2 DEF Released, Has
<1>2. ASSUME q # <<>>
      PROVE  /\ \A i \in DOMAIN Tail(q) : i \in Nat /\ i + 1 \in DOMAIN q /\ Tail(q)[i] = q[i + 1]
             /\ \A j \in DOMAIN q : j \in Nat /\ (j # 1 => j > 1 /\ j - 1 \in DOMAIN Tail(q) /\ Tail(q)[j - 1] = q[j])
             /\ 1 \in DOMAIN q /\ Head(q) = q[1]
    BY <1>2
<1>3. ASSUME q # <<>>, Released(q) PROVE Released(Tail(q))
    <2>1. SUFFICES ASSUME NEW i \in DOMAIN Tail(q), Tail(q)[i].m = "acquire"
                   PROVE  \E j \in DOMAIN Tail(q) : i < j /\ Tail(q)[j].m = "release"
        BY DEF Released
    <2>2. i \in Nat /\ i + 1 \in DOMAIN q /\ q[i + 1].m = "acquire"
        BY <1>2, <1>3, <2>1
    <2>3. PICK j \in DOMAIN q : i + 1 < j /\ q[j].m = "release"
        BY <1>3, <2>2 DEF Released
    <2>4. j \in Nat /\ j # 1
        BY <1>2, <1>3, <2>2, <2>3
    <2>5. j - 1 \in DOMAIN Tail(q) /\ Tail(q)[j - 1] = q[j] /\ i < j - 1
        BY <1>2, <1>3, <2>2, <2>3, <2>4
    <2> QED BY <2>3, <2>5
<1>4. ASSUME q # <<>>, Released(q), Head(q).m = "acquire" PROVE Has(Tail(q), "release")
    <2>1. PICK j \in DOMAIN q : 1 < j /\ q[j].m = "release"
        BY <1>2, <1>4 DEF Released
    <2>2. j - 1 \in DOMAIN Tail(q) /\ Tail(q)[j - 1] = q[j]
        BY <1>2, <1>4, <2>1
    <2> QED BY <2>1, <2>2 DEF Has
<1>5. ASSUME q # <<>>, Has(q, "release"), Head(q).m # "release" PROVE Has(Tail(q), "release")
    <2>1. PICK j \in DOMAIN q : q[j].m = "release"
        BY <1>5 DEF Has
    <2>2. j # 1
        BY <1>2, <1>5, <2>1
    <2>3. j - 1 \in DOMAIN Tail(q) /\ Tail(q)[j - 1] = q[j]
        BY <1>2, <1>5, <2>1, <2>2
    <2> QED BY <2>1, <2>3 DEF Has
<1> QED BY <1>1, <1>3, <1>4, <1>5
-----------------------------------------------------------------------------
(* Types, and what a step leaves alone.                                     *)

LEMMA Kinds ==
    /\ \A n \in 1..MaxMount : Acquire(n) \in Call
    /\ \A n : Acquire(n).m = "acquire" /\ Acquire(n).n = n
    /\ \A m \in {"join", "release", "request"} : Plain(m) \in Call /\ Plain(m).m = m
    /\ NoWork \in Work /\ NoWork.m = "none" /\ [m |-> "freed"] \in Work
    /\ \A w \in Work : w.m = "answer" => w \in Msg
    /\ \A e \in Call : e.m = "acquire" => e.n \in 1..MaxMount
<1>1. \A n \in 1..MaxMount : Acquire(n) \in Call
    BY DEF Acquire, Call
<1>2. \A n : Acquire(n).m = "acquire" /\ Acquire(n).n = n
    BY DEF Acquire
<1>3. \A m \in {"join", "release", "request"} : Plain(m) \in Call /\ Plain(m).m = m
    BY DEF Plain, Call
<1>4. NoWork \in Work /\ NoWork.m = "none" /\ [m |-> "freed"] \in Work
    BY DEF Work, NoWork
<1>5. \A w \in Work : w.m = "answer" => w \in Msg
    BY DEF Work, Msg, NoWork
<1>6. \A e \in Call : e.m = "acquire" => e.n \in 1..MaxMount
    BY DEF Call
<1> QED BY <1>1, <1>2, <1>3, <1>4, <1>5, <1>6

LEMMA Connections ==
    ASSUME TypeOK
    PROVE  /\ \A c \in Client : Current(c) \in Conn /\ Current(c)[1] = c /\ Current(c)[2] = conn[c]
           /\ \A k \in Conn : k[1] \in Client /\ k[2] \in 1..MaxConn /\ k = <<k[1], k[2]>>
           /\ Free \notin Conn
    BY FreeAssumption DEF TypeOK, Current, Conn

LEMMA ClientSame ==
    ASSUME NEW c, NEW k, ClientInv(c, k),
           mount'[c] = mount[c], open'[c] = open[c], view'[c] = view[c], broken'[c] = broken[c],
           up'[k] = up[k], down'[k] = down[k], work'[k] = work[k],
           k \in alive' <=> k \in alive, holder' = k <=> holder = k
    PROVE  ClientInv(c, k)'
    BY DEF ClientInv

\* A step of client c alone touches its editor and its own connection, and sends
\* at most one call on it, when it is up.
Acts(c) ==
    /\ UNCHANGED <<serverVars, alive, conn>>
    /\ \A d \in Client \ {c} : /\ mount'[d] = mount[d] /\ open'[d] = open[d]
                               /\ view'[d] = view[d] /\ broken'[d] = broken[d]
    /\ \A k \in Conn \ {Current(c)} : up'[k] = up[k] /\ down'[k] = down[k]
    /\ up' # up => Connected(c) /\ \E e \in Call : up'[Current(c)] = Append(up[Current(c)], e)
    /\ down' # down => Connected(c)

LEMMA ActsAlone ==
    ASSUME IInv, TypeOK', NEW c \in Client, Acts(c), NEW k, k = Current(c), ClientInv(c, k)'
    PROVE  IInv'
<1> USE DEF IInv
<1>1. UNCHANGED <<holder, member, work, alive, conn>>
    BY DEF Acts, serverVars
<1>2. \A d : Current(d)' = Current(d)
    BY <1>1 DEF Current
<1>3. ASSUME NEW d \in Client PROVE ClientInv(d, Current(d))'
    <2>1. CASE d = c
        BY <1>2, <2>1
    <2>2. CASE d # c
        <3>1. PICK l \in Conn : l = Current(d)
            BY Connections
        <3>2. l # Current(c)
            BY <2>2, <3>1, Connections
        <3>3. ClientInv(d, l)
            BY <3>1
        <3>4. ClientInv(d, l)'
            BY <1>1, <2>2, <3>2, <3>3, ClientSame DEF Acts
        <3> QED BY <1>2, <3>1, <3>4
    <2> QED BY <2>1, <2>2
<1>4. ASSUME NEW l \in Conn PROVE LinkInv(l)'
    <2>1. LinkInv(l)
        OBVIOUS
    <2>2. CASE up'[l] = up[l] /\ down'[l] = down[l]
        BY <1>1, <2>1, <2>2 DEF LinkInv, Unused
    <2>3. CASE up'[l] # up[l] \/ down'[l] # down[l]
        <3>1. l = Current(c) /\ l \in alive
            BY <2>3 DEF Acts, Connected
        <3>2. ~(conn[l[1]] < l[2])
            BY <2>1, <3>1 DEF LinkInv, Unused
        <3>3. up[l] # <<>> => up'[l] # <<>> /\ Head(up'[l]) = Head(up[l])
            <4>1. up[l] \in Seq(Call)
                BY DEF TypeOK
            <4>2. up'[l] = up[l] \/ \E e \in Call : up'[l] = Append(up[l], e)
                BY <3>1 DEF Acts
            <4> QED BY <4>1, <4>2
        <3> QED BY <1>1, <2>1, <3>1, <3>2, <3>3 DEF LinkInv
    <2> QED BY <2>2, <2>3
<1> QED BY <1>3, <1>4
-----------------------------------------------------------------------------
(* The steps of the editors.                                                *)

\* A client that sends a call e, or fails to, and now shows v.
LEMMA Calls ==
    ASSUME IInv, NEW c \in Client, NEW k \in Conn, k = Current(c), NEW e \in Call, Invoke(c, e)
    PROVE  /\ up' \in [Conn -> Seq(Call)]
           /\ \A l \in Conn \ {k} : up'[l] = up[l]
           /\ up' # up => Connected(c) /\ \E f \in Call : up'[Current(c)] = Append(up[Current(c)], f)
           /\ k \in alive => up'[k] = Append(up[k], e)
           /\ k \notin alive => up'[k] = up[k]
<1>1. up \in [Conn -> Seq(Call)]
    BY DEF IInv, TypeOK
<1>2. CASE k \in alive
    <2>1. up' = [up EXCEPT ![k] = Append(@, e)]
        BY <1>2 DEF Invoke, Connected
    <2>2. up'[k] = Append(up[k], e) /\ \A l \in Conn \ {k} : up'[l] = up[l]
        BY <1>1, <2>1
    <2>3. up' \in [Conn -> Seq(Call)]
        BY <1>1, <2>1
    <2> QED BY <1>2, <2>2, <2>3 DEF Connected
<1>3. CASE k \notin alive
    BY <1>1, <1>3 DEF Invoke, Connected
<1> QED BY <1>2, <1>3

LEMMA EditorSteps ==
    ASSUME IInv, NEW c \in Client, Open(c) \/ Close(c) \/ Ask(c) \/ HandOver(c) \/ Later(c)
    PROVE  IInv'
<1>1. PICK k \in Conn : k = Current(c)
    BY Connections DEF IInv
<1>2. /\ TypeOK /\ ClientInv(c, k) /\ mount[c] \in 0..MaxMount /\ MaxMount \in Nat
      /\ up[k] \in Seq(Call) /\ down[k] \in Seq(Msg) /\ work[k] \in Work
    BY <1>1, LockBounds DEF IInv, TypeOK
<1>3. Dated(down[k], work[k], up[k], mount[c])
    BY <1>2 DEF ClientInv
<1>4. CASE Open(c)
    <2>1. Acquire(mount[c] + 1) \in Call /\ Acquire(mount[c] + 1).n = mount[c] + 1
        BY <1>2, <1>4, Kinds DEF Open
    <2>2. Invoke(c, Acquire(mount[c] + 1))
        BY <1>4 DEF Open
    <2>2a. /\ up' \in [Conn -> Seq(Call)]
           /\ \A l \in Conn \ {k} : up'[l] = up[l]
           /\ up' # up => Connected(c) /\ \E f \in Call : up'[Current(c)] = Append(up[Current(c)], f)
        BY <1>1, <2>1, <2>2, Calls
    <2>2b. TypeOK'
        BY <1>2, <1>4, <2>2a DEF Open, TypeOK, serverVars
    <2>3. TypeOK' /\ Acts(c)
        BY <1>1, <1>2, <1>4, <2>2a, <2>2b DEF Open, TypeOK, serverVars, Acts
    <2>4. Dated(down[k], work[k], up[k], mount[c] + 1)
        <3>1. /\ \A i \in DOMAIN up[k] : up[k][i].m = "acquire" => up[k][i].n \in Nat
              /\ work[k].m = "answer" => work[k].n \in Nat
              /\ \A i \in DOMAIN down[k] : down[k][i].m = "answer" => down[k][i].n \in Nat
            BY <1>2 DEF Call, Work, Msg, NoWork
        <3> QED BY <1>2, <1>3, <3>1 DEF Dated
    <2>5. \A q : Honest(down[k], work[k], q, mount[c] + 1, k, "none")
        <3>1. \A i \in DOMAIN down[k] : down[k][i].m = "answer" => down[k][i].n # mount[c] + 1
            BY <1>2, <1>3 DEF Dated
        <3> QED BY <3>1 DEF Honest, Won
    <2>6. Dated(down[k], work[k], up'[k], mount[c] + 1)
        <3>1. CASE k \in alive
            <4>1. up'[k] = Append(up[k], Acquire(mount[c] + 1))
                BY <1>1, <2>1, <2>2, <3>1, Calls
            <4>2. Acquire(mount[c] + 1).n <= mount[c] + 1
                BY <1>2, <2>1
            <4>3. Dated(down[k], work[k], Append(up[k], Acquire(mount[c] + 1)), mount[c] + 1)
                BY <1>2, <2>1, <2>4, <4>2, DatedSteps
            <4> QED BY <4>1, <4>3
        <3>2. CASE k \notin alive
            <4>1. up'[k] = up[k]
                BY <1>1, <2>1, <2>2, <3>2, Calls
            <4> QED BY <2>4, <4>1
        <3> QED BY <3>1, <3>2
    <2>7. /\ mount'[c] = mount[c] + 1 /\ open'[c] /\ view'[c] = "none"
          /\ UNCHANGED <<down, work, alive, holder>>
        BY <1>2, <1>4 DEF Open, TypeOK, serverVars
    <2>8. ClientInv(c, k)'
        BY <1>2, <2>5, <2>6, <2>7 DEF ClientInv
    <2> QED BY <1>1, <2>3, <2>8, ActsAlone
<1>5. CASE Close(c)
    <2>1. Plain("release") \in Call /\ Plain("release").m = "release"
        BY Kinds
    <2>2. Invoke(c, Plain("release"))
        BY <1>5 DEF Close
    <2>3. TypeOK' /\ Acts(c)
        BY <1>1, <1>2, <1>5, <2>1, <2>2, Calls DEF Close, TypeOK, serverVars, Acts
    <2>4. /\ ~open'[c] /\ UNCHANGED <<down, work, alive, holder, mount>>
        BY <1>5 DEF Close, TypeOK, IInv, serverVars
    <2>5. k \in alive => up'[k] = Append(up[k], Plain("release"))
        BY <1>1, <2>1, <2>2, Calls
    <2>6. k \notin alive => up'[k] = up[k]
        BY <1>1, <2>1, <2>2, Calls
    <2>7. k \in alive => Released(up'[k]) /\ Has(up'[k], "release")
        BY <1>2, <2>1, <2>5, ReleasedSteps
    <2>8. Dated(down[k], work[k], up'[k], mount[c])
        <3>1. CASE k \in alive
            BY <1>2, <1>3, <2>1, <2>5, <3>1, DatedSteps
        <3>2. CASE k \notin alive
            BY <1>3, <2>6, <3>2
        <3> QED BY <3>1, <3>2
    <2>9. ClientInv(c, k)'
        BY <2>4, <2>7, <2>8 DEF ClientInv
    <2> QED BY <1>1, <2>3, <2>9, ActsAlone
<1>6. ASSUME NEW e \in Call, e.m = "acquire" => e.n <= mount[c], Invoke(c, e), open[c],
             UNCHANGED <<serverVars, down, alive, conn, mount, open, broken>>,
             \A d \in Client \ {c} : view'[d] = view[d], view'[c] = "mine" => view[c] = "mine", TypeOK'
      PROVE  IInv'
    <2>1. Acts(c)
        BY <1>1, <1>6, Calls DEF Acts
    <2>2. Dated(down[k], work[k], up'[k], mount[c])
        <3>1. CASE k \in alive
            <4>1. up'[k] = Append(up[k], e)
                BY <1>1, <1>6, <3>1, Calls
            <4> QED BY <1>2, <1>3, <1>6, <4>1, DatedSteps
        <3>2. CASE k \notin alive
            BY <1>1, <1>3, <1>6, <3>2, Calls
        <3> QED BY <3>1, <3>2
    <2>3. ~broken[c] /\ k \in alive /\ holder # k =>
              Honest(down[k], work[k], up'[k], mount[c], k, view'[c])
        <3>1. SUFFICES ASSUME ~broken[c], k \in alive, holder # k
                       PROVE  Honest(down[k], work[k], up'[k], mount[c], k, view'[c])
            OBVIOUS
        <3>2. Honest(down[k], work[k], up[k], mount[c], k, view[c])
            BY <1>2, <1>6, <3>1 DEF ClientInv
        <3>3. up'[k] = Append(up[k], e)
            BY <1>1, <1>6, <3>1, Calls
        <3>4. Honest(down[k], work[k], up'[k], mount[c], k, view[c])
            BY <1>2, <3>2, <3>3, HonestCalled
        <3> QED BY <1>6, <3>4 DEF Honest
    <2>4. ClientInv(c, k)'
        BY <1>2, <1>6, <2>2, <2>3 DEF ClientInv, serverVars
    <2> QED BY <1>1, <1>6, <2>1, <2>4, ActsAlone
<1>7. CASE Ask(c)
    <2>1. PICK e \in Call : Invoke(c, e) /\ (e.m = "acquire" => e.n <= mount[c])
        <3>1. mount[c] \in 1..MaxMount
            BY <1>2, <1>7 DEF Ask, ClientInv
        <3>2. /\ Acquire(mount[c]) \in Call /\ Acquire(mount[c]).n <= mount[c]
              /\ Plain("request") \in Call /\ Plain("request").m # "acquire"
            BY <3>1, Kinds
        <3>3. Invoke(c, Acquire(mount[c])) \/ Invoke(c, Plain("request"))
            BY <1>7 DEF Ask
        <3> QED BY <3>2, <3>3
    <2>2. TypeOK'
        BY <1>1, <1>2, <1>7, <2>1, Calls DEF Ask, TypeOK, serverVars
    <2> QED BY <1>6, <1>7, <2>1, <2>2 DEF Ask
<1>8. CASE HandOver(c)
    <2>1. Plain("release") \in Call /\ Plain("release").m # "acquire" /\ Invoke(c, Plain("release"))
        BY <1>8, Kinds DEF HandOver
    <2>2. TypeOK'
        BY <1>1, <1>2, <1>8, <2>1, Calls DEF HandOver, TypeOK, serverVars
    <2>3. view'[c] = "none" /\ \A d \in Client \ {c} : view'[d] = view[d]
        BY <1>2, <1>8 DEF HandOver, TypeOK
    <2> QED BY <1>6, <1>8, <2>1, <2>2, <2>3 DEF HandOver
<1>9. CASE Later(c)
    <2>1. TypeOK' /\ Acts(c)
        BY <1>2, <1>9 DEF Later, TypeOK, serverVars, Acts
    <2>2. UNCHANGED <<holder, work, alive, up, down, mount, open, view, broken>>
        BY <1>9 DEF Later, serverVars
    <2>3. ClientInv(c, k)'
        BY <1>2, <2>2 DEF ClientInv
    <2> QED BY <1>1, <2>1, <2>3, ActsAlone
<1> QED BY <1>4, <1>5, <1>7, <1>8, <1>9

\* The client receives a message.
LEMMA ReceiveStep ==
    ASSUME IInv, NEW c \in Client, Receive(c)
    PROVE  IInv'
<1>1. PICK k \in Conn : k = Current(c)
    BY Connections DEF IInv
<1> DEFINE msg == Head(down[k])
           ours == open[c] /\ (msg.m = "answer" => msg.n = mount[c])
           take == ours /\ msg.m = "changed" /\ wants[c] /\ msg.by = Free
           seen == CASE msg.by = Free -> "none"
                     [] msg.m = "answer" /\ msg.by = k -> "mine"
                     [] OTHER -> "other"
<1>2. /\ TypeOK /\ ClientInv(c, k) /\ mount[c] \in 0..MaxMount /\ MaxMount \in Nat
      /\ up[k] \in Seq(Call) /\ down[k] \in Seq(Msg) /\ work[k] \in Work
    BY <1>1, LockBounds DEF IInv, TypeOK
<1>3. Dated(down[k], work[k], up[k], mount[c])
    BY <1>2 DEF ClientInv
<1>4. /\ k \in alive /\ down[k] # <<>>
      /\ down' = [down EXCEPT ![k] = Tail(@)]
      /\ asked' = IF ours /\ msg.m = "asked" THEN [asked EXCEPT ![c] = TRUE] ELSE asked
      /\ view' = IF ours /\ msg.m # "asked" /\ ~take THEN [view EXCEPT ![c] = seen] ELSE view
      /\ IF take THEN Invoke(c, Acquire(mount[c])) /\ wants' = [wants EXCEPT ![c] = FALSE]
                 ELSE UNCHANGED <<up, wants>>
      /\ UNCHANGED <<serverVars, alive, conn, mount, open, broken>>
    BY <1>1 DEF Receive, Connected
<1>5. /\ msg \in Msg /\ Tail(down[k]) \in Seq(Msg)
      /\ down'[k] = Tail(down[k]) /\ \A l \in Conn \ {k} : down'[l] = down[l]
      /\ down' \in [Conn -> Seq(Msg)]
    <2>1. msg \in Msg /\ Tail(down[k]) \in Seq(Msg)
        BY <1>2, <1>4
    <2>2. down \in [Conn -> Seq(Msg)] /\ down' = [down EXCEPT ![k] = Tail(down[k])]
        BY <1>2, <1>4 DEF TypeOK
    <2> QED BY <2>1, <2>2
<1>6. seen \in {"none", "other", "mine"}
    OBVIOUS
<1>7. asked' \in [Client -> BOOLEAN] /\ view' \in [Client -> {"none", "other", "mine"}]
    BY <1>2, <1>4, <1>6 DEF TypeOK
<1>8. UNCHANGED <<holder, member, work, alive, conn, mount, open, broken>>
    BY <1>4 DEF serverVars
<1>9. \A d \in Client \ {c} : view'[d] = view[d]
    BY <1>2, <1>4 DEF TypeOK
<1>10. CASE take
    <2>1. open[c] /\ Invoke(c, Acquire(mount[c])) /\ wants' = [wants EXCEPT ![c] = FALSE]
        BY <1>4, <1>10
    <2>2. mount[c] \in 1..MaxMount
        BY <1>2, <2>1 DEF ClientInv
    <2>3. Acquire(mount[c]) \in Call /\ Acquire(mount[c]).n <= mount[c]
        BY <2>2, Kinds
    <2>4. /\ up' \in [Conn -> Seq(Call)] /\ \A l \in Conn \ {k} : up'[l] = up[l]
          /\ up'[k] = Append(up[k], Acquire(mount[c]))
        BY <1>1, <1>4, <2>1, <2>3, Calls
    <2>5. wants' \in [Client -> BOOLEAN]
        BY <1>2, <2>1 DEF TypeOK
    <2>6. TypeOK'
        BY <1>2, <1>5, <1>7, <1>8, <2>4, <2>5 DEF TypeOK
    <2>7. Acts(c)
        BY <1>1, <1>4, <1>5, <1>8, <1>9, <2>3, <2>4 DEF Acts, serverVars, Connected
    <2>8. Honest(down'[k], work[k], up'[k], mount[c], k, view'[c])
        BY <1>2, <2>3, <2>4, HonestAsking
    <2>9. Dated(down'[k], work[k], up'[k], mount[c])
        <3>1. Dated(Tail(down[k]), work[k], up[k], mount[c])
            BY <1>2, <1>3, <1>4, DatedSteps
        <3>2. Dated(Tail(down[k]), work[k], Append(up[k], Acquire(mount[c])), mount[c])
            BY <1>2, <1>5, <2>3, <3>1, DatedSteps
        <3> QED BY <1>5, <2>4, <3>2
    <2>10. ClientInv(c, k)'
        BY <1>2, <1>4, <1>8, <2>1, <2>8, <2>9 DEF ClientInv
    <2> QED BY <1>1, <2>6, <2>7, <2>10, ActsAlone
<1>11. CASE ~take
    <2>1. UNCHANGED <<up, wants>>
        BY <1>4, <1>11
    <2>2. TypeOK'
        BY <1>2, <1>5, <1>7, <1>8, <2>1 DEF TypeOK
    <2>3. Acts(c)
        BY <1>1, <1>4, <1>5, <1>8, <1>9, <2>1 DEF Acts, serverVars, Connected
    <2>4. Dated(down'[k], work[k], up'[k], mount[c])
        <3>1. Dated(Tail(down[k]), work[k], up[k], mount[c])
            BY <1>2, <1>3, <1>4, DatedSteps
        <3> QED BY <1>5, <2>1, <3>1
    <2>5. open[c] /\ view'[c] = "mine" =>
              (view[c] = "mine" /\ ~Tells(mount[c], msg)) \/ Won(mount[c], k, msg)
        <3>1. SUFFICES ASSUME open[c], view'[c] = "mine"
                       PROVE  (view[c] = "mine" /\ ~Tells(mount[c], msg)) \/ Won(mount[c], k, msg)
            OBVIOUS
        <3>2. CASE ours /\ msg.m # "asked"
            <4>1. view'[c] = seen
                BY <1>2, <1>4, <1>11, <3>2 DEF TypeOK
            <4>2. msg.m = "answer" /\ msg.by = k
                BY <3>1, <4>1
            <4> QED BY <3>2, <4>2 DEF Won
        <3>3. CASE ~(ours /\ msg.m # "asked")
            <4>1. view'[c] = view[c]
                BY <1>4, <3>3
            <4>2. ~Tells(mount[c], msg)
                BY <3>1, <3>3 DEF Tells
            <4> QED BY <3>1, <4>1, <4>2
        <3> QED BY <3>2, <3>3
    <2>6. open[c] /\ ~broken[c] /\ holder # k =>
              Honest(down'[k], work[k], up'[k], mount[c], k, view'[c])
        <3>1. SUFFICES ASSUME open[c], ~broken[c], holder # k
                       PROVE  Honest(Tail(down[k]), work[k], up[k], mount[c], k, view'[c])
            BY <1>5, <2>1
        <3>2. Honest(down[k], work[k], up[k], mount[c], k, view[c])
            BY <1>2, <1>4, <3>1 DEF ClientInv
        <3> QED BY <1>2, <1>4, <2>5, <3>1, <3>2, HonestReceived
    <2>7. ClientInv(c, k)'
        BY <1>2, <1>4, <1>8, <2>1, <2>4, <2>6 DEF ClientInv
    <2> QED BY <1>1, <2>2, <2>3, <2>7, ActsAlone
<1> QED BY <1>10, <1>11
-----------------------------------------------------------------------------
(* Connections break and are made again.                                    *)

\* What a break leaves of a client's connection and editor.
LEMMA BreakClient ==
    ASSUME TypeOK, NEW S \in SUBSET Client, Break(S), NEW c \in Client, NEW k \in Conn, k = Current(c),
           c \in S, ClientInv(c, k), Dated(<<>>, work'[k], up'[k], mount[c])
    PROVE  ClientInv(c, k)'
<1>1. /\ k[1] = c /\ k \notin alive'
      /\ mount' = mount /\ open' = open
      /\ open[c] => broken'[c]
    BY Connections DEF Break, TypeOK
<1>2. down'[k] = <<>>
    BY <1>1 DEF Break
<1> QED BY <1>1, <1>2 DEF ClientInv

LEMMA BreakTypes ==
    ASSUME TypeOK, NEW S \in SUBSET Client, Break(S)
    PROVE  /\ down' \in [Conn -> Seq(Msg)] /\ alive' \in SUBSET Conn /\ alive' \subseteq alive
           /\ conn' = conn /\ mount' = mount /\ open' = open /\ wants' = wants /\ asked' = asked
           /\ view' \in [Client -> {"none", "other", "mine"}]
           /\ broken' \in [Client -> BOOLEAN]
<1>1. down' \in [Conn -> Seq(Msg)]
    BY DEF Break, TypeOK
<1>2. view' \in [Client -> {"none", "other", "mine"}]
    <2>1. view' = [c \in Client |-> IF c \in S /\ open[c] /\ Waiting(c) THEN "none" ELSE view[c]]
        BY DEF Break
    <2> QED BY <2>1 DEF TypeOK
<1>3. broken' \in [Client -> BOOLEAN]
    BY DEF Break, TypeOK
<1> QED BY <1>1, <1>2, <1>3 DEF Break, TypeOK

\* The connection of a client breaks alone.
LEMMA DropStep ==
    ASSUME IInv, NEW c \in Client, Drop(c)
    PROVE  IInv'
<1> USE DEF IInv
<1>1. Break({c}) /\ UNCHANGED <<holder, member, work, up>>
    BY DEF Drop, serverVars
<1>2. {c} \in SUBSET Client
    OBVIOUS
<1>3. TypeOK'
    BY <1>1, <1>2, BreakTypes DEF TypeOK
<1>4. \A d : Current(d)' = Current(d)
    BY <1>1 DEF Break, Current
<1>5. ASSUME NEW d \in Client PROVE ClientInv(d, Current(d))'
    <2>1. PICK k \in Conn : k = Current(d)
        BY Connections
    <2>2. ClientInv(d, k)
        BY <2>1
    <2>3. CASE d = c
        <3>1. Dated(<<>>, work'[k], up'[k], mount[d])
            <4>1. Dated(down[k], work[k], up[k], mount[d])
                BY <2>2 DEF ClientInv
            <4>2. down[k] \in Seq(Msg) /\ up[k] \in Seq(Call)
                BY DEF TypeOK
            <4> QED BY <1>1, <4>1, <4>2, DatedSteps
        <3>2. ClientInv(d, k)'
            BY <1>1, <1>2, <2>1, <2>2, <2>3, <3>1, BreakClient
        <3> QED BY <1>4, <2>1, <3>2
    <2>4. CASE d # c
        <3>1. k[1] # c /\ k # Current(c)
            BY <2>1, <2>4, Connections
        <3>2. /\ mount'[d] = mount[d] /\ open'[d] = open[d] /\ view'[d] = view[d]
              /\ broken'[d] = broken[d] /\ down'[k] = down[k] /\ (k \in alive' <=> k \in alive)
            BY <1>1, <2>4, <3>1 DEF Break, TypeOK
        <3>3. ClientInv(d, k)'
            BY <1>1, <2>2, <3>2, ClientSame
        <3> QED BY <1>4, <2>1, <3>3
    <2> QED BY <2>3, <2>4
<1>6. ASSUME NEW k \in Conn PROVE LinkInv(k)'
    <2>1. LinkInv(k)
        OBVIOUS
    <2>2. /\ conn' = conn /\ (k \in alive' => k \in alive) /\ (down[k] = <<>> => down'[k] = <<>>)
        BY <1>1 DEF Break
    <2> QED BY <1>1, <2>1, <2>2 DEF LinkInv, Unused
<1> QED BY <1>3, <1>5, <1>6

\* The server restarts.
LEMMA RestartStep ==
    ASSUME IInv, Restart
    PROVE  IInv'
<1> USE DEF IInv
<1>1. /\ Break(Client) /\ holder' = Free /\ member' = {}
      /\ work' = [k \in Conn |-> NoWork] /\ up' = [k \in Conn |-> <<>>]
    BY DEF Restart
<1>2. TypeOK'
    <2>1. up' \in [Conn -> Seq(Call)] /\ work' \in [Conn -> Work]
        BY <1>1, Kinds
    <2> QED BY <1>1, <2>1, BreakTypes DEF TypeOK
<1>3. \A d : Current(d)' = Current(d)
    BY <1>1 DEF Break, Current
<1>4. ASSUME NEW d \in Client PROVE ClientInv(d, Current(d))'
    <2>1. PICK k \in Conn : k = Current(d)
        BY Connections
    <2>2. ClientInv(d, k)
        BY <2>1
    <2>3. Dated(<<>>, work'[k], up'[k], mount[d])
        BY <1>1, Kinds DEF Dated
    <2>4. ClientInv(d, k)'
        BY <1>1, <2>1, <2>2, <2>3, BreakClient
    <2> QED BY <1>3, <2>1, <2>4
<1>5. ASSUME NEW k \in Conn PROVE LinkInv(k)'
    <2>1. k[1] \in Client /\ k = <<k[1], k[2]>> /\ Free \notin Conn
        BY Connections
    <2>2. k \notin alive'
        <3>1. k \in alive => k[2] = conn[k[1]]
            BY DEF LinkInv
        <3>2. k \in alive => k = Current(k[1])
            BY <2>1, <3>1 DEF Current
        <3> QED BY <1>1, <2>1, <3>2 DEF Break
    <2>3. down'[k] = <<>>
        BY <1>1, <2>1 DEF Break
    <2> QED BY <1>1, <2>1, <2>2, <2>3, Kinds DEF LinkInv, Unused
<1> QED BY <1>2, <1>4, <1>5

\* A client connects again: the connection is new to the server.
LEMMA ReconnectStep ==
    ASSUME IInv, NEW c \in Client, Reconnect(c)
    PROVE  IInv'
<1> USE DEF IInv
<1>1. /\ conn[c] < MaxConn /\ conn[c] \in 1..MaxConn /\ MaxConn \in Nat
      /\ conn' = [conn EXCEPT ![c] = conn[c] + 1] /\ conn'[c] = conn[c] + 1
      /\ \A d \in Client \ {c} : conn'[d] = conn[d]
    BY LockBounds DEF Reconnect, TypeOK
<1>2. PICK k \in Conn : k = <<c, conn[c] + 1>>
    <2>1. conn[c] + 1 \in 1..MaxConn
        BY <1>1
    <2>2. <<c, conn[c] + 1>> \in Conn
        BY <2>1 DEF Conn
    <2> QED BY <2>2
<1>3. k[1] = c /\ k[2] = conn[c] + 1 /\ Current(c)' = k
    BY <1>1, <1>2 DEF Current
<1>4. /\ Unused(k) /\ Current(c) \notin alive
      /\ alive' = alive \cup {k} /\ up' = [up EXCEPT ![k] = <<Plain("join")>>]
      /\ UNCHANGED <<holder, member, work, down, mount, open, view, wants, asked, broken>>
    BY <1>1, <1>2, <1>3 DEF Reconnect, LinkInv, serverVars, editorVars, Connected
<1>5. /\ up'[k] = <<Plain("join")>> /\ \A l \in Conn \ {k} : up'[l] = up[l]
      /\ up' \in [Conn -> Seq(Call)]
    <2>1. <<Plain("join")>> \in Seq(Call)
        BY Kinds
    <2> QED BY <1>4, <2>1 DEF TypeOK
<1>6. TypeOK'
    BY <1>1, <1>4, <1>5 DEF TypeOK
<1>7. ASSUME NEW d \in Client PROVE ClientInv(d, Current(d))'
    <2>1. CASE d = c
        <3>1. PICK l \in Conn : l = Current(c)
            BY Connections
        <3>2. /\ open[c] => mount[c] > 0
              /\ open[c] /\ ~broken[c] => view[c] # "mine"
            BY <1>4, <3>1 DEF ClientInv
        <3>3. /\ up'[k] = <<Plain("join")>> /\ down'[k] = <<>> /\ work'[k] = NoWork /\ holder' # k
            BY <1>4, <1>5 DEF Unused
        <3>4. <<Plain("join")>>[1].m = "join" /\ DOMAIN <<Plain("join")>> = {1}
            BY Kinds
        <3>5. ~Has(up'[k], "acquire")
            BY <3>3, <3>4 DEF Has
        <3>6. Released(up'[k]) /\ Dated(down'[k], work'[k], up'[k], mount[c])
            BY <3>3, <3>5, Kinds DEF Released, Dated, Has
        <3>7. view[c] # "mine" => Honest(down'[k], work'[k], up'[k], mount[c], k, view[c])
            BY <3>3 DEF Honest
        <3>8. ClientInv(c, k)'
            BY <1>4, <3>2, <3>3, <3>6, <3>7 DEF ClientInv
        <3> QED BY <1>3, <2>1, <3>8
    <2>2. CASE d # c
        <3>1. PICK l \in Conn : l = Current(d)
            BY Connections
        <3>2. Current(d)' = l /\ l # k
            BY <1>1, <1>2, <2>2, <3>1 DEF Current
        <3>3. ClientInv(d, l)'
            BY <1>4, <1>5, <3>1, <3>2, ClientSame
        <3> QED BY <3>2, <3>3
    <2> QED BY <2>1, <2>2
<1>8. ASSUME NEW l \in Conn PROVE LinkInv(l)'
    <2>1. LinkInv(l)
        OBVIOUS
    <2>2. l[1] \in Client /\ l[2] \in 1..MaxConn /\ l = <<l[1], l[2]>>
        BY Connections
    <2>3. CASE l = k
        <3>1. l[2] = conn'[l[1]]
            BY <1>1, <1>3, <2>3
        <3>2. Head(up'[l]).m = "join" /\ up'[l] # <<>>
            BY <1>5, <2>3, Kinds
        <3> QED BY <1>1, <1>3, <1>4, <2>3, <3>1, <3>2, Kinds DEF LinkInv, Unused
    <2>4. CASE l # k
        <3>1. (l \in alive' <=> l \in alive) /\ up'[l] = up[l]
            BY <1>4, <1>5, <2>4
        <3>2. conn'[l[1]] < l[2] => conn[l[1]] < l[2]
            BY <1>1, <2>2
        <3>3. l \in alive => l[1] # c
            BY <1>4, <2>1, <2>2 DEF LinkInv, Current
        <3>4. l \in alive => l[2] = conn'[l[1]]
            BY <1>1, <2>1, <2>2, <3>3 DEF LinkInv
        <3> QED BY <1>4, <2>1, <3>1, <3>2, <3>4 DEF LinkInv, Unused
    <2> QED BY <2>3, <2>4
<1> QED BY <1>6, <1>7, <1>8
-----------------------------------------------------------------------------
(* The steps of the server.                                                 *)

\* A step of the dispatcher of connection j: it changes nothing of the clients,
\* and on another connection it may say something that is no answer.
Serves(j) ==
    /\ UNCHANGED <<alive, conn, mount, open, view, broken>>
    /\ \A k \in Conn \ {j} :
          /\ up'[k] = up[k] /\ work'[k] = work[k]
          /\ holder' = k <=> holder = k
          /\ k \in member' <=> k \in member
          /\ \/ down'[k] = down[k]
             \/ k \in alive /\ \E e \in Msg : e.m # "answer" /\ down'[k] = Append(down[k], e)

LEMMA ServesElsewhere ==
    ASSUME IInv, NEW j \in Conn, Serves(j), NEW k \in Conn, k # j
    PROVE  /\ LinkInv(k)'
           /\ \A c \in Client : Current(c) = k => ClientInv(c, k)'
<1>1. /\ LinkInv(k) /\ \A c \in Client : Current(c) = k => ClientInv(c, k)
      /\ down[k] \in Seq(Msg) /\ up[k] \in Seq(Call)
    BY DEF IInv, TypeOK
<1>2. /\ up'[k] = up[k] /\ work'[k] = work[k] /\ (holder' = k <=> holder = k)
      /\ (k \in member' <=> k \in member)
      /\ \/ down'[k] = down[k]
         \/ k \in alive /\ \E e \in Msg : e.m # "answer" /\ down'[k] = Append(down[k], e)
    BY DEF Serves
<1>3. UNCHANGED <<alive, conn, mount, open, view, broken>>
    BY DEF Serves
<1>4. LinkInv(k)'
    <2>1. k \notin alive => down'[k] = down[k]
        BY <1>2
    <2>2. k \in alive => ~(conn[k[1]] < k[2])
        BY <1>1 DEF LinkInv, Unused
    <2> QED BY <1>1, <1>2, <1>3, <2>1, <2>2 DEF LinkInv, Unused
<1>5. ASSUME NEW c \in Client, Current(c) = k PROVE ClientInv(c, k)'
    <2>1. ClientInv(c, k)
        BY <1>1, <1>5
    <2>2. CASE down'[k] = down[k]
        BY <1>2, <1>3, <2>1, <2>2, ClientSame
    <2>3. CASE k \in alive /\ \E e \in Msg : e.m # "answer" /\ down'[k] = Append(down[k], e)
        <3>1. PICK e \in Msg : e.m # "answer" /\ down'[k] = Append(down[k], e)
            BY <2>3
        <3>2. Dated(down[k], work[k], up[k], mount[c])
            BY <2>1 DEF ClientInv
        <3>3. Dated(down'[k], work[k], up[k], mount[c])
            BY <1>1, <3>1, <3>2, DatedSteps
        <3>4. ~Won(mount[c], k, e)
            BY <3>1 DEF Won
        <3>5. Honest(down[k], work[k], up[k], mount[c], k, view[c]) =>
                  Honest(down'[k], work[k], up[k], mount[c], k, view[c])
            BY <1>1, <3>1, <3>4, HonestSaid
        <3> QED BY <1>2, <1>3, <2>1, <3>3, <3>5 DEF ClientInv
    <2> QED BY <1>2, <2>2, <2>3
<1> QED BY <1>4, <1>5

LEMMA ServesAll ==
    ASSUME IInv, NEW j \in Conn, Serves(j), TypeOK', LinkInv(j)',
           \A c \in Client : Current(c) = j => ClientInv(c, j)'
    PROVE  IInv'
<1>1. \A c : Current(c)' = Current(c)
    BY DEF Serves, Current
<1>2. ASSUME NEW k \in Conn PROVE LinkInv(k)'
    BY ServesElsewhere
<1>3. ASSUME NEW c \in Client PROVE ClientInv(c, Current(c))'
    <2>1. PICK k \in Conn : k = Current(c)
        BY Connections DEF IInv
    <2>2. ClientInv(c, k)'
        BY <2>1, ServesElsewhere
    <2> QED BY <1>1, <2>1, <2>2
<1> QED BY <1>2, <1>3 DEF IInv

\* What is told to the connections in S.
LEMMA ToldFacts ==
    ASSUME TypeOK, NEW S, NEW e \in Msg
    PROVE  /\ Told(S, e) \in [Conn -> Seq(Msg)]
           /\ \A k \in Conn : \/ Told(S, e)[k] = down[k]
                              \/ k \in alive /\ Told(S, e)[k] = Append(down[k], e)
           /\ \A k \in Conn : k \in S \cap alive => Told(S, e)[k] = Append(down[k], e)
<1>1. down \in [Conn -> Seq(Msg)]
    BY DEF TypeOK
<1>2. \A k \in Conn : Append(down[k], e) \in Seq(Msg)
    BY <1>1
<1> QED BY <1>1, <1>2 DEF Told

\* A call starts, and is taken from its queue.
LEMMA StartFacts ==
    ASSUME TypeOK, NEW j \in Conn, NEW m, Starts(j, m), Pop(j)
    PROVE  /\ work[j] = NoWork /\ up[j] # <<>> /\ Head(up[j]) \in Call /\ Head(up[j]).m = m
           /\ up[j] \in Seq(Call) /\ up'[j] = Tail(up[j]) /\ up' \in [Conn -> Seq(Call)]
           /\ \A k \in Conn \ {j} : up'[k] = up[k]
<1>1. /\ work[j] = NoWork /\ up[j] # <<>> /\ Head(up[j]).m = m
      /\ up' = [up EXCEPT ![j] = Tail(@)] /\ up \in [Conn -> Seq(Call)] /\ up[j] \in Seq(Call)
    BY DEF Starts, Pop, TypeOK
<1>2. Head(up[j]) \in Call /\ Tail(up[j]) \in Seq(Call)
    BY <1>1
<1> QED BY <1>1, <1>2

\* The group is entered.
LEMMA JoinStep ==
    ASSUME IInv, NEW j \in Conn, Join(j)
    PROVE  IInv'
<1>1. TypeOK /\ LinkInv(j)
    BY DEF IInv
<1>2. /\ Starts(j, "join") /\ Pop(j) /\ member' = member \cup {j}
      /\ UNCHANGED <<holder, work, down, alive, conn, mount, open, view, wants, asked, broken>>
    BY DEF Join, editorVars
<1>3. /\ work[j] = NoWork /\ up[j] # <<>> /\ Head(up[j]) \in Call /\ Head(up[j]).m = "join"
      /\ up[j] \in Seq(Call) /\ up'[j] = Tail(up[j]) /\ up' \in [Conn -> Seq(Call)]
      /\ \A k \in Conn \ {j} : up'[k] = up[k]
    BY <1>1, <1>2, StartFacts
<1>4. TypeOK'
    BY <1>1, <1>2, <1>3 DEF TypeOK
<1>5. Serves(j)
    BY <1>2, <1>3 DEF Serves
<1>6. LinkInv(j)'
    <2>1. ~(conn[j[1]] < j[2])
        BY <1>1, <1>3 DEF LinkInv, Unused
    <2> QED BY <1>1, <1>2, <2>1 DEF LinkInv
<1>7. ASSUME NEW c \in Client, Current(c) = j PROVE ClientInv(c, j)'
    <2>1. ClientInv(c, j) /\ down[j] \in Seq(Msg)
        BY <1>7 DEF IInv, TypeOK
    <2>2. Dated(down[j], work[j], Tail(up[j]), mount[c])
        BY <1>3, <2>1, DatedSteps DEF ClientInv
    <2>3. /\ Released(up[j]) => Released(Tail(up[j]))
          /\ Has(up[j], "release") => Has(Tail(up[j]), "release")
        BY <1>3, ReleasedSteps
    <2>4. Honest(down[j], work[j], up[j], mount[c], j, view[c]) =>
              Honest(down[j], work[j], Tail(up[j]), mount[c], j, view[c])
        BY <1>3, HonestStarted
    <2> QED BY <1>2, <1>3, <2>1, <2>2, <2>3, <2>4 DEF ClientInv
<1> QED BY <1>4, <1>5, <1>6, <1>7, ServesAll

\* The lock is asked for: taken if it is free.
LEMMA AcquireStep ==
    ASSUME IInv, NEW j \in Conn, AcquireLock(j)
    PROVE  IInv'
<1>1. TypeOK /\ LinkInv(j) /\ Free \notin Conn /\ holder \in Conn \cup {Free}
    BY Connections DEF IInv, TypeOK
<1>2. /\ Starts(j, "acquire") /\ Pop(j)
      /\ holder' = IF holder = Free THEN j ELSE holder
      /\ work' = [work EXCEPT ![j] = [m |-> "answer", n |-> Head(up[j]).n, by |-> holder']]
      /\ UNCHANGED <<member, down, alive, conn, mount, open, view, wants, asked, broken>>
    BY DEF AcquireLock, editorVars
<1>3. /\ work[j] = NoWork /\ up[j] # <<>> /\ Head(up[j]) \in Call /\ Head(up[j]).m = "acquire"
      /\ up[j] \in Seq(Call) /\ up'[j] = Tail(up[j]) /\ up' \in [Conn -> Seq(Call)]
      /\ \A k \in Conn \ {j} : up'[k] = up[k]
    BY <1>1, <1>2, StartFacts
<1>4. holder' \in Conn
    BY <1>1, <1>2
<1>5. /\ work' \in [Conn -> Work] /\ work'[j] \in Work
      /\ work'[j].m = "answer" /\ work'[j].n = Head(up[j]).n /\ work'[j].by = holder'
      /\ \A k \in Conn \ {j} : work'[k] = work[k]
    <2>1. [m |-> "answer", n |-> Head(up[j]).n, by |-> holder'] \in Work
        BY <1>3, <1>4, Kinds DEF Work
    <2>2. work \in [Conn -> Work]
        BY <1>1 DEF TypeOK
    <2> QED BY <1>2, <2>1, <2>2
<1>6. TypeOK'
    BY <1>1, <1>2, <1>3, <1>4, <1>5 DEF TypeOK
<1>7. Serves(j)
    BY <1>1, <1>2, <1>3, <1>5 DEF Serves
<1>8. LinkInv(j)'
    <2>1. ~(conn[j[1]] < j[2])
        BY <1>1, <1>3 DEF LinkInv, Unused
    <2>2. j \in alive => j \in member
        BY <1>1, <1>3 DEF LinkInv
    <2> QED BY <1>1, <1>2, <1>5, <2>1, <2>2 DEF LinkInv
<1>9. ASSUME NEW c \in Client, Current(c) = j PROVE ClientInv(c, j)'
    <2>1. ClientInv(c, j) /\ down[j] \in Seq(Msg)
        BY <1>9 DEF IInv, TypeOK
    <2>2. Dated(down[j], work[j], up[j], mount[c])
        BY <2>1 DEF ClientInv
    <2>3. Dated(down[j], work'[j], Tail(up[j]), mount[c])
        <3>1. Dated(down[j], work[j], Tail(up[j]), mount[c])
            BY <1>3, <2>1, <2>2, DatedSteps
        <3>2. 1 \in DOMAIN up[j] /\ Head(up[j]) = up[j][1]
            BY <1>3
        <3>3. Head(up[j]).n <= mount[c]
            BY <1>3, <2>2, <3>2 DEF Dated
        <3> QED BY <1>5, <3>1, <3>3 DEF Dated
    <2>4. Released(up[j]) => Released(Tail(up[j])) /\ Has(Tail(up[j]), "release")
        BY <1>3, ReleasedSteps
    <2>5. Honest(down[j], work[j], up[j], mount[c], j, view[c]) =>
              Honest(down[j], work'[j], Tail(up[j]), mount[c], j, view[c])
        BY <1>3, <1>5, HonestAcquired
    <2>6. holder' # j => holder # j
        BY <1>1, <1>2
    <2> QED BY <1>2, <1>3, <2>1, <2>3, <2>4, <2>5, <2>6 DEF ClientInv
<1> QED BY <1>6, <1>7, <1>8, <1>9, ServesAll

\* An acquire is answered, and a lock taken is announced.
LEMMA AnswerStep ==
    ASSUME IInv, NEW j \in Conn, Answer(j)
    PROVE  IInv'
<1> DEFINE others == IF work[j].by = j THEN member \ {j} ELSE {}
           changed == [m |-> "changed", by |-> j]
<1>1. TypeOK /\ LinkInv(j) /\ down[j] \in Seq(Msg) /\ up[j] \in Seq(Call) /\ work[j] \in Work
    BY DEF IInv, TypeOK
<1>2. /\ work[j].m = "answer" /\ work' = [work EXCEPT ![j] = NoWork]
      /\ down' = [i \in Conn |-> IF i = j /\ j \in alive THEN Append(down[j], work[j])
                                 ELSE Told(others, changed)[i]]
      /\ UNCHANGED <<holder, member, up, alive, conn, mount, open, view, wants, asked, broken>>
    BY DEF Answer, editorVars
<1>3. changed \in Msg /\ changed.m # "answer" /\ work[j] \in Msg
    BY <1>1, <1>2, Kinds DEF Msg
<1> HIDE DEF others, changed
<1>4. /\ Told(others, changed) \in [Conn -> Seq(Msg)]
      /\ \A k \in Conn : \/ Told(others, changed)[k] = down[k]
                         \/ k \in alive /\ Told(others, changed)[k] = Append(down[k], changed)
    BY <1>1, <1>3, ToldFacts
<1>5. /\ down' \in [Conn -> Seq(Msg)]
      /\ j \in alive => down'[j] = Append(down[j], work[j])
      /\ j \notin alive => down'[j] = down[j]
      /\ \A k \in Conn \ {j} : \/ down'[k] = down[k]
                               \/ k \in alive /\ down'[k] = Append(down[k], changed)
    <2>1. Append(down[j], work[j]) \in Seq(Msg)
        BY <1>1, <1>3
    <2> QED BY <1>2, <1>4, <2>1
<1>6. work' \in [Conn -> Work] /\ work'[j] = NoWork /\ \A k \in Conn \ {j} : work'[k] = work[k]
    BY <1>1, <1>2, Kinds DEF TypeOK
<1>7. TypeOK'
    BY <1>1, <1>2, <1>5, <1>6 DEF TypeOK
<1>8. Serves(j)
    BY <1>2, <1>3, <1>5, <1>6 DEF Serves
<1>9. LinkInv(j)'
    <2>1. work[j] # NoWork
        BY <1>2, Kinds
    <2> QED BY <1>1, <1>2, <1>6, <2>1, Kinds DEF LinkInv, Unused
<1>10. ASSUME NEW c \in Client, Current(c) = j PROVE ClientInv(c, j)'
    <2>1. ClientInv(c, j)
        BY <1>10 DEF IInv
    <2>2. Dated(down[j], work[j], up[j], mount[c])
        BY <2>1 DEF ClientInv
    <2>3. Dated(down'[j], NoWork, up[j], mount[c])
        <3>1. Dated(down[j], NoWork, up[j], mount[c])
            BY <1>1, <2>2, DatedSteps
        <3>2. work[j].n <= mount[c]
            BY <1>2, <2>2 DEF Dated
        <3>3. Dated(Append(down[j], work[j]), NoWork, up[j], mount[c])
            BY <1>1, <1>3, <3>1, <3>2, DatedSteps
        <3> QED BY <1>5, <3>1, <3>3
    <2>4. j \in alive /\ holder # j /\ Honest(down[j], work[j], up[j], mount[c], j, view[c]) =>
              Honest(down'[j], NoWork, up[j], mount[c], j, view[c])
        <3>1. holder # j => work[j].by # j
            BY <1>1, <1>2 DEF LinkInv
        <3> QED BY <1>1, <1>2, <1>3, <1>5, <3>1, HonestAnswered
    <2> QED BY <1>2, <1>6, <2>1, <2>3, <2>4 DEF ClientInv
<1> QED BY <1>7, <1>8, <1>9, <1>10, ServesAll

\* A lock given back comes free.
LEMMA ReleaseStep ==
    ASSUME IInv, NEW j \in Conn, ReleaseLock(j)
    PROVE  IInv'
<1>1. TypeOK /\ LinkInv(j) /\ Free \notin Conn
    BY Connections DEF IInv
<1>2. /\ Starts(j, "release") /\ Pop(j)
      /\ IF holder = j THEN holder' = Free /\ work' = [work EXCEPT ![j] = [m |-> "freed"]]
                       ELSE UNCHANGED <<holder, work>>
      /\ UNCHANGED <<member, down, alive, conn, mount, open, view, wants, asked, broken>>
    BY DEF ReleaseLock, editorVars
<1>3. /\ work[j] = NoWork /\ up[j] # <<>> /\ Head(up[j]) \in Call /\ Head(up[j]).m = "release"
      /\ up[j] \in Seq(Call) /\ up'[j] = Tail(up[j]) /\ up' \in [Conn -> Seq(Call)]
      /\ \A k \in Conn \ {j} : up'[k] = up[k]
    BY <1>1, <1>2, StartFacts
<1>4. /\ work' \in [Conn -> Work] /\ \A k \in Conn \ {j} : work'[k] = work[k]
      /\ holder = j => holder' = Free /\ work'[j] = [m |-> "freed"]
      /\ holder # j => holder' = holder /\ work'[j] = work[j]
    BY <1>1, <1>2, Kinds DEF TypeOK
<1>5. TypeOK'
    BY <1>1, <1>2, <1>3, <1>4 DEF TypeOK
<1>6. Serves(j)
    BY <1>1, <1>2, <1>3, <1>4 DEF Serves
<1>7. LinkInv(j)'
    <2>1. ~(conn[j[1]] < j[2])
        BY <1>1, <1>3 DEF LinkInv, Unused
    <2>2. j \in alive => j \in member
        BY <1>1, <1>3 DEF LinkInv
    <2>3. work'[j].m # "answer"
        BY <1>3, <1>4, Kinds
    <2> QED BY <1>1, <1>2, <2>1, <2>2, <2>3 DEF LinkInv
<1>8. ASSUME NEW c \in Client, Current(c) = j PROVE ClientInv(c, j)'
    <2>1. ClientInv(c, j) /\ down[j] \in Seq(Msg)
        BY <1>8 DEF IInv, TypeOK
    <2>2. Dated(down[j], work[j], up[j], mount[c])
        BY <2>1 DEF ClientInv
    <2>3. Dated(down[j], work'[j], Tail(up[j]), mount[c])
        <3>1. Dated(down[j], work[j], Tail(up[j]), mount[c])
            BY <1>3, <2>1, <2>2, DatedSteps
        <3> QED BY <1>3, <1>4, <3>1, Kinds DEF Dated
    <2>4. holder' # j
        BY <1>1, <1>4
    <2>5. Released(up[j]) => Released(Tail(up[j]))
        BY <1>3, ReleasedSteps
    <2>6. holder # j /\ Honest(down[j], work[j], up[j], mount[c], j, view[c]) =>
              Honest(down[j], work'[j], Tail(up[j]), mount[c], j, view[c])
        BY <1>3, <1>4, HonestStarted
    <2>7. holder = j => Honest(down[j], work'[j], Tail(up[j]), mount[c], j, view[c])
        BY <1>4, HonestFreeing
    <2> QED BY <1>2, <1>3, <2>1, <2>3, <2>4, <2>5, <2>6, <2>7 DEF ClientInv
<1> QED BY <1>5, <1>6, <1>7, <1>8, ServesAll

\* The group is told that the lock is free.
LEMMA FreedStep ==
    ASSUME IInv, NEW j \in Conn, Freed(j)
    PROVE  IInv'
<1> DEFINE freed == [m |-> "changed", by |-> Free]
<1>1. TypeOK /\ LinkInv(j) /\ down[j] \in Seq(Msg) /\ up[j] \in Seq(Call)
    BY DEF IInv, TypeOK
<1>2. /\ work[j].m = "freed" /\ work' = [work EXCEPT ![j] = NoWork]
      /\ down' = Told(member, freed)
      /\ UNCHANGED <<holder, member, up, alive, conn, mount, open, view, wants, asked, broken>>
    BY DEF Freed, editorVars
<1>3. freed \in Msg /\ freed.m = "changed"
    BY DEF Msg
<1> HIDE DEF freed
<1>4. /\ down' \in [Conn -> Seq(Msg)]
      /\ \A k \in Conn : down'[k] = down[k] \/ (k \in alive /\ down'[k] = Append(down[k], freed))
      /\ \A k \in Conn : k \in member \cap alive => down'[k] = Append(down[k], freed)
    BY <1>1, <1>2, <1>3, ToldFacts
<1>5. work' \in [Conn -> Work] /\ work'[j] = NoWork /\ \A k \in Conn \ {j} : work'[k] = work[k]
    BY <1>1, <1>2, Kinds DEF TypeOK
<1>6. TypeOK'
    BY <1>1, <1>2, <1>4, <1>5 DEF TypeOK
<1>7. Serves(j)
    BY <1>2, <1>3, <1>4, <1>5 DEF Serves
<1>8. work[j] # NoWork
    BY <1>2, Kinds
<1>9. LinkInv(j)'
    BY <1>1, <1>2, <1>5, <1>8, Kinds DEF LinkInv, Unused
<1>10. ASSUME NEW c \in Client, Current(c) = j PROVE ClientInv(c, j)'
    <2>1. ClientInv(c, j)
        BY <1>10 DEF IInv
    <2>2. Dated(down[j], NoWork, up[j], mount[c])
        BY <1>1, <2>1, DatedSteps DEF ClientInv
    <2>3. Dated(Append(down[j], freed), NoWork, up[j], mount[c])
        BY <1>1, <1>3, <2>2, DatedSteps
    <2>4. j \in alive => Honest(down'[j], NoWork, up[j], mount[c], j, view[c])
        <3>1. j \in alive => down'[j] = Append(down[j], freed)
            BY <1>1, <1>4, <1>8 DEF LinkInv
        <3> QED BY <1>1, <1>3, <3>1, HonestTold DEF Won, Tells
    <2> QED BY <1>2, <1>4, <1>5, <2>1, <2>2, <2>3, <2>4 DEF ClientInv
<1> QED BY <1>6, <1>7, <1>9, <1>10, ServesAll

\* The holder is asked for the lock.
LEMMA RequestStep ==
    ASSUME IInv, NEW j \in Conn, RequestLock(j)
    PROVE  IInv'
<1> DEFINE asks == [m |-> "asked"]
<1>1. TypeOK /\ LinkInv(j) /\ down[j] \in Seq(Msg)
    BY DEF IInv, TypeOK
<1>2. /\ Starts(j, "request") /\ Pop(j)
      /\ down' = Told({holder}, asks)
      /\ UNCHANGED <<holder, member, work, alive, conn, mount, open, view, wants, asked, broken>>
    BY DEF RequestLock, editorVars
<1>3. asks \in Msg /\ asks.m = "asked"
    BY DEF Msg
<1> HIDE DEF asks
<1>4. /\ down' \in [Conn -> Seq(Msg)]
      /\ \A k \in Conn : down'[k] = down[k] \/ (k \in alive /\ down'[k] = Append(down[k], asks))
    BY <1>1, <1>2, <1>3, ToldFacts
<1>5. /\ work[j] = NoWork /\ up[j] # <<>> /\ Head(up[j]) \in Call /\ Head(up[j]).m = "request"
      /\ up[j] \in Seq(Call) /\ up'[j] = Tail(up[j]) /\ up' \in [Conn -> Seq(Call)]
      /\ \A k \in Conn \ {j} : up'[k] = up[k]
    BY <1>1, <1>2, StartFacts
<1>6. TypeOK'
    BY <1>1, <1>2, <1>4, <1>5 DEF TypeOK
<1>7. Serves(j)
    BY <1>2, <1>3, <1>4, <1>5 DEF Serves
<1>8. LinkInv(j)'
    <2>1. ~(conn[j[1]] < j[2])
        BY <1>1, <1>5 DEF LinkInv, Unused
    <2>2. j \in alive => j \in member
        BY <1>1, <1>5 DEF LinkInv
    <2> QED BY <1>1, <1>2, <2>1, <2>2 DEF LinkInv
<1>9. ASSUME NEW c \in Client, Current(c) = j PROVE ClientInv(c, j)'
    <2>1. ClientInv(c, j)
        BY <1>9 DEF IInv
    <2>2. Dated(down[j], work[j], Tail(up[j]), mount[c])
        BY <1>1, <1>5, <2>1, DatedSteps DEF ClientInv
    <2>3. Tail(up[j]) \in Seq(Call)
        BY <1>5
    <2>4. Dated(Append(down[j], asks), work[j], Tail(up[j]), mount[c])
        BY <1>1, <1>3, <2>2, <2>3, DatedSteps
    <2>5. /\ Released(up[j]) => Released(Tail(up[j]))
          /\ Has(up[j], "release") => Has(Tail(up[j]), "release")
        BY <1>5, ReleasedSteps
    <2>6. Honest(down[j], work[j], up[j], mount[c], j, view[c]) =>
              Honest(down[j], work[j], Tail(up[j]), mount[c], j, view[c])
        BY <1>5, HonestStarted
    <2>7. Honest(down[j], work[j], Tail(up[j]), mount[c], j, view[c]) =>
              Honest(Append(down[j], asks), work[j], Tail(up[j]), mount[c], j, view[c])
        BY <1>1, <1>3, HonestSaid DEF Won
    <2> QED BY <1>2, <1>4, <1>5, <2>1, <2>2, <2>4, <2>5, <2>6, <2>7 DEF ClientInv
<1> QED BY <1>6, <1>7, <1>8, <1>9, ServesAll

\* The hub forgets a lost connection, and frees its lock.
LEMMA DisconnectStep ==
    ASSUME IInv, NEW j \in Conn, OnDisconnected(j)
    PROVE  IInv'
<1>1. TypeOK /\ LinkInv(j) /\ Free \notin Conn
    BY Connections DEF IInv
<1>2. /\ j \notin alive /\ work[j] = NoWork
      /\ j \in member \/ up[j] # <<>> \/ holder = j
      /\ up' = [up EXCEPT ![j] = <<>>] /\ member' = member \ {j}
      /\ IF holder = j THEN holder' = Free /\ work' = [work EXCEPT ![j] = [m |-> "freed"]]
                       ELSE UNCHANGED <<holder, work>>
      /\ UNCHANGED <<down, alive, conn, mount, open, view, wants, asked, broken>>
    BY DEF OnDisconnected, editorVars
<1>3. /\ work' \in [Conn -> Work] /\ \A k \in Conn \ {j} : work'[k] = work[k]
      /\ work'[j].m # "answer"
      /\ holder = j => holder' = Free
      /\ holder # j => holder' = holder
    <2>1. work \in [Conn -> Work] /\ [m |-> "freed"] \in Work /\ NoWork.m = "none"
        BY <1>1, Kinds DEF TypeOK
    <2>2. CASE holder = j
        BY <1>2, <2>1, <2>2
    <2>3. CASE holder # j
        BY <1>2, <2>1, <2>3
    <2> QED BY <2>2, <2>3
<1>4. up' \in [Conn -> Seq(Call)] /\ up'[j] = <<>> /\ \A k \in Conn \ {j} : up'[k] = up[k]
    BY <1>1, <1>2 DEF TypeOK
<1>5. TypeOK'
    BY <1>1, <1>2, <1>3, <1>4 DEF TypeOK
<1>6. Serves(j)
    BY <1>1, <1>2, <1>3, <1>4 DEF Serves
<1>7. LinkInv(j)'
    <2>1. ~(conn[j[1]] < j[2])
        BY <1>1, <1>2 DEF LinkInv, Unused
    <2> QED BY <1>2, <1>3, <2>1 DEF LinkInv
<1>8. ASSUME NEW c \in Client, Current(c) = j PROVE ClientInv(c, j)'
    <2>1. ClientInv(c, j)
        BY <1>8 DEF IInv
    <2>2. Dated(down[j], work'[j], <<>>, mount[c])
        BY <1>3, <2>1 DEF ClientInv, Dated
    <2> QED BY <1>2, <1>4, <2>1, <2>2 DEF ClientInv
<1> QED BY <1>5, <1>6, <1>7, <1>8, ServesAll
-----------------------------------------------------------------------------
(* The theorems.                                                            *)

LEMMA InitInv == Init => IInv
<1> SUFFICES ASSUME Init PROVE IInv
    OBVIOUS
<1>1. TypeOK
    BY LockBounds, Kinds DEF Init, TypeOK, Current, Conn
<1>2. ASSUME NEW c \in Client PROVE ClientInv(c, Current(c))
    <2>1. PICK k \in Conn : k = Current(c)
        BY <1>1, Connections
    <2>2. up[k] = <<>> /\ down[k] = <<>> /\ work[k] = NoWork /\ k \in alive /\ ~open[c] /\ holder # k
        BY <1>1, <2>1, Connections DEF Init
    <2> QED BY <2>1, <2>2, Kinds DEF ClientInv, Dated, Released
<1>3. ASSUME NEW k \in Conn PROVE LinkInv(k)
    <2>1. k[1] \in Client /\ k[2] \in 1..MaxConn /\ k = <<k[1], k[2]>> /\ Free \notin Conn
        BY <1>1, Connections
    <2>2. conn[k[1]] = 1
        BY <2>1 DEF Init
    <2>3. /\ up[k] = <<>> /\ down[k] = <<>> /\ work[k] = NoWork /\ holder # k /\ member = alive
          /\ alive = {Current(c) : c \in Client}
        BY <2>1 DEF Init
    <2>4. k \in alive => k[2] = 1
        BY <2>3 DEF Init, Current
    <2> QED BY <2>2, <2>3, <2>4, Kinds DEF LinkInv, Unused
<1> QED BY <1>1, <1>2, <1>3 DEF IInv

LEMMA StepInv == IInv /\ [Next]_vars => IInv'
<1> SUFFICES ASSUME IInv, [Next]_vars PROVE IInv'
    OBVIOUS
<1>1. CASE UNCHANGED vars
    BY <1>1 DEF vars, IInv, TypeOK, LinkInv, ClientInv, Unused, Current
<1>2. ASSUME NEW c \in Client,
             Open(c) \/ Close(c) \/ Ask(c) \/ HandOver(c) \/ Later(c) \/ Receive(c) \/ Drop(c) \/ Reconnect(c)
      PROVE  IInv'
    BY <1>2, EditorSteps, ReceiveStep, DropStep, ReconnectStep
<1>3. ASSUME NEW k \in Conn, Server(k) PROVE IInv'
    BY <1>3, JoinStep, AcquireStep, AnswerStep, ReleaseStep, FreedStep, RequestStep, DisconnectStep DEF Server
<1>4. CASE Restart
    BY <1>4, RestartStep
<1> QED BY <1>1, <1>2, <1>3, <1>4 DEF Next

\* The invariant the theorems below follow from.
THEOREM LocksInvariant == Spec => []IInv
    BY InitInv, StepInv, PTL DEF Spec

\* The registry holds a connection or nobody, and what is queued is well formed.
THEOREM TypeCorrect == Spec => []TypeOK
<1>1. IInv => TypeOK
    BY DEF IInv
<1> QED BY <1>1, LocksInvariant, PTL

\* EditorAreaWidget gives the lock back when an editor closes, VaultHub answers an
\* acquire that is no longer wanted, and no order of the two keeps the lock for a
\* client that has no editor.
THEOREM NoLockForgotten == Spec => []NoForgottenLock
<1>1. IInv => NoForgottenLock
    <2> SUFFICES ASSUME IInv, NEW c \in Client, AtRest(c), holder = Current(c) PROVE open[c]
        BY DEF NoForgottenLock
    <2>1. Current(c) \in alive /\ up[Current(c)] = <<>> /\ ClientInv(c, Current(c))
        BY DEF IInv, AtRest
    <2> QED BY <2>1 DEF ClientInv, Has
<1> QED BY <1>1, LocksInvariant, PTL

\* An editor at rest that lets its user write is the one the registry names, whatever
\* was asked for, handed over, answered or announced before.
THEOREM WritersHold == Spec => []SteadyWritersHold
<1>1. IInv => SteadyWritersHold
    <2> SUFFICES ASSUME IInv, NEW c \in Client, AtRest(c), ~broken[c], open[c], view[c] = "mine"
                 PROVE  holder = Current(c)
        BY DEF SteadyWritersHold
    <2>1. PICK k \in Conn : k = Current(c)
        BY Connections DEF IInv
    <2>2. k \in alive /\ work[k] = NoWork /\ up[k] = <<>> /\ down[k] = <<>> /\ ClientInv(c, k)
        BY <2>1 DEF IInv, AtRest
    <2>3. ~Due(down[k], work[k], up[k], mount[c], 0)
        BY <2>2, Kinds DEF Due
    <2> QED BY <2>1, <2>2, <2>3 DEF ClientInv, Honest
<1> QED BY <1>1, LocksInvariant, PTL

\* What the lock is for: two editors at rest, on connections that have not broken
\* since they opened, never both let their users write.
OneWriter ==
    \A c, d \in Client :
        (/\ AtRest(c) /\ ~broken[c] /\ open[c] /\ view[c] = "mine"
         /\ AtRest(d) /\ ~broken[d] /\ open[d] /\ view[d] = "mine") => c = d
THEOREM OneSteadyWriter == Spec => []OneWriter
<1>1. TypeOK /\ SteadyWritersHold => OneWriter
    BY Connections DEF SteadyWritersHold, OneWriter
<1> QED BY <1>1, TypeCorrect, WritersHold, PTL
=============================================================================
