------------------------- MODULE PushRecoveryProofs -------------------------
(***************************************************************************)
(* Proofs about lost pushes and flush(): types, that no edit is forgotten,  *)
(* and that a flush that ends without an error has sent what it promised,   *)
(* as long as no loss is counted after two flushes have sent at the same    *)
(* time.  For any channels, edits and callers of flush().                   *)
(*                                                                         *)
(* lostPushes is one number for all the channels: it says that something is *)
(* owed, not what.  The inductive invariant says what a flush that is       *)
(* sending leaves out: nothing, or what was counted after it read the       *)
(* number, and so stays counted when it subtracts it.                       *)
(***************************************************************************)
EXTENDS PushRecovery, Integers, Sequences, TLAPS, FiniteSetTheorems

\* Flush f is sending states.  Nothing is about to bring edit u of channel ch to the
\* server but a flush; flush f will: u is in the state it has sent, or its channel
\* is still to be sent.
Pushing(f) == flush[f].pc = "push"
Owed(ch, u) == u \in shown[ch] \ saved[ch] /\ ~Awaited(ch, u)
Covered(f, ch, u) ==
    \E i \in DOMAIN Channels :
        /\ Channels[i] = ch
        /\ \/ i > flush[f].at
           \/ i = flush[f].at /\ \E j \in DOMAIN line : line[j].by = f /\ u \in line[j].st
Covers(f) == \A ch \in Chan : \A u \in Update : Owed(ch, u) => Covered(f, ch, u)

\* A call the server has taken is saved; a flush has one call on the way, the state
\* of the channel it is at.
LineInv ==
    /\ \A i \in DOMAIN line : line[i].res = "ok" => line[i].st \subseteq saved[line[i].ch]
    /\ \A i \in DOMAIN line : line[i].by \in Flusher =>
          flush[line[i].by].pc = "push" /\ line[i].ch = Channels[flush[line[i].by].at]
    /\ \A i, j \in DOMAIN line : line[i].by = line[j].by /\ line[i].by \in Flusher => i = j

\* A flush that is sending leaves out only what was counted after it read lostPushes.
FlushInv(f) ==
    /\ Pushing(f) => Connected
    /\ flush[f].pc = "settle" => flush[f].at = 1
    /\ \A ch \in Chan : \A u \in Update : <<ch, u>> \in flush[f].goal =>
          /\ u \in shown[ch]
          /\ Pushing(f) => u \in saved[ch] \/ Covered(f, ch, u)
          /\ crossed # "yes" /\ flush[f].pc = "ok" => u \in saved[ch]
    /\ crossed # "yes" /\ Pushing(f) => Covers(f) \/ lost > flush[f].count
    /\ crossed = "no" /\ Pushing(f) => flush[f].count <= lost

\* Of two flushes that are sending, one leaves nothing out.
PairInv ==
    \A f, g \in Flusher : Pushing(f) /\ Pushing(g) /\ f # g =>
        crossed # "no" /\ (crossed = "beside" => Covers(f) \/ Covers(g))

IInv == /\ TypeOK
        /\ LineInv
        /\ \A f \in Flusher : FlushInv(f)
        /\ PairInv
        /\ SavedOrCounted
        /\ crossed = "beside" => Connected
        /\ phase # "up" => ~Running(Back)
-----------------------------------------------------------------------------
(* What a step leaves to a flush.                                           *)

\* What is shown and saved grows; nothing more is owed; the calls of flush f stay on
\* the line; two flushes that have sent at the same time are not forgotten.
Grows == \A ch \in Chan : shown[ch] \subseteq shown'[ch] /\ saved[ch] \subseteq saved'[ch]
Shrinks == \A ch \in Chan : \A u \in Update : Owed(ch, u)' => Owed(ch, u)
Keeps(f) == \A j \in DOMAIN line : line[j].by = f =>
               \E l \in DOMAIN line' : line'[l].by = f /\ line'[l].st = line[j].st
Crossing == (crossed' # "yes" => crossed # "yes") /\ (crossed' = "no" => crossed = "no")

LEMMA Bounds ==
    /\ Len(Channels) \in Nat \ {0} /\ DOMAIN Channels = 1..Len(Channels)
    /\ \A i \in 1..Len(Channels) : Channels[i] \in Chan
    /\ \A ch \in Chan : \E i \in DOMAIN Channels : Channels[i] = ch
    /\ Nobody \notin Flusher /\ Back \in Flusher /\ Back \notin Transfer
<1>1. Len(Channels) \in Nat \ {0} /\ DOMAIN Channels = 1..Len(Channels)
    BY ChannelsAssumption
<1>2. /\ \A i \in 1..Len(Channels) : Channels[i] \in Chan
      /\ \A ch \in Chan : \E i \in DOMAIN Channels : Channels[i] = ch
    BY <1>1 DEF Chan
<1>3. Nobody \notin Flusher /\ Back \in Flusher /\ Back \notin Transfer
    BY FlusherAssumption DEF Flusher
<1> QED BY <1>1, <1>2, <1>3

LEMMA CoveredKept ==
    ASSUME NEW f, flush'[f] = flush[f], Keeps(f), NEW ch, NEW u, Covered(f, ch, u)
    PROVE  Covered(f, ch, u)'
<1>1. PICK i \in DOMAIN Channels :
          /\ Channels[i] = ch
          /\ i > flush[f].at \/ (i = flush[f].at /\ \E j \in DOMAIN line : line[j].by = f /\ u \in line[j].st)
    BY DEF Covered
<1>2. (\E j \in DOMAIN line : line[j].by = f /\ u \in line[j].st) =>
          \E j \in DOMAIN line' : line'[j].by = f /\ u \in line'[j].st
    BY DEF Keeps
<1> QED BY <1>1, <1>2 DEF Covered

LEMMA CoversKept ==
    ASSUME NEW f, flush'[f] = flush[f], Keeps(f), Shrinks, Covers(f)
    PROVE  Covers(f)'
<1>1. ASSUME NEW ch \in Chan, NEW u \in Update, Owed(ch, u)' PROVE Covered(f, ch, u)'
    <2>1. Covered(f, ch, u)
        BY <1>1 DEF Shrinks, Covers
    <2> QED BY <2>1, CoveredKept
<1> QED BY <1>1 DEF Covers

\* A flush that a step does not touch.
LEMMA FlushKept ==
    ASSUME TypeOK, NEW f \in Flusher, FlushInv(f), flush'[f] = flush[f], Keeps(f), Grows, Crossing,
           lost' \in Nat, Pushing(f) => Connected',
           Pushing(f) /\ crossed' # "yes" =>
              \/ Shrinks /\ lost' >= lost
              \/ Covers(f)' /\ crossed' # "no"
              \/ crossed = "no" /\ lost' = lost + 1
    PROVE  FlushInv(f)'
<1>1. lost \in Nat /\ flush[f].count \in Nat
    BY DEF TypeOK, Flush
<1>2. /\ (Pushing(f) => Connected)
      /\ (flush[f].pc = "settle" => flush[f].at = 1)
      /\ (crossed # "yes" /\ Pushing(f) => Covers(f) \/ lost > flush[f].count)
      /\ (crossed = "no" /\ Pushing(f) => flush[f].count <= lost)
    BY DEF FlushInv
<1>3. Pushing(f)' <=> Pushing(f)
    BY DEF Pushing
<1>4. ASSUME NEW ch \in Chan, NEW u \in Update, <<ch, u>> \in flush'[f].goal
      PROVE  /\ u \in shown'[ch]
             /\ Pushing(f)' => u \in saved'[ch] \/ Covered(f, ch, u)'
             /\ crossed' # "yes" /\ flush'[f].pc = "ok" => u \in saved'[ch]
    <2>1. /\ u \in shown[ch]
          /\ Pushing(f) => u \in saved[ch] \/ Covered(f, ch, u)
          /\ crossed # "yes" /\ flush[f].pc = "ok" => u \in saved[ch]
        BY <1>4 DEF FlushInv
    <2>2. Covered(f, ch, u) => Covered(f, ch, u)'
        BY CoveredKept
    <2> QED BY <1>3, <2>1, <2>2 DEF Grows, Crossing
<1>5. Shrinks /\ Covers(f) => Covers(f)'
    BY CoversKept
<1>6. crossed' # "yes" /\ Pushing(f) => Covers(f)' \/ lost' > flush[f].count
    BY <1>1, <1>2, <1>5 DEF Crossing
<1>7. crossed' = "no" /\ Pushing(f) => flush[f].count <= lost'
    BY <1>1, <1>2 DEF Crossing
<1> QED BY <1>2, <1>3, <1>4, <1>6, <1>7 DEF FlushInv

\* The property, of what is owed.
LEMMA OwedCounted ==
    /\ TypeOK => (SavedOrCounted <=>
          (crossed # "yes" => \A ch \in Chan : \A u \in Update : Owed(ch, u) => lost > 0))
    /\ TypeOK' => (SavedOrCounted' <=>
          (crossed' # "yes" => \A ch \in Chan : \A u \in Update : Owed(ch, u)' => lost' > 0))
    BY DEF SavedOrCounted, Owed, TypeOK

\* What is owed does not grow while the line keeps the edits on their way, or the
\* server saves them.
LEMMA NothingMoreOwed ==
    ASSUME Grows, shown' = shown, NEW ch \in Chan, NEW u \in Update,
           Awaited(ch, u) => Awaited(ch, u)' \/ u \in saved'[ch], Owed(ch, u)'
    PROVE  Owed(ch, u)
    BY DEF Grows, Owed
-----------------------------------------------------------------------------
(* The steps.                                                               *)

LEMMA LineFacts ==
    ASSUME TypeOK
    PROVE  /\ \A i \in DOMAIN line : /\ line[i] \in Call /\ line[i].ch \in Chan
                                     /\ line[i].st \in SUBSET Update
                                     /\ line[i].by \in Flusher \cup {Nobody}
           /\ line # <<>> =>
                 /\ 1 \in DOMAIN line /\ Head(line) = line[1] /\ Tail(line) \in Seq(Call)
                 /\ \A i \in DOMAIN Tail(line) : i + 1 \in DOMAIN line /\ Tail(line)[i] = line[i + 1] /\ i + 1 # 1
                 /\ \A i \in DOMAIN line : i = 1 \/ (i - 1 \in DOMAIN Tail(line) /\ Tail(line)[i - 1] = line[i])
           /\ \A ch \in Chan : \A st \in SUBSET Update : \A by \in Flusher \cup {Nobody} :
                 Sent(ch, st, by) \in Call
<1>1. line \in Seq(Call)
    BY DEF TypeOK
<1>2. \A i \in DOMAIN line : line[i] \in Call
    BY <1>1
<1>3. line # <<>> =>
                 /\ 1 \in DOMAIN line /\ Head(line) = line[1] /\ Tail(line) \in Seq(Call)
                 /\ \A i \in DOMAIN Tail(line) : i + 1 \in DOMAIN line /\ Tail(line)[i] = line[i + 1] /\ i + 1 # 1
                 /\ \A i \in DOMAIN line : i = 1 \/ (i - 1 \in DOMAIN Tail(line) /\ Tail(line)[i - 1] = line[i])
    BY <1>1
<1>4. \A ch \in Chan : \A st \in SUBSET Update : \A by \in Flusher \cup {Nobody} :
                 Sent(ch, st, by) \in Call
    BY DEF Sent, Call
<1> QED BY <1>2, <1>3, <1>4 DEF Call

\* A call e joins the end of the line s.
LEMMA JoinLine ==
    ASSUME NEW s \in Seq(Call), NEW e \in Call
    PROVE  /\ Append(s, e) \in Seq(Call)
           /\ \A i \in DOMAIN Append(s, e) :
                 (i \in DOMAIN s /\ Append(s, e)[i] = s[i]) \/ (i = Len(s) + 1 /\ Append(s, e)[i] = e)
           /\ \A i \in DOMAIN s : i \in DOMAIN Append(s, e) /\ Append(s, e)[i] = s[i] /\ i # Len(s) + 1
           /\ Len(s) + 1 \in DOMAIN Append(s, e) /\ Append(s, e)[Len(s) + 1] = e
    OBVIOUS

\* A step that leaves every flush alone, counts no loss, and leaves nothing more owed.
LEMMA QuietStep ==
    ASSUME IInv, TypeOK', LineInv', flush' = flush, \A f \in Flusher : Keeps(f),
           Grows, Shrinks, lost' = lost, crossed' = crossed, Connected => Connected',
           phase' # "up" => phase # "up"
    PROVE  IInv'
<1> USE DEF IInv
<1>1. ASSUME NEW f \in Flusher PROVE FlushInv(f)' /\ (Covers(f) => Covers(f)') /\ (Pushing(f)' <=> Pushing(f))
    <2>1. FlushInv(f) /\ (Pushing(f) => Connected) /\ lost \in Nat /\ lost' \in Nat
        BY DEF FlushInv, TypeOK
    <2>2. FlushInv(f)'
        BY <2>1, FlushKept DEF Crossing
    <2>3. Covers(f) => Covers(f)'
        BY CoversKept
    <2> QED BY <2>2, <2>3 DEF Pushing
<1>2. PairInv'
    BY <1>1 DEF PairInv
<1>3. SavedOrCounted'
    BY OwedCounted DEF Shrinks
<1>4. phase' # "up" => ~Running(Back)'
    BY DEF Running
<1> QED BY <1>1, <1>2, <1>3, <1>4

\* A push of an edit that the hub is to be asked for, or a loss.
LEMMA EditStep ==
    ASSUME IInv, NEW ch \in Chan, NEW u \in Update, Edit(ch, u)
    PROVE  IInv'
<1> USE DEF IInv
<1>1. /\ shown' = [shown EXCEPT ![ch] = @ \cup {u}]
      /\ IF Connected THEN line' = Append(line, Sent(ch, {u}, Nobody)) /\ UNCHANGED lost
                      ELSE lost' = lost + 1 /\ UNCHANGED line
      /\ UNCHANGED <<phase, saved, flush, crossed>>
    BY DEF Edit
<1>2. /\ shown' \in [Chan -> SUBSET Update] /\ Grows
      /\ \A d \in Chan : \A v \in Update : v \in shown'[d] => v \in shown[d] \/ (d = ch /\ v = u)
    BY <1>1 DEF TypeOK, Grows
<1>3. Connected' <=> Connected
    BY <1>1 DEF Connected
<1>4. CASE Connected
    <2> DEFINE e == Sent(ch, {u}, Nobody)
    <2>1. e \in Call /\ e.by = Nobody /\ e.res = "sent" /\ e.ch = ch /\ e.st = {u} /\ line \in Seq(Call)
        BY LineFacts DEF Sent, TypeOK
    <2>2. line' = Append(line, e) /\ lost' = lost
        BY <1>1, <1>4
    <2> HIDE DEF e
    <2>3. /\ line' \in Seq(Call)
          /\ \A i \in DOMAIN line' : (i \in DOMAIN line /\ line'[i] = line[i]) \/ line'[i] = e
          /\ \A i \in DOMAIN line : i \in DOMAIN line' /\ line'[i] = line[i]
          /\ Len(line) + 1 \in DOMAIN line' /\ line'[Len(line) + 1] = e
        BY <2>1, <2>2, JoinLine
    <2>4. TypeOK'
        BY <1>1, <1>2, <2>2, <2>3 DEF TypeOK
    <2>5. LineInv'
        <3>1. \A i \in DOMAIN line' : (i \in DOMAIN line /\ line'[i] = line[i]) \/ line'[i].by \notin Flusher
            BY <2>1, <2>3, Bounds
        <3>2. \A i \in DOMAIN line' : line'[i].res = "ok" => line'[i].st \subseteq saved'[line'[i].ch]
            BY <1>1, <2>1, <2>3 DEF LineInv
        <3>3. \A i \in DOMAIN line' : line'[i].by \in Flusher =>
                  flush'[line'[i].by].pc = "push" /\ line'[i].ch = Channels[flush'[line'[i].by].at]
            BY <1>1, <3>1 DEF LineInv
        <3>4. \A i, j \in DOMAIN line' : line'[i].by = line'[j].by /\ line'[i].by \in Flusher => i = j
            BY <3>1 DEF LineInv
        <3> QED BY <3>2, <3>3, <3>4 DEF LineInv
    <2>6. \A f \in Flusher : Keeps(f)
        BY <2>3 DEF Keeps
    <2>7. Shrinks
        <3>1. \A d \in Chan : \A v \in Update : Awaited(d, v) => Awaited(d, v)'
            BY <2>3 DEF Awaited, Edits
        <3>2. Awaited(ch, u)'
            BY <2>1, <2>3 DEF Awaited, Edits
        <3> QED BY <1>1, <1>2, <3>1, <3>2 DEF Shrinks, Owed
    <2> QED BY <1>1, <1>2, <1>3, <2>2, <2>4, <2>5, <2>6, <2>7, QuietStep
<1>5. CASE ~Connected
    <2>1. line' = line /\ lost' = lost + 1 /\ lost \in Nat /\ crossed # "beside"
        BY <1>1, <1>5 DEF TypeOK
    <2>2. TypeOK'
        BY <1>1, <1>2, <2>1 DEF TypeOK
    <2>3. LineInv'
        BY <1>1, <2>1 DEF LineInv
    <2>4. \A f \in Flusher : ~Pushing(f) /\ ~Pushing(f)'
        BY <1>1, <1>5 DEF FlushInv, Pushing
    <2>5. ASSUME NEW f \in Flusher PROVE FlushInv(f)'
        BY <1>1, <1>2, <2>4 DEF FlushInv, Grows
    <2>6. SavedOrCounted'
        BY <2>1 DEF SavedOrCounted
    <2>7. phase' # "up" => ~Running(Back)'
        BY <1>1 DEF Running
    <2>8. PairInv'
        BY <2>4 DEF PairInv
    <2> QED BY <1>1, <1>3, <2>1, <2>2, <2>3, <2>5, <2>6, <2>7, <2>8
<1> QED BY <1>4, <1>5

\* The server takes a call or refuses it.
LEMMA ServeStep ==
    ASSUME IInv, NEW res \in {"ok", "refused"}, Serve(res)
    PROVE  IInv'
<1> USE DEF IInv
<1>1. PICK n \in DOMAIN line :
          /\ line' = [line EXCEPT ![n].res = res]
          /\ saved' = IF res = "ok" THEN [saved EXCEPT ![line[n].ch] = @ \cup line[n].st] ELSE saved
    BY DEF Serve
<1>2. UNCHANGED <<phase, shown, lost, flush, crossed>>
    BY DEF Serve
<1>3. /\ line[n] \in Call /\ line[n].ch \in Chan /\ line[n].st \in SUBSET Update
      /\ line \in Seq(Call) /\ saved \in [Chan -> SUBSET Update]
    BY <1>1, LineFacts DEF TypeOK
<1>4. /\ line' \in Seq(Call) /\ DOMAIN line' = DOMAIN line
      /\ \A i \in DOMAIN line : /\ line'[i].by = line[i].by /\ line'[i].ch = line[i].ch
                                /\ line'[i].st = line[i].st
                                /\ i # n => line'[i] = line[i]
      /\ line'[n].res = res
    <2>1. [line[n] EXCEPT !.res = res] \in Call
        BY <1>3 DEF Call
    <2>2. line' = [line EXCEPT ![n] = [line[n] EXCEPT !.res = res]]
        BY <1>1
    <2>3. /\ [line[n] EXCEPT !.res = res].by = line[n].by /\ [line[n] EXCEPT !.res = res].ch = line[n].ch
          /\ [line[n] EXCEPT !.res = res].st = line[n].st /\ [line[n] EXCEPT !.res = res].res = res
        BY <1>3 DEF Call
    <2>4. /\ line' \in Seq(Call) /\ DOMAIN line' = DOMAIN line
          /\ \A i \in DOMAIN line : i # n => line'[i] = line[i]
          /\ line'[n] = [line[n] EXCEPT !.res = res]
        BY <1>1, <1>3, <2>1, <2>2
    <2> QED BY <2>3, <2>4
<1>5. /\ saved' \in [Chan -> SUBSET Update] /\ Grows
      /\ res = "ok" => line[n].st \subseteq saved'[line[n].ch]
    BY <1>1, <1>2, <1>3 DEF Grows
<1>6. TypeOK'
    BY <1>2, <1>4, <1>5 DEF TypeOK
<1>7. LineInv'
    <2>1. ASSUME NEW i \in DOMAIN line', line'[i].res = "ok" PROVE line'[i].st \subseteq saved'[line'[i].ch]
        <3>1. CASE i = n
            BY <1>4, <1>5, <2>1, <3>1
        <3>2. CASE i # n
            <4>1. line[i].st \subseteq saved[line[i].ch] /\ line[i].ch \in Chan
                BY <1>4, <2>1, <3>2, LineFacts DEF LineInv
            <4> QED BY <1>4, <1>5, <2>1, <4>1 DEF Grows
        <3> QED BY <3>1, <3>2
    <2> QED BY <1>2, <1>4, <2>1 DEF LineInv
<1>8. \A f \in Flusher : Keeps(f)
    BY <1>4 DEF Keeps
<1>9. Shrinks
    <2>1. \A d \in Chan : \A v \in Update : Awaited(d, v) => Awaited(d, v)'
        BY <1>4 DEF Awaited, Edits
    <2> QED BY <1>2, <1>5, <2>1, NothingMoreOwed DEF Shrinks
<1>10. Connected' <=> Connected
    BY <1>2 DEF Connected
<1> QED BY <1>2, <1>5, <1>6, <1>7, <1>8, <1>9, <1>10, QuietStep

\* An edit's push is answered: it is saved, or it is counted.
LEMMA EditAnsweredStep ==
    ASSUME IInv, EditAnswered
    PROVE  IInv'
<1> USE DEF IInv
<1>1. /\ line # <<>> /\ Head(line).by = Nobody /\ Head(line).res # "sent"
      /\ line' = Tail(line)
      /\ lost' = IF Head(line).res = "refused" THEN lost + 1 ELSE lost
      /\ crossed' = IF Head(line).res = "refused" /\ crossed = "beside" THEN "yes" ELSE crossed
      /\ UNCHANGED <<phase, shown, saved, flush>>
    BY DEF EditAnswered
<1>2. /\ 1 \in DOMAIN line /\ Head(line) = line[1] /\ line' \in Seq(Call)
      /\ \A i \in DOMAIN line' : i + 1 \in DOMAIN line /\ line'[i] = line[i + 1] /\ i + 1 # 1
      /\ \A i \in DOMAIN line : i = 1 \/ (i - 1 \in DOMAIN line' /\ line'[i - 1] = line[i])
    BY <1>1, LineFacts
<1>3. Head(line).by \notin Flusher /\ Head(line).res \in {"ok", "refused"}
    <2>1. Head(line) \in Call
        BY <1>2, LineFacts
    <2> QED BY <1>1, <2>1, Bounds DEF Call
<1>4. lost \in Nat /\ lost' \in Nat /\ lost' >= lost /\ TypeOK'
    BY <1>1, <1>2 DEF TypeOK
<1>5. LineInv'
    <2>1. \A i \in DOMAIN line' : line'[i].res = "ok" => line'[i].st \subseteq saved'[line'[i].ch]
        BY <1>1, <1>2 DEF LineInv
    <2>2. \A i \in DOMAIN line' : line'[i].by \in Flusher =>
              flush'[line'[i].by].pc = "push" /\ line'[i].ch = Channels[flush'[line'[i].by].at]
        BY <1>1, <1>2 DEF LineInv
    <2>3. \A i, j \in DOMAIN line' : line'[i].by = line'[j].by /\ line'[i].by \in Flusher => i = j
        <3>1. ASSUME NEW i \in DOMAIN line', NEW j \in DOMAIN line',
                     line'[i].by = line'[j].by, line'[i].by \in Flusher
              PROVE  i = j
            <4>1. i + 1 = j + 1
                BY <1>2, <3>1 DEF LineInv
            <4> QED BY <1>2, <4>1
        <3> QED BY <3>1
    <2> QED BY <2>1, <2>2, <2>3 DEF LineInv
<1>6. ASSUME NEW f \in Flusher PROVE Keeps(f)
    BY <1>2, <1>3 DEF Keeps
<1>7. Grows /\ (Connected' <=> Connected)
    BY <1>1 DEF Grows, Connected
<1>8. \A d \in Chan : \A v \in Update :
          Awaited(d, v) => Awaited(d, v)' \/ (d = Head(line).ch /\ v \in Head(line).st)
    BY <1>2 DEF Awaited, Edits
<1>9. CASE Head(line).res = "ok"
    <2>1. Head(line).st \subseteq saved[Head(line).ch]
        BY <1>2, <1>9 DEF LineInv
    <2>2. Shrinks
        BY <1>1, <1>7, <1>8, <2>1, NothingMoreOwed DEF Shrinks
    <2> QED BY <1>1, <1>4, <1>5, <1>6, <1>7, <1>9, <2>2, QuietStep
<1>10. CASE Head(line).res = "refused"
    <2>1. lost' = lost + 1 /\ Crossing /\ crossed' # "beside" /\ (crossed' # "yes" => crossed = "no" /\ crossed' = "no")
        BY <1>1, <1>10 DEF Crossing, TypeOK
    <2>2. ASSUME NEW f \in Flusher PROVE FlushInv(f)'
        <3>1. FlushInv(f) /\ (Pushing(f) => Connected)
            BY DEF FlushInv
        <3> QED BY <1>1, <1>4, <1>6, <1>7, <2>1, <3>1, FlushKept
    <2>3. PairInv'
        BY <1>1, <2>1 DEF PairInv, Pushing
    <2>4. SavedOrCounted'
        BY <1>4, <2>1 DEF SavedOrCounted
    <2>5. phase' # "up" => ~Running(Back)'
        BY <1>1 DEF Running
    <2> QED BY <1>4, <1>5, <2>1, <2>2, <2>3, <2>4, <2>5
<1> QED BY <1>3, <1>9, <1>10

\* flush() is called, by a flush that is not running; the phase may become "up".
LEMMA BeginStep ==
    ASSUME IInv, NEW f \in Flusher, ~Running(f), Begin(f), UNCHANGED <<shown, saved, line, lost, crossed>>,
           phase' = phase \/ (phase # "down" /\ phase' = "up"), phase' = "up" \/ f # Back
    PROVE  IInv'
<1> USE DEF IInv
<1> DEFINE goal == {p \in Chan \X Update : p[2] \in shown[p[1]]}
           begun == [pc |-> "settle", count |-> 0, at |-> 1, goal |-> goal]
<1>1. flush' = [flush EXCEPT ![f] = begun] /\ flush \in [Flusher -> Flush]
    BY DEF Begin, TypeOK
<1>2. begun \in Flush /\ begun.pc = "settle" /\ begun.at = 1 /\ begun.goal = goal
    BY Bounds DEF Flush
<1>3. \A ch \in Chan : \A u \in Update : <<ch, u>> \in goal => u \in shown[ch]
    OBVIOUS
<1> HIDE DEF begun, goal
<1>4. flush' \in [Flusher -> Flush] /\ flush'[f] = begun /\ \A g \in Flusher \ {f} : flush'[g] = flush[g]
    BY <1>1, <1>2
<1>5. TypeOK'
    BY <1>4 DEF TypeOK
<1>6. ~Pushing(f) /\ ~Pushing(f)' /\ \A g \in Flusher \ {f} : Pushing(g)' <=> Pushing(g)
    BY <1>2, <1>4 DEF Running, Pushing
<1>7. \A i \in DOMAIN line : line[i].by # f
    BY <1>6 DEF LineInv, Pushing
<1>8. LineInv'
    BY <1>4, <1>7 DEF LineInv
<1>9. Connected => Connected'
    BY DEF Connected
<1>10. Grows /\ Shrinks /\ Crossing /\ \A g : Keeps(g)
    BY DEF Grows, Shrinks, Owed, Awaited, Edits, Crossing, Keeps
<1>11. ASSUME NEW g \in Flusher, g # f PROVE FlushInv(g)' /\ (Covers(g) => Covers(g)')
    <2>1. flush'[g] = flush[g] /\ FlushInv(g) /\ (Pushing(g) => Connected) /\ lost' \in Nat /\ lost' >= lost
        BY <1>4, <1>11 DEF FlushInv, TypeOK
    <2> QED BY <1>9, <1>10, <1>11, <2>1, FlushKept, CoversKept
<1>12. FlushInv(f)'
    BY <1>2, <1>3, <1>4, <1>6 DEF FlushInv
<1>13. PairInv'
    BY <1>6, <1>11 DEF PairInv
<1>14. SavedOrCounted'
    BY DEF SavedOrCounted, Awaited, Edits
<1>15. phase' # "up" => ~Running(Back)'
    BY <1>4, Bounds DEF Running
<1> QED BY <1>5, <1>8, <1>9, <1>11, <1>12, <1>13, <1>14, <1>15

\* The phases of a reconnection.
LEMMA PhaseStep ==
    ASSUME IInv, Reconnect \/ RejoinRefused
    PROVE  IInv'
<1> USE DEF IInv
<1>1. /\ UNCHANGED <<shown, saved, line, lost, flush, crossed>>
      /\ phase' \in {"joining", "up"} /\ phase # "up"
    BY DEF Reconnect, RejoinRefused
<1>2. TypeOK' /\ LineInv'
    BY <1>1 DEF TypeOK, LineInv
<1>3. Grows /\ Shrinks /\ Connected' /\ \A f : Keeps(f)
    BY <1>1 DEF Grows, Shrinks, Owed, Awaited, Edits, Keeps, Connected
<1> QED BY <1>1, <1>2, <1>3, QuietStep

\* The connection breaks.
LEMMA DropStep ==
    ASSUME IInv, Drop
    PROVE  IInv'
<1> USE DEF IInv
<1>1. /\ phase' = "down" /\ line' = <<>> /\ shown' = shown
      /\ lost' = lost + Cardinality(Edits(line))
      /\ flush' = [f \in Flusher |-> IF Running(f) THEN [flush[f] EXCEPT !.pc = "failed"] ELSE flush[f]]
      /\ crossed' = IF crossed = "beside" THEN "no" ELSE crossed
    BY DEF Drop
<1>2. PICK n \in 0..Len(line) :
          saved' = [ch \in Chan |-> saved[ch] \cup
                      UNION {line[i].st : i \in {j \in 1..n : line[j].ch = ch /\ line[j].res = "sent"}}]
    BY DEF Drop
<1>3. saved' \in [Chan -> SUBSET Update] /\ Grows
    <2>1. line \in Seq(Call) /\ saved \in [Chan -> SUBSET Update]
        BY DEF TypeOK
    <2>2. \A i \in 1..n : i \in DOMAIN line
        BY <2>1
    <2>3. ASSUME NEW ch \in Chan
          PROVE  UNION {line[i].st : i \in {j \in 1..n : line[j].ch = ch /\ line[j].res = "sent"}} \subseteq Update
        BY <2>2, LineFacts
    <2> QED BY <1>1, <1>2, <2>1, <2>3 DEF Grows
<1>4. lost \in Nat /\ lost' \in Nat /\ lost' >= lost /\ (Edits(line) # {} => lost' > 0)
    <2>1. IsFiniteSet(Edits(line))
        <3>1. Edits(line) \subseteq 1..Len(line) /\ Len(line) \in Nat
            BY DEF Edits, TypeOK
        <3>2. IsFiniteSet(1..Len(line))
            BY <3>1, FS_Interval
        <3> QED BY <3>1, <3>2, FS_Subset
    <2>2. Cardinality(Edits(line)) \in Nat /\ (Edits(line) # {} => Cardinality(Edits(line)) # 0)
        BY <2>1, FS_CardinalityType, FS_EmptySet
    <2> QED BY <1>1, <2>2 DEF TypeOK
<1>5. flush' \in [Flusher -> Flush]
    <2>1. \A f \in Flusher : [flush[f] EXCEPT !.pc = "failed"] \in Flush
        BY DEF TypeOK, Flush
    <2> QED BY <1>1, <2>1 DEF TypeOK
<1>6. TypeOK'
    BY <1>1, <1>3, <1>4, <1>5 DEF TypeOK
<1>7. LineInv'
    BY <1>1 DEF LineInv
<1>8. ASSUME NEW f \in Flusher
      PROVE  ~Pushing(f)' /\ ~Running(f)' /\ flush'[f].goal = flush[f].goal
             /\ flush'[f].pc # "settle" /\ (flush'[f].pc = "ok" => flush[f].pc = "ok")
    <2>1. flush[f] \in Flush
        BY DEF TypeOK
    <2>2. flush'[f] = IF Running(f) THEN [flush[f] EXCEPT !.pc = "failed"] ELSE flush[f]
        BY <1>1
    <2> QED BY <2>1, <2>2 DEF Running, Pushing, Flush
<1>9. ASSUME NEW f \in Flusher PROVE FlushInv(f)'
    <2>1. \A ch \in Chan : \A u \in Update : <<ch, u>> \in flush[f].goal =>
              u \in shown[ch] /\ (crossed # "yes" /\ flush[f].pc = "ok" => u \in saved[ch])
        BY DEF FlushInv
    <2> QED BY <1>1, <1>3, <1>8, <2>1 DEF FlushInv, Grows
<1>10. PairInv'
    BY <1>8 DEF PairInv
<1>11. SavedOrCounted'
    <2>1. ASSUME NEW ch \in Chan, NEW u \in Update, Owed(ch, u)', crossed' # "yes" PROVE lost' > 0
        <3>1. u \in shown[ch] \ saved[ch] /\ crossed # "yes"
            BY <1>1, <1>3, <2>1 DEF Owed, Grows
        <3>2. CASE Awaited(ch, u)
            BY <1>4, <3>2 DEF Awaited
        <3>3. CASE ~Awaited(ch, u)
            <4>1. lost > 0
                BY <3>1, <3>3 DEF SavedOrCounted
            <4> QED BY <1>4, <4>1
        <3> QED BY <3>2, <3>3
    <2> QED BY <1>6, <2>1, OwedCounted
<1>12. crossed' # "beside" /\ ~Running(Back)'
    BY <1>1, <1>8, Bounds
<1> QED BY <1>6, <1>7, <1>9, <1>10, <1>11, <1>12

\* Flush f alone goes on, and is no longer sending, or was not: the flushes beside it
\* are as they were.
LEMMA FlushEnds ==
    ASSUME IInv, TypeOK', LineInv', NEW f \in Flusher, NEW pc \in {"ok", "failed"},
           flush' = [flush EXCEPT ![f].pc = pc], \A g \in Flusher \ {f} : Keeps(g),
           UNCHANGED <<phase, shown, saved, lost, crossed>>, Shrinks, 
           pc = "ok" => \A ch \in Chan : \A u \in Update :
                            <<ch, u>> \in flush[f].goal /\ crossed # "yes" => u \in saved[ch]
    PROVE  IInv'
<1> USE DEF IInv
<1>1. /\ \A g \in Flusher \ {f} : flush'[g] = flush[g]
      /\ flush'[f].pc = pc /\ flush'[f].goal = flush[f].goal
    BY DEF TypeOK, Flush
<1>2. Grows /\ Crossing /\ (Connected' <=> Connected)
    BY DEF Grows, Crossing, Connected
<1>3. ASSUME NEW g \in Flusher \ {f} PROVE FlushInv(g)' /\ (Covers(g) => Covers(g)') /\ (Pushing(g)' <=> Pushing(g))
    <2>1. FlushInv(g) /\ (Pushing(g) => Connected) /\ lost' \in Nat /\ lost' >= lost /\ flush'[g] = flush[g]
        BY <1>1 DEF FlushInv, TypeOK
    <2>2. FlushInv(g)'
        BY <1>2, <2>1, FlushKept
    <2>3. Covers(g) => Covers(g)'
        BY <2>1, CoversKept
    <2> QED BY <2>1, <2>2, <2>3 DEF Pushing
<1>4. ~Pushing(f)' /\ flush'[f].pc # "settle"
    BY <1>1 DEF Pushing
<1>5. FlushInv(f)'
    <2>1. \A ch \in Chan : \A u \in Update : <<ch, u>> \in flush[f].goal => u \in shown[ch]
        BY DEF FlushInv
    <2> QED BY <1>1, <1>4, <2>1 DEF FlushInv
<1>6. PairInv'
    BY <1>3, <1>4 DEF PairInv
<1>7. SavedOrCounted'
    BY OwedCounted DEF Shrinks
<1>8. phase' # "up" => ~Running(Back)'
    BY <1>1, Bounds DEF Running
<1> QED BY <1>2, <1>3, <1>5, <1>6, <1>7, <1>8

\* settle() returns: there is nothing to do, or nobody to ask, or the first
\* channel's state is sent.
LEMMA SettleStep ==
    ASSUME IInv, NEW f \in Flusher, Settle(f)
    PROVE  IInv'
<1> USE DEF IInv
<1>1. /\ flush[f].pc = "settle" /\ Edits(line) = {} /\ flush[f].at = 1 /\ flush[f] \in Flush
      /\ UNCHANGED <<phase, shown, saved, lost>>
      /\ flush \in [Flusher -> Flush] /\ line \in Seq(Call) /\ lost \in Nat
    BY DEF Settle, FlushInv, TypeOK
<1>2. crossed' = IF flush'[f].pc = "push" /\ Beside(f) /\ crossed = "no" THEN "beside" ELSE crossed
    BY DEF Settle
<1>3. \A ch \in Chan : \A u \in Update : ~Awaited(ch, u)
    BY <1>1 DEF Awaited
<1>4. \A i \in DOMAIN line : line[i].by # f
    BY <1>1 DEF LineInv
<1>5. \A ch \in Chan : \A u \in Update : <<ch, u>> \in flush[f].goal => u \in shown[ch]
    BY DEF FlushInv
<1>6. ASSUME NEW pc \in {"ok", "failed"}, flush' = [flush EXCEPT ![f].pc = pc], line' = line,
             pc = "ok" => lost = 0
      PROVE  IInv'
    <2>1. flush'[f] = [flush[f] EXCEPT !.pc = pc] /\ \A g \in Flusher \ {f} : flush'[g] = flush[g]
        BY <1>1, <1>6
    <2>2. [flush[f] EXCEPT !.pc = pc] \in Flush /\ [flush[f] EXCEPT !.pc = pc].pc = pc
        BY <1>1 DEF Flush
    <2>3. flush' \in [Flusher -> Flush] /\ crossed' = crossed
        BY <1>1, <1>2, <1>6, <2>1, <2>2
    <2>4. TypeOK'
        BY <1>1, <1>6, <2>3 DEF TypeOK
    <2>5. LineInv'
        BY <1>1, <1>4, <1>6, <2>1 DEF LineInv
    <2>6. Shrinks /\ \A g : Keeps(g)
        BY <1>1, <1>6 DEF Shrinks, Owed, Awaited, Edits, Keeps
    <2>7. pc = "ok" => \A ch \in Chan : \A u \in Update :
                           <<ch, u>> \in flush[f].goal /\ crossed # "yes" => u \in saved[ch]
        BY <1>1, <1>3, <1>5, <1>6 DEF SavedOrCounted
    <2> QED BY <1>1, <1>6, <2>3, <2>4, <2>5, <2>6, <2>7, FlushEnds
<1>7. CASE /\ lost > 0 /\ Connected
           /\ flush' = [flush EXCEPT ![f].pc = "push", ![f].count = lost]
           /\ line' = Append(line, Sent(Channels[1], shown[Channels[1]], f))
    <2> DEFINE e == Sent(Channels[1], shown[Channels[1]], f)
    <2>1. Channels[1] \in Chan /\ shown[Channels[1]] \in SUBSET Update
        BY Bounds DEF TypeOK
    <2>2. e \in Call /\ e.by = f /\ e.res = "sent" /\ e.ch = Channels[1] /\ e.st = shown[Channels[1]]
        BY <2>1, LineFacts DEF Sent
    <2>3. line' = Append(line, e)
        BY <1>7
    <2> HIDE DEF e
    <2>4. /\ line' \in Seq(Call)
          /\ \A i \in DOMAIN line' : (i \in DOMAIN line /\ line'[i] = line[i]) \/ (i = Len(line) + 1 /\ line'[i] = e)
          /\ \A i \in DOMAIN line : i \in DOMAIN line' /\ line'[i] = line[i]
          /\ Len(line) + 1 \in DOMAIN line' /\ line'[Len(line) + 1] = e
        BY <1>1, <2>2, <2>3, JoinLine
    <2>5. /\ flush'[f] = [flush[f] EXCEPT !.pc = "push", !.count = lost]
          /\ \A g \in Flusher \ {f} : flush'[g] = flush[g]
        BY <1>1, <1>7
    <2>6. /\ flush'[f] \in Flush /\ flush'[f].pc = "push" /\ flush'[f].count = lost
          /\ flush'[f].at = 1 /\ flush'[f].goal = flush[f].goal
        BY <1>1, <2>5 DEF Flush
    <2>7. flush' \in [Flusher -> Flush]
        BY <1>1, <1>7, <2>5, <2>6
    <2>8. TypeOK'
        BY <1>1, <1>2, <2>4, <2>7 DEF TypeOK
    <2>9. LineInv'
        <3>1. \A i \in DOMAIN line' : line'[i].res = "ok" => line'[i].st \subseteq saved'[line'[i].ch]
            BY <1>1, <2>2, <2>4 DEF LineInv
        <3>2. \A i \in DOMAIN line' : line'[i].by \in Flusher =>
                  flush'[line'[i].by].pc = "push" /\ line'[i].ch = Channels[flush'[line'[i].by].at]
            <4>1. ASSUME NEW i \in DOMAIN line', line'[i].by \in Flusher
                  PROVE  flush'[line'[i].by].pc = "push" /\ line'[i].ch = Channels[flush'[line'[i].by].at]
                <5>1. CASE i \in DOMAIN line /\ line'[i] = line[i]
                    BY <1>4, <2>5, <4>1, <5>1 DEF LineInv
                <5>2. CASE line'[i] = e
                    BY <2>2, <2>6, <5>2
                <5> QED BY <2>4, <5>1, <5>2
            <4> QED BY <4>1
        <3>3. \A i, j \in DOMAIN line' : line'[i].by = line'[j].by /\ line'[i].by \in Flusher => i = j
            BY <1>4, <2>2, <2>4 DEF LineInv
        <3> QED BY <3>1, <3>2, <3>3 DEF LineInv
    <2>10. ASSUME NEW g \in Flusher PROVE Keeps(g)
        BY <2>4 DEF Keeps
    <2>11. \A ch \in Chan : \A u \in Update : Awaited(ch, u) => Awaited(ch, u)'
        BY <1>3
    <2>12. Grows /\ Crossing /\ (Connected' <=> Connected) /\ Shrinks
        <3>1. Grows /\ Crossing /\ (Connected' <=> Connected)
            BY <1>1, <1>2 DEF Grows, Crossing, Connected
        <3> QED BY <1>1, <2>11, <3>1, NothingMoreOwed DEF Shrinks
    <2>13. ASSUME NEW g \in Flusher \ {f} PROVE FlushInv(g)' /\ (Covers(g) => Covers(g)') /\ (Pushing(g)' <=> Pushing(g))
        <3>1. FlushInv(g) /\ (Pushing(g) => Connected) /\ lost' \in Nat /\ lost' >= lost /\ flush'[g] = flush[g] /\ Keeps(g)
            BY <1>1, <2>5, <2>10 DEF FlushInv
        <3>2. FlushInv(g)'
            BY <2>12, <3>1, FlushKept
        <3>3. Covers(g) => Covers(g)'
            BY <2>12, <3>1, CoversKept
        <3> QED BY <3>1, <3>2, <3>3 DEF Pushing
    <2>14. ASSUME NEW ch \in Chan, NEW u \in Update, u \in shown[ch] PROVE Covered(f, ch, u)'
        <3>1. PICK i \in DOMAIN Channels : Channels[i] = ch /\ i \in Nat /\ i >= 1
            BY Bounds
        <3>2. CASE i > 1
            BY <2>6, <3>1, <3>2 DEF Covered
        <3>3. CASE i = 1
            <4>1. u \in e.st
                BY <2>2, <2>14, <3>1, <3>3
            <4> QED BY <2>2, <2>4, <2>6, <3>1, <3>3, <4>1 DEF Covered
        <3> QED BY <3>1, <3>2, <3>3
    <2>15. Covers(f)'
        BY <1>1, <2>14 DEF Covers, Owed
    <2>16. FlushInv(f)'
        <3>1. Connected' /\ lost' = lost
            BY <1>1, <1>7, <2>12
        <3> QED BY <1>1, <1>5, <2>6, <2>14, <2>15, <3>1 DEF FlushInv
    <2>17. PairInv'
        <3>1. ASSUME NEW g \in Flusher \ {f}, Pushing(g)' PROVE crossed' # "no"
            <4>1. Beside(f) /\ crossed \in {"no", "beside", "yes"}
                BY <2>13, <3>1 DEF Beside, Pushing, TypeOK
            <4> QED BY <1>2, <2>6, <4>1
        <3>2. ASSUME NEW g \in Flusher \ {f}, NEW h \in Flusher \ {f}, Pushing(g)', Pushing(h)', g # h
              PROVE  crossed' = "beside" => Covers(g)' \/ Covers(h)'
            <4>1. Pushing(g) /\ Pushing(h) /\ crossed # "no"
                BY <2>13, <3>2 DEF PairInv
            <4>2. crossed' = crossed
                BY <1>2, <4>1
            <4> QED BY <2>13, <3>2, <4>1, <4>2 DEF PairInv
        <3> QED BY <2>15, <3>1, <3>2 DEF PairInv
    <2>18. SavedOrCounted'
        BY <1>1, <1>7 DEF SavedOrCounted
    <2>19. phase' # "up" => ~Running(Back)'
        <3>1. phase' # "up" => f # Back
            BY <1>1 DEF Running
        <3> QED BY <1>1, <2>5, <3>1, Bounds DEF Running
    <2> QED BY <1>7, <2>8, <2>9, <2>12, <2>13, <2>16, <2>17, <2>18, <2>19
<1> QED BY <1>6, <1>7 DEF Settle

\* The answer to a state a flush has sent: the next state, or the end.
LEMMA FlushAnsweredStep ==
    ASSUME IInv, NEW f \in Flusher, FlushAnswered(f)
    PROVE  IInv'
<1> USE DEF IInv
<1> DEFINE n == flush[f].at
<1>1. /\ line # <<>> /\ Head(line).by = f
      /\ UNCHANGED <<phase, shown, saved, crossed>>
      /\ flush \in [Flusher -> Flush] /\ flush[f] \in Flush /\ line \in Seq(Call) /\ lost \in Nat
      /\ n \in 1..Len(Channels) /\ flush[f].count \in Nat
    BY DEF FlushAnswered, TypeOK, Flush
<1>2. /\ 1 \in DOMAIN line /\ Head(line) = line[1] /\ Tail(line) \in Seq(Call)
      /\ \A i \in DOMAIN Tail(line) : i + 1 \in DOMAIN line /\ Tail(line)[i] = line[i + 1] /\ i + 1 # 1 /\ i \in Nat
      /\ \A i \in DOMAIN line : i = 1 \/ (i - 1 \in DOMAIN Tail(line) /\ Tail(line)[i - 1] = line[i])
    <2>1. \A i \in DOMAIN Tail(line) : i \in Nat
        BY <1>1
    <2> QED BY <1>1, <2>1, LineFacts
<1>3. /\ flush[f].pc = "push" /\ Head(line).ch = Channels[n]
      /\ \A j \in DOMAIN line : line[j].by = f => j = 1
      /\ Head(line).res = "ok" => Head(line).st \subseteq saved[Channels[n]]
    BY <1>1, <1>2 DEF LineInv
<1>4. Pushing(f) /\ Connected
    BY <1>3 DEF Pushing, FlushInv
<1>5. /\ \A i \in DOMAIN Tail(line) : Tail(line)[i].by # f
      /\ \A i \in DOMAIN Tail(line) : Tail(line)[i].res = "ok" => Tail(line)[i].st \subseteq saved[Tail(line)[i].ch]
      /\ \A i \in DOMAIN Tail(line) : Tail(line)[i].by \in Flusher =>
            flush[Tail(line)[i].by].pc = "push" /\ Tail(line)[i].ch = Channels[flush[Tail(line)[i].by].at]
      /\ \A i, j \in DOMAIN Tail(line) :
            Tail(line)[i].by = Tail(line)[j].by /\ Tail(line)[i].by \in Flusher => i = j
    <2>1. \A i \in DOMAIN Tail(line) : Tail(line)[i].by # f
        BY <1>2, <1>3
    <2>2. \A i \in DOMAIN Tail(line) : Tail(line)[i].res = "ok" => Tail(line)[i].st \subseteq saved[Tail(line)[i].ch]
        BY <1>2 DEF LineInv
    <2>3. \A i \in DOMAIN Tail(line) : Tail(line)[i].by \in Flusher =>
            flush[Tail(line)[i].by].pc = "push" /\ Tail(line)[i].ch = Channels[flush[Tail(line)[i].by].at]
        BY <1>2 DEF LineInv
    <2>4. ASSUME NEW i \in DOMAIN Tail(line), NEW j \in DOMAIN Tail(line),
                 Tail(line)[i].by = Tail(line)[j].by, Tail(line)[i].by \in Flusher
          PROVE  i = j
        <3>1. i + 1 = j + 1
            BY <1>2, <2>4 DEF LineInv
        <3> QED BY <1>2, <3>1
    <2> QED BY <2>1, <2>2, <2>3, <2>4
<1>6. /\ \A i \in DOMAIN line : line[i].by # f => \E l \in DOMAIN Tail(line) : Tail(line)[l] = line[i]
      /\ f # Nobody
    BY <1>1, <1>2, Bounds
<1>7. Grows /\ Crossing /\ (Connected' <=> Connected)
    BY <1>1 DEF Grows, Crossing, Connected
<1>8. \A ch \in Chan : \A u \in Update : <<ch, u>> \in flush[f].goal =>
          u \in shown[ch] /\ (u \in saved[ch] \/ Covered(f, ch, u))
    BY <1>4 DEF FlushInv
\* The state answered for.
<1>9. ASSUME NEW ch \in Chan, NEW u \in Update, Covered(f, ch, u), Head(line).res = "ok", u \notin saved[ch]
      PROVE  \E i \in DOMAIN Channels : Channels[i] = ch /\ i > n
    <2>1. PICK i \in DOMAIN Channels :
              /\ Channels[i] = ch
              /\ i > n \/ (i = n /\ \E j \in DOMAIN line : line[j].by = f /\ u \in line[j].st)
        BY <1>9 DEF Covered
    <2>2. ~(i = n /\ \E j \in DOMAIN line : line[j].by = f /\ u \in line[j].st)
        BY <1>2, <1>3, <1>9, <2>1
    <2> QED BY <2>1, <2>2
<1>10. CASE /\ Head(line).res = "refused"
            /\ flush' = [flush EXCEPT ![f].pc = "failed"]
            /\ line' = Tail(line) /\ UNCHANGED lost
    <2>1. flush'[f] = [flush[f] EXCEPT !.pc = "failed"] /\ \A g \in Flusher \ {f} : flush'[g] = flush[g]
        BY <1>1, <1>10
    <2>2. [flush[f] EXCEPT !.pc = "failed"] \in Flush
        BY <1>1 DEF Flush
    <2>3. TypeOK'
        BY <1>1, <1>2, <1>10, <2>1, <2>2 DEF TypeOK
    <2>4. LineInv'
        <3>1. \A i \in DOMAIN Tail(line) : Tail(line)[i].by \in Flusher =>
                  flush'[Tail(line)[i].by] = flush[Tail(line)[i].by]
            BY <1>5, <2>1
        <3> QED BY <1>1, <1>5, <1>10, <3>1 DEF LineInv
    <2>5. \A g \in Flusher \ {f} : Keeps(g)
        BY <1>6, <1>10 DEF Keeps
    <2>6. Shrinks
        <3>1. \A ch \in Chan : \A u \in Update : Awaited(ch, u) => Awaited(ch, u)'
            BY <1>6, <1>10 DEF Awaited, Edits
        <3> QED BY <1>1, <1>7, <3>1, NothingMoreOwed DEF Shrinks
    <2> QED BY <1>1, <1>10, <2>3, <2>4, <2>5, <2>6, FlushEnds
<1>11. CASE /\ Head(line).res = "ok" /\ n < Len(Channels)
            /\ flush' = [flush EXCEPT ![f].at = n + 1]
            /\ line' = Append(Tail(line), Sent(Channels[n + 1], shown[Channels[n + 1]], f))
            /\ UNCHANGED lost
    <2> DEFINE e == Sent(Channels[n + 1], shown[Channels[n + 1]], f)
    <2>1. n + 1 \in 1..Len(Channels) /\ Channels[n + 1] \in Chan /\ shown[Channels[n + 1]] \in SUBSET Update
        <3>1. n + 1 \in 1..Len(Channels)
            BY <1>1, <1>11
        <3> QED BY <3>1, Bounds DEF TypeOK
    <2>2. e \in Call /\ e.by = f /\ e.res = "sent" /\ e.ch = Channels[n + 1] /\ e.st = shown[Channels[n + 1]]
        BY <2>1, LineFacts DEF Sent
    <2>3. line' = Append(Tail(line), e)
        BY <1>11
    <2> HIDE DEF e
    <2>4. /\ line' \in Seq(Call)
          /\ \A i \in DOMAIN line' : (i \in DOMAIN Tail(line) /\ line'[i] = Tail(line)[i])
                                     \/ (i = Len(Tail(line)) + 1 /\ line'[i] = e)
          /\ \A i \in DOMAIN Tail(line) : i \in DOMAIN line' /\ line'[i] = Tail(line)[i]
          /\ Len(Tail(line)) + 1 \in DOMAIN line' /\ line'[Len(Tail(line)) + 1] = e
        BY <1>2, <2>2, <2>3, JoinLine
    <2>5. /\ flush'[f] = [flush[f] EXCEPT !.at = n + 1]
          /\ \A g \in Flusher \ {f} : flush'[g] = flush[g]
        BY <1>1, <1>11
    <2>6. /\ flush'[f] \in Flush /\ flush'[f].pc = "push" /\ flush'[f].at = n + 1
          /\ flush'[f].count = flush[f].count /\ flush'[f].goal = flush[f].goal
        BY <1>1, <1>3, <2>1, <2>5 DEF Flush
    <2>7. TypeOK'
        <3>1. flush' \in [Flusher -> Flush]
            BY <1>1, <1>11, <2>5, <2>6
        <3> QED BY <1>1, <1>11, <2>4, <3>1 DEF TypeOK
    <2>8. LineInv'
        <3>1. \A i \in DOMAIN line' : line'[i].res = "ok" => line'[i].st \subseteq saved'[line'[i].ch]
            BY <1>1, <1>5, <2>2, <2>4
        <3>2. \A i \in DOMAIN line' : line'[i].by \in Flusher =>
                  flush'[line'[i].by].pc = "push" /\ line'[i].ch = Channels[flush'[line'[i].by].at]
            <4>1. ASSUME NEW i \in DOMAIN line', line'[i].by \in Flusher
                  PROVE  flush'[line'[i].by].pc = "push" /\ line'[i].ch = Channels[flush'[line'[i].by].at]
                <5>1. CASE i \in DOMAIN Tail(line) /\ line'[i] = Tail(line)[i]
                    BY <1>5, <2>5, <4>1, <5>1
                <5>2. CASE line'[i] = e
                    BY <2>2, <2>6, <5>2
                <5> QED BY <2>4, <5>1, <5>2
            <4> QED BY <4>1
        <3>3. \A i, j \in DOMAIN line' : line'[i].by = line'[j].by /\ line'[i].by \in Flusher => i = j
            BY <1>5, <2>2, <2>4
        <3> QED BY <3>1, <3>2, <3>3 DEF LineInv
    <2>9. Shrinks
        <3>1. \A ch \in Chan : \A u \in Update : Awaited(ch, u) => Awaited(ch, u)'
            <4> SUFFICES ASSUME NEW ch \in Chan, NEW u \in Update, Awaited(ch, u)
                         PROVE  Awaited(ch, u)'
                OBVIOUS
            <4>1. PICK i \in DOMAIN line : line[i].by = Nobody /\ line[i].ch = ch /\ u \in line[i].st
                BY DEF Awaited, Edits
            <4>2. PICK l \in DOMAIN Tail(line) : Tail(line)[l] = line[i]
                BY <1>6, <4>1
            <4>3. l \in DOMAIN line' /\ line'[l] = line[i]
                BY <2>4, <4>2
            <4> QED BY <4>1, <4>3 DEF Awaited, Edits
        <3> QED BY <1>1, <1>7, <3>1, NothingMoreOwed DEF Shrinks
    <2>10. ASSUME NEW g \in Flusher \ {f} PROVE FlushInv(g)' /\ (Covers(g) => Covers(g)') /\ (Pushing(g)' <=> Pushing(g))
        <3>1. Keeps(g)
            BY <1>6, <2>4 DEF Keeps
        <3>2. FlushInv(g) /\ (Pushing(g) => Connected) /\ lost' \in Nat /\ lost' >= lost /\ flush'[g] = flush[g]
            BY <1>1, <1>11, <2>5 DEF FlushInv
        <3>3. FlushInv(g)'
            BY <1>7, <2>9, <3>1, <3>2, FlushKept
        <3>4. Covers(g) => Covers(g)'
            BY <2>9, <3>1, <3>2, CoversKept
        <3> QED BY <3>2, <3>3, <3>4 DEF Pushing
    <2>11. ASSUME NEW ch \in Chan, NEW u \in Update, Covered(f, ch, u), u \in shown[ch], u \notin saved[ch]
           PROVE  Covered(f, ch, u)'
        <3>1. PICK i \in DOMAIN Channels : Channels[i] = ch /\ i > n
            BY <1>9, <1>11, <2>11
        <3>2. i \in Nat /\ (i = n + 1 \/ i > n + 1)
            BY <1>1, <3>1, Bounds
        <3>3. CASE i > n + 1
            BY <2>6, <3>1, <3>3 DEF Covered
        <3>4. CASE i = n + 1
            <4>1. u \in e.st
                BY <2>2, <2>11, <3>1, <3>4
            <4> QED BY <2>2, <2>4, <2>6, <3>1, <3>4, <4>1 DEF Covered
        <3> QED BY <3>2, <3>3, <3>4
    <2>12. Covers(f) => Covers(f)'
        BY <1>1, <2>9, <2>11 DEF Covers, Shrinks, Owed
    <2>13. FlushInv(f)'
        <3>1. /\ crossed # "yes" => Covers(f) \/ lost > flush[f].count
              /\ crossed = "no" => flush[f].count <= lost
            BY <1>4 DEF FlushInv
        <3> QED BY <1>1, <1>4, <1>7, <1>8, <1>11, <2>6, <2>11, <2>12, <3>1 DEF FlushInv
    <2>14. PairInv'
        BY <1>1, <1>4, <2>10, <2>12 DEF PairInv
    <2>15. SavedOrCounted'
        BY <1>1, <1>11, <2>7, <2>9, OwedCounted DEF Shrinks
    <2>16. phase' # "up" => ~Running(Back)'
        <3>1. phase' # "up" => f # Back
            BY <1>1, <1>3 DEF Running
        <3> QED BY <1>1, <2>5, <3>1, Bounds DEF Running
    <2> QED BY <1>1, <1>7, <2>7, <2>8, <2>10, <2>13, <2>14, <2>15, <2>16
<1>12. CASE /\ Head(line).res = "ok" /\ n = Len(Channels)
            /\ flush' = [flush EXCEPT ![f].pc = "ok"]
            /\ line' = Tail(line) /\ Acknowledge(flush[f].count)
    <2>1. /\ flush'[f] = [flush[f] EXCEPT !.pc = "ok"] /\ \A g \in Flusher \ {f} : flush'[g] = flush[g]
          /\ [flush[f] EXCEPT !.pc = "ok"] \in Flush
          /\ flush'[f].pc = "ok" /\ flush'[f].goal = flush[f].goal
        BY <1>1, <1>12 DEF Flush
    <2>2. lost' \in Nat /\ (lost > flush[f].count => lost' > 0)
        BY <1>1, <1>12 DEF Acknowledge
    <2>3. TypeOK'
        BY <1>1, <1>2, <1>12, <2>1, <2>2 DEF TypeOK
    <2>4. LineInv'
        <3>1. \A i \in DOMAIN Tail(line) : Tail(line)[i].by \in Flusher =>
                  flush'[Tail(line)[i].by] = flush[Tail(line)[i].by]
            BY <1>5, <2>1
        <3> QED BY <1>1, <1>5, <1>12, <3>1 DEF LineInv
    <2>5. \A g \in Flusher \ {f} : Keeps(g)
        BY <1>6, <1>12 DEF Keeps
    <2>6. Shrinks
        <3>1. \A ch \in Chan : \A u \in Update : Awaited(ch, u) => Awaited(ch, u)'
            BY <1>6, <1>12 DEF Awaited, Edits
        <3> QED BY <1>1, <1>7, <3>1, NothingMoreOwed DEF Shrinks
    <2>7. \A ch \in Chan : \A u \in Update : Covered(f, ch, u) => u \in saved[ch]
        BY <1>9, <1>12, Bounds
    <2>8. Covers(f) => \A ch \in Chan : \A u \in Update : ~Owed(ch, u)'
        BY <2>6, <2>7 DEF Covers, Shrinks, Owed
    <2>9. ASSUME NEW g \in Flusher \ {f}
          PROVE  /\ Covers(f) => Covers(g)'
                 /\ Covers(g) => Covers(g)'
                 /\ Pushing(g)' <=> Pushing(g)
        <3>1. Covers(f) => Covers(g)'
            BY <2>8 DEF Covers
        <3>2. Covers(g) => Covers(g)'
            BY <2>1, <2>5, <2>6, CoversKept
        <3> QED BY <2>1, <3>1, <3>2 DEF Pushing
    <2>10. ASSUME NEW g \in Flusher \ {f} PROVE FlushInv(g)'
        <3>1. FlushInv(g) /\ (Pushing(g) => Connected) /\ flush'[g] = flush[g] /\ Keeps(g)
            BY <2>1, <2>5 DEF FlushInv
        <3>2. Pushing(g) /\ crossed' # "yes" => Covers(g)' /\ crossed' # "no"
            <4>1. Pushing(g) /\ crossed' # "yes" => crossed = "beside" /\ (Covers(f) \/ Covers(g))
                BY <1>1, <1>4 DEF PairInv, TypeOK
            <4> QED BY <1>1, <2>9, <4>1
        <3> QED BY <1>7, <2>2, <3>1, <3>2, FlushKept
    <2>11. FlushInv(f)'
        BY <1>1, <1>8, <2>1, <2>7 DEF FlushInv, Pushing
    <2>12. PairInv'
        <3>1. ~Pushing(f)'
            BY <2>1 DEF Pushing
        <3> QED BY <1>1, <2>9, <3>1 DEF PairInv
    <2>13. SavedOrCounted'
        <3>1. crossed # "yes" => Covers(f) \/ lost > flush[f].count
            BY <1>4 DEF FlushInv
        <3> QED BY <1>1, <2>2, <2>3, <2>8, <3>1, OwedCounted
    <2>14. phase' # "up" => ~Running(Back)'
        <3>1. phase' # "up" => f # Back
            BY <1>1, <1>3 DEF Running
        <3> QED BY <1>1, <2>1, <3>1, Bounds DEF Running
    <2> QED BY <1>1, <1>7, <2>3, <2>4, <2>10, <2>11, <2>12, <2>13, <2>14
<1> QED BY <1>10, <1>11, <1>12 DEF FlushAnswered
-----------------------------------------------------------------------------
(* The theorems.                                                            *)

LEMMA InitInv == Init => IInv
<1> SUFFICES ASSUME Init PROVE IInv
    OBVIOUS
<1>1. \A f \in Flusher : flush[f] = [pc |-> "idle", count |-> 0, at |-> 1, goal |-> {}]
    BY DEF Init
<1>2. TypeOK
    <2>1. [pc |-> "idle", count |-> 0, at |-> 1, goal |-> {}] \in Flush
        BY Bounds DEF Flush
    <2> QED BY <2>1 DEF Init, TypeOK
<1>3. LineInv
    BY DEF Init, LineInv
<1>4. \A f \in Flusher : FlushInv(f) /\ ~Pushing(f) /\ ~Running(f)
    BY <1>1 DEF FlushInv, Pushing, Running
<1>5. SavedOrCounted
    BY DEF Init, SavedOrCounted
<1> QED BY <1>2, <1>3, <1>4, <1>5, Bounds DEF IInv, PairInv, Init

LEMMA StepInv == IInv /\ [Next]_vars => IInv'
<1> SUFFICES ASSUME IInv, [Next]_vars PROVE IInv'
    OBVIOUS
<1>1. CASE UNCHANGED vars
    <2>1. UNCHANGED <<phase, shown, saved, line, lost, flush, crossed>>
        BY <1>1 DEF vars
    <2>2. TypeOK' /\ LineInv'
        BY <2>1 DEF IInv, TypeOK, LineInv
    <2>3. Grows /\ Shrinks /\ (Connected' <=> Connected) /\ \A f : Keeps(f)
        BY <2>1 DEF Grows, Shrinks, Owed, Awaited, Edits, Keeps, Connected
    <2> QED BY <2>1, <2>2, <2>3, QuietStep
<1>2. CASE \E ch \in Chan, u \in Update : Edit(ch, u)
    BY <1>2, EditStep
<1>3. CASE \E res \in {"ok", "refused"} : Serve(res)
    BY <1>3, ServeStep
<1>4. CASE EditAnswered
    BY <1>4, EditAnsweredStep
<1>5. ASSUME NEW f \in Transfer, Ask(f) PROVE IInv'
    <2>1. f \in Flusher /\ f # Back /\ ~Running(f) /\ Begin(f)
          /\ UNCHANGED <<phase, shown, saved, line, lost, crossed>>
        BY <1>5, Bounds DEF Ask, Flusher
    <2> QED BY <2>1, BeginStep
<1>6. ASSUME NEW f \in Flusher, Settle(f) \/ FlushAnswered(f) PROVE IInv'
    BY <1>6, SettleStep, FlushAnsweredStep
<1>7. CASE Drop
    BY <1>7, DropStep
<1>8. CASE Reconnect \/ RejoinRefused
    BY <1>8, PhaseStep
<1>9. CASE Rejoined
    <2>1. /\ Back \in Flusher /\ ~Running(Back) /\ Begin(Back) /\ phase = "joining" /\ phase' = "up"
          /\ UNCHANGED <<shown, saved, line, lost, crossed>>
        BY <1>9, Bounds DEF Rejoined, IInv
    <2> QED BY <2>1, BeginStep
<1> QED BY <1>1, <1>2, <1>3, <1>4, <1>5, <1>6, <1>7, <1>8, <1>9 DEF Next

\* The invariant the theorems below follow from.
THEOREM RecoveryInvariant == Spec => []IInv
    BY InitInv, StepInv, PTL DEF Spec

\* lostPushes never goes below zero, a flush sends channels there are, and the line
\* holds calls.
THEOREM TypeCorrect == Spec => []TypeOK
<1>1. IInv => TypeOK
    BY DEF IInv
<1> QED BY <1>1, RecoveryInvariant, PTL

\* VaultHubClient.track() and acknowledgeLost: an edit the server does not hold is
\* on its way or counted.
THEOREM NoEditForgotten == Spec => []SavedOrCounted
<1>1. IInv => SavedOrCounted
    BY DEF IInv
<1> QED BY <1>1, RecoveryInvariant, PTL

\* flush() resolves only when every edit made before it was called has left.
THEOREM FlushIsHonest == Spec => []FlushKeepsPromiseAlone
<1>1. IInv => FlushKeepsPromiseAlone
    <2> SUFFICES ASSUME IInv, crossed # "yes", NEW f \in Flusher, flush[f].pc = "ok", NEW p \in flush[f].goal
                 PROVE  p[2] \in saved[p[1]]
        BY DEF FlushKeepsPromiseAlone, FlushKeepsPromise
    <2>1. p \in Chan \X Update
        BY DEF IInv, TypeOK, Flush
    <2>2. p[1] \in Chan /\ p[2] \in Update /\ <<p[1], p[2]>> \in flush[f].goal
        BY <2>1
    <2> QED BY <2>2 DEF IInv, FlushInv
<1> QED BY <1>1, RecoveryInvariant, PTL
=============================================================================
