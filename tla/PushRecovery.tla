---------------------------- MODULE PushRecovery ----------------------------
(***************************************************************************)
(* How a vault session makes up for pushes the hub did not take.            *)
(* VaultHubClient counts the lost pushes of all its channels (the directory *)
(* and the open index channels) in one number; flush() waits for the pushes *)
(* in flight, reads the number, sends every channel's complete state, and   *)
(* subtracts what it had read.  A flush runs after each reconnection; others *)
(* are asked for by whoever needs the edits to be gone (VaultTransfer).     *)
(*                                                                         *)
(* One session; its connection is a line of calls the server takes in order *)
(* and answers in order.  An update is in one channel; states are sets.     *)
(***************************************************************************)
EXTENDS Naturals, Sequences, FiniteSets

CONSTANTS Channels,    \* the channels flush() sends, in its order: directory first
          Update,      \* the edits the users may make
          Back,        \* the flush that follows a reconnection
          Transfer,    \* the callers of flush() outside the session
          Nobody,      \* marks the push of an edit
          MayRefuse    \* the server may refuse a push and stay connected

Flusher == {Back} \cup Transfer

ASSUME ChannelsAssumption == Channels \in Seq(STRING) /\ Channels # <<>>
ASSUME FlusherAssumption == Nobody \notin Flusher /\ Back \notin Transfer
ASSUME RefusalAssumption == MayRefuse \in BOOLEAN

VARIABLES
    phase,  \* the connection: "up", "down" (reconnecting), "joining" (JoinVault,
            \* rejoinIndexes in progress)
    shown,  \* edits each channel shows locally
    saved,  \* edits each channel's journal holds on the server
    line,   \* calls sent on the connection and not answered yet, in order
    lost,   \* lostPushes
    flush,  \* each flush: where it is, the count it read, the channel it is
            \* sending, and the edits shown when it was called (history)
    crossed \* history: "no"; "beside" once two flushes are sending at the same
            \* time; "yes" once a loss was counted after that

vars == <<phase, shown, saved, line, lost, flush, crossed>>

Chan == {Channels[i] : i \in DOMAIN Channels}
Call == [ch : Chan, st : SUBSET Update, by : Flusher \cup {Nobody},
         res : {"sent", "ok", "refused"}]
Flush == [pc : {"idle", "settle", "push", "ok", "failed"}, count : Nat,
          at : 1..Len(Channels), goal : SUBSET (Chan \X Update)]

TypeOK ==
    /\ phase \in {"up", "down", "joining"}
    /\ shown \in [Chan -> SUBSET Update]
    /\ saved \in [Chan -> SUBSET Update]
    /\ line \in Seq(Call)
    /\ lost \in Nat
    /\ flush \in [Flusher -> Flush]
    /\ crossed \in {"no", "beside", "yes"}

Init ==
    /\ phase = "up"
    /\ shown = [ch \in Chan |-> {}]
    /\ saved = [ch \in Chan |-> {}]
    /\ line = <<>>
    /\ lost = 0
    /\ flush = [f \in Flusher |-> [pc |-> "idle", count |-> 0, at |-> 1, goal |-> {}]]
    /\ crossed = "no"

Connected == phase # "down"
Sent(ch, st, by) == [ch |-> ch, st |-> st, by |-> by, res |-> "sent"]
Edits(s) == {i \in DOMAIN s : s[i].by = Nobody}
Running(f) == flush[f].pc \in {"settle", "push"}
Beside(f) == \E g \in Flusher \ {f} : flush[g].pc = "push"

\* The client handles its next event: not before a flush that waits for
\* nothing more has gone on (it is a microtask of the event loop).
Turn == \A f \in Flusher : flush[f].pc = "settle" => Edits(line) # {}
-----------------------------------------------------------------------------
\* pushVaultUpdate, pushIndexUpdate: an edit is pushed at once, or counted.
Edit(ch, u) ==
    /\ Turn
    /\ \A d \in Chan : u \notin shown[d]
    /\ shown' = [shown EXCEPT ![ch] = @ \cup {u}]
    /\ IF Connected THEN line' = Append(line, Sent(ch, {u}, Nobody)) /\ UNCHANGED lost
                    ELSE lost' = lost + 1 /\ UNCHANGED line
    /\ UNCHANGED <<phase, saved, flush, crossed>>

\* The server takes the next call, or refuses it.
Serve(res) ==
    /\ \E i \in DOMAIN line :
        /\ line[i].res = "sent" /\ \A j \in 1..(i - 1) : line[j].res # "sent"
        /\ line' = [line EXCEPT ![i].res = res]
        /\ saved' = IF res = "ok" THEN [saved EXCEPT ![line[i].ch] = @ \cup line[i].st] ELSE saved
    /\ res = "refused" => MayRefuse
    /\ UNCHANGED <<phase, shown, lost, flush, crossed>>

\* The answer to an edit's push: track()'s catch counts a refusal.
EditAnswered ==
    /\ Turn
    /\ line # <<>> /\ Head(line).by = Nobody /\ Head(line).res # "sent"
    /\ line' = Tail(line)
    /\ lost' = IF Head(line).res = "refused" THEN lost + 1 ELSE lost
    /\ crossed' = IF Head(line).res = "refused" /\ crossed = "beside" THEN "yes" ELSE crossed
    /\ UNCHANGED <<phase, shown, saved, flush>>

\* flush() is called.
Begin(f) ==
    flush' = [flush EXCEPT ![f] =
        [pc |-> "settle", count |-> 0, at |-> 1,
         goal |-> {p \in Chan \X Update : p[2] \in shown[p[1]]}]]

Ask(f) ==
    /\ Turn
    /\ ~Running(f)
    /\ Begin(f)
    /\ UNCHANGED <<phase, shown, saved, line, lost, crossed>>

\* Mutant of Settle: the pushes in flight are not waited for.
SettleAtOnce(f) ==
    /\ flush[f].pc = "settle"
    /\ IF lost = 0
       THEN flush' = [flush EXCEPT ![f].pc = "ok"] /\ UNCHANGED line
       ELSE /\ flush' = [flush EXCEPT ![f].pc = "push", ![f].count = lost]
            /\ line' = Append(line, Sent(Channels[1], shown[Channels[1]], f))
    /\ crossed' = IF flush'[f].pc = "push" /\ Beside(f) /\ crossed = "no" THEN "beside" ELSE crossed
    /\ UNCHANGED <<phase, shown, saved, lost>>

\* settle() returns once no push is in flight; without a loss there is nothing
\* to do, and without a connection pushVaultStateOrThrow throws.
Settle(f) ==
    /\ flush[f].pc = "settle"
    /\ Edits(line) = {}
    /\ \/ /\ lost = 0
          /\ flush' = [flush EXCEPT ![f].pc = "ok"]
          /\ UNCHANGED line
       \/ /\ lost > 0 /\ Connected
          /\ flush' = [flush EXCEPT ![f].pc = "push", ![f].count = lost]
          /\ line' = Append(line, Sent(Channels[1], shown[Channels[1]], f))
       \/ /\ lost > 0 /\ ~Connected
          /\ flush' = [flush EXCEPT ![f].pc = "failed"]
          /\ UNCHANGED line
    /\ crossed' = IF flush'[f].pc = "push" /\ Beside(f) /\ crossed = "no" THEN "beside" ELSE crossed
    /\ UNCHANGED <<phase, shown, saved, lost>>

\* Mutants of Acknowledge: everything is forgiven; no floor at zero.
AcknowledgeAll(count) == lost' = 0
AcknowledgeUnfloored(count) == lost' = lost - count

\* acknowledgeLost: lostPushes = max(0, lostPushes - count).
Acknowledge(count) == lost' = IF count < lost THEN lost - count ELSE 0

\* The answer to a state flush() sent: the next channel's state, as it is now,
\* or the end; a refusal ends the flush with an error.
FlushAnswered(f) ==
    LET i == flush[f].at
    IN  /\ Turn
        /\ line # <<>> /\ Head(line).by = f /\ Head(line).res # "sent"
        /\ \/ /\ Head(line).res = "refused"
              /\ flush' = [flush EXCEPT ![f].pc = "failed"]
              /\ line' = Tail(line) /\ UNCHANGED lost
           \/ /\ Head(line).res = "ok" /\ i < Len(Channels)
              /\ flush' = [flush EXCEPT ![f].at = i + 1]
              /\ line' = Append(Tail(line), Sent(Channels[i + 1], shown[Channels[i + 1]], f))
              /\ UNCHANGED lost
           \/ /\ Head(line).res = "ok" /\ i = Len(Channels)
              /\ flush' = [flush EXCEPT ![f].pc = "ok"]
              /\ line' = Tail(line) /\ Acknowledge(flush[f].count)
    /\ UNCHANGED <<phase, shown, saved, crossed>>

\* Mutant of Drop: a push without an answer is taken for saved.
DropUncounted ==
    /\ Turn
    /\ Connected
    /\ phase' = "down"
    /\ line' = <<>>
    /\ flush' = [f \in Flusher |-> IF Running(f) THEN [flush[f] EXCEPT !.pc = "failed"] ELSE flush[f]]
    /\ crossed' = IF crossed = "beside" THEN "no" ELSE crossed
    /\ UNCHANGED <<shown, saved, lost>>

\* The connection breaks: every call without an answer is rejected, though the
\* server may have taken, or yet take, the first of them.  The flushes end:
\* theirs is among the calls, or settle() returns to a hub not connected.
Drop ==
    /\ Turn
    /\ Connected
    /\ phase' = "down"
    /\ line' = <<>>
    /\ lost' = lost + Cardinality(Edits(line))
    /\ \E n \in 0..Len(line) :
          saved' = [ch \in Chan |-> saved[ch] \cup
                      UNION {line[i].st : i \in {j \in 1..n : line[j].ch = ch /\ line[j].res = "sent"}}]
    /\ flush' = [f \in Flusher |-> IF Running(f) THEN [flush[f] EXCEPT !.pc = "failed"] ELSE flush[f]]
    /\ crossed' = IF crossed = "beside" THEN "no" ELSE crossed
    /\ UNCHANGED shown

\* Automatic reconnection; JoinVault and the channels are on their way.
Reconnect ==
    /\ Turn
    /\ phase = "down"
    /\ phase' = "joining"
    /\ UNCHANGED <<shown, saved, line, lost, flush, crossed>>

\* The vault and the channels are joined: the reconnection callbacks flush ...
Rejoined ==
    /\ Turn
    /\ phase = "joining"
    /\ phase' = "up"
    /\ Begin(Back)
    /\ UNCHANGED <<shown, saved, line, lost, crossed>>

\* ... but not when JoinVault was refused.
RejoinRefused ==
    /\ Turn
    /\ phase = "joining" /\ MayRefuse
    /\ phase' = "up"
    /\ UNCHANGED <<shown, saved, line, lost, flush, crossed>>

Next ==
    \/ \E ch \in Chan, u \in Update : Edit(ch, u)
    \/ \E res \in {"ok", "refused"} : Serve(res)
    \/ EditAnswered
    \/ \E f \in Transfer : Ask(f)
    \/ \E f \in Flusher : Settle(f) \/ FlushAnswered(f)
    \/ Drop \/ Reconnect \/ Rejoined \/ RejoinRefused

Spec == Init /\ [][Next]_vars
-----------------------------------------------------------------------------
\* The push of an edit the server does not hold is still to be answered.
Awaited(ch, u) == \E i \in Edits(line) : line[i].ch = ch /\ u \in line[i].st

\* An edit the server does not hold is never forgotten: its push is still to
\* be answered, or a lost push is counted and the next flush sends it.  (But
\* for a loss counted after two flushes have sent at the same time: both have
\* subtracted from lostPushes the same losses.)
SavedOrCounted ==
    crossed # "yes" => \A ch \in Chan : \A u \in shown[ch] \ saved[ch] : lost > 0 \/ Awaited(ch, u)

\* flush() ends without an error only when every edit made before it was
\* called has left (contracts.ts: it rejects otherwise) ...
FlushKeepsPromise ==
    \A f \in Flusher : flush[f].pc = "ok" => \A p \in flush[f].goal : p[2] \in saved[p[1]]

\* ... which holds as long as no loss is counted after two flushes, the
\* reconnection's and a caller's, have sent at the same time.
FlushKeepsPromiseAlone == crossed # "yes" => FlushKeepsPromise
=============================================================================
