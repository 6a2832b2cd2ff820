----------------------------- MODULE FolderText -----------------------------
(***************************************************************************)
(* One text document of a vault kept in a folder of the disk: its visible   *)
(* file, its journal of Yjs updates in .savoire/crdt/<id>/, and the         *)
(* sessions (windows) that have it open, with an outside tool that writes   *)
(* the file too (FileSystemVaultSession, UpdateLog).                        *)
(*                                                                          *)
(* A text is a set of tokens, each with the number of its occurrence:       *)
(* <<t, 1>>, <<t, 2>> if t is there twice.  A Yjs state is the items ever   *)
(* inserted and those deleted; merging is union.                            *)
(***************************************************************************)
EXTENDS Naturals, FiniteSets, Sequences, TLC

CONSTANTS Session,   \* windows open on the folder
          Typed,     \* tokens that users type
          Foreign,   \* tokens that the outside tool inserts
          Old,       \* tokens of the file before Savoire opened the folder
          Erased,    \* tokens an earlier run of the application may have seen the
                     \* outside tool delete; they count for no bound
          MaxOpens,  \* bound: times each session opens the document
          MaxCrash,  \* bound: sessions killed
          MaxFails,  \* bound: writes of the journal that fail
          MaxEvents, \* bound: tokens typed, inserted or deleted, sessions killed,
                     \* writes failed
          MaxSaves,  \* bound: times the outside tool changes the file
          Kept,      \* texts kept in a list of projections (PROJECTIONS_KEPT, 8)
          CompactAfter, \* files in a log that make it compact (COMPACT_AFTER, 32)
          None,      \* an optional value that is absent
          Overlap    \* overlaps allowed, of Overlaps

Overlaps == {"late", "unshown", "drop", "compact", "vanish", "twice", "note"}

ASSUME FolderAssumption ==
    /\ MaxOpens \in Nat /\ MaxCrash \in Nat /\ MaxFails \in Nat /\ MaxEvents \in Nat /\ MaxSaves \in Nat
    /\ Kept \in Nat \ {0} /\ CompactAfter \in Nat \ {0} /\ Overlap \subseteq Overlaps

Token == Typed \cup Foreign \cup Old \cup Erased

VARIABLES
    file,       \* the visible file's text
    journal,    \* the journal: name -> Yjs state
    projected,  \* projected.json: the texts, the last one noted at the end
    phase,      \* session -> "closed", "loading", "open", "closing", "ending"
                \* (its last compaction has begun)
    doc,        \* session -> Yjs state of the replica
    seen,       \* session -> names its UpdateLog has read or written
    pending,    \* session -> updates not written yet, merged
    base,       \* session -> last agreement of file and state, or None
    staleFile,  \* session -> text recognised as an old projection, or None
    mine,       \* session -> replica.projected
    due,        \* session -> the timer of a projection runs
    asked,      \* session -> a projection is in the queue
    newFile,    \* session -> the watch has reported the visible file
    newLog,     \* session -> the watch has reported a journal file not seen
    job,        \* session -> the operation of its queue under way
    dying,      \* session -> names its compaction is about to erase
    names,      \* session -> journal files it has named
    opens,      \* session -> times it has opened the document
    crashes,    \* sessions killed so far
    fails,      \* writes of the journal failed so far
    made,       \* tokens typed or inserted so far (history)
    shown,      \* what the file has agreed with so far (history)
    cut         \* tokens the outside tool has deleted (history)

disk == <<file, journal, projected>>
replica == <<doc, seen, pending, base, staleFile, mine>>
events == <<due, asked, newFile, newLog>>
history == <<opens, crashes, fails, made, shown, cut>>
vars == <<disk, replica, events, phase, job, dying, names, history>>

-----------------------------------------------------------------------------
\* Yjs states and texts.

Empty == [has |-> {}, gone |-> {}]

Merge(a, b) == [has |-> a.has \cup b.has, gone |-> a.gone \cup b.gone]

Within(a, b) == a.has \subseteq b.has /\ a.gone \subseteq b.gone

MergeAll(states) == [has  |-> UNION {st.has : st \in states},
                     gone |-> UNION {st.gone : st \in states}]

Alive(st, t) == {i \in st.has \ st.gone : i.tok = t}

Text(st) ==
    LET live == st.has \ st.gone
    IN UNION {{t} \X (1..Cardinality({i \in live : i.tok = t})) : t \in {i.tok : i \in live}}

\* What the journal on the disk says.
Stored == MergeAll({journal[n] : n \in DOMAIN journal})

\* applyDeterministic: the state `from` led to `content` by the items of a Yjs
\* client that kind, state vector and content determine.
Led(from, content, kind) ==
    LET client == [kind |-> kind, sv |-> from.has, to |-> content]
        old == Text(from)
        extra(t) == Cardinality({o \in old \ content : o[1] = t})
    IN [has  |-> from.has \cup {[tok |-> o[1], nth |-> o[2], by |-> client] :
                                    o \in content \ old},
        gone |-> from.gone \cup
                 UNION {CHOOSE d \in SUBSET Alive(from, t) : Cardinality(d) = extra(t) :
                            t \in {o[1] : o \in old \ content}}]

Idle == [at |-> "idle", kind |-> "none", want |-> {}, got |-> Empty, aim |-> None,
         list |-> <<>>]

\* The journal files a session has not read, as it lists them.
Unread(s) == DOMAIN journal \ seen[s]

\* Sessions that the watch tells of a journal file, or of the visible file.
Others(s) == {o \in Session \ {s} : phase[o] # "closed"}

Watching(s) == phase[s] \in {"loading", "open"}

\* A window opens the document and has found no state of it.
Blank == \E s \in Session : phase[s] = "loading" /\ seen[s] \cup job[s].want = {}

In(list) == {list[i] : i \in DOMAIN list}

\* A list of projections with one more, cut to its last.
Noted(list, text) ==
    LET all == Append(SelectSeq(list, LAMBDA old : old # text), text)
    IN SubSeq(all, IF Len(all) > Kept THEN Len(all) - Kept + 1 ELSE 1, Len(all))

\* isProjection
IsProjection(s, content) == content \in In(mine[s]) \cup In(projected)

Before == Old \X {1}

\* What earlier runs leave: nothing but the file; or a journal that says less than
\* the file, an old projection that a window killed since wrote last.
NoRun ==
    /\ file = Before /\ journal = <<>> /\ projected = <<>>
    /\ names = [s \in Session |-> 0]
    /\ crashes = 0 /\ shown = Empty /\ cut = {}

EarlierRun ==
    LET first == Led(Empty, Before \cup Erased \X {1}, "seed")
        last == Led(first, Before, "edit") IN
    /\ file = Text(first) /\ projected = <<Text(first)>>
    /\ \E s \in Session :
        /\ journal = [n \in {<<s, 1>>} |-> last]
        /\ names = [o \in Session |-> IF o = s THEN 1 ELSE 0]
    /\ crashes = 1 /\ shown = last /\ cut = Erased

Init ==
    /\ NoRun \/ (Erased # {} /\ MaxCrash > 0 /\ EarlierRun)
    /\ phase = [s \in Session |-> "closed"]
    /\ doc = [s \in Session |-> Empty]
    /\ seen = [s \in Session |-> {}]
    /\ pending = [s \in Session |-> Empty]
    /\ base = [s \in Session |-> None]
    /\ staleFile = [s \in Session |-> None]
    /\ mine = [s \in Session |-> <<>>]
    /\ due = [s \in Session |-> FALSE]
    /\ asked = [s \in Session |-> FALSE]
    /\ newFile = [s \in Session |-> FALSE]
    /\ newLog = [s \in Session |-> FALSE]
    /\ job = [s \in Session |-> Idle]
    /\ dying = [s \in Session |-> {}]
    /\ opens = [s \in Session |-> 0]
    /\ fails = 0 /\ made = {}

-----------------------------------------------------------------------------
\* The editor and the outside tool.

\* openDocument, acquireReplica: the queue's first operation reads the journal.
Open(s) ==
    /\ phase[s] = "closed" /\ opens[s] < MaxOpens
    /\ opens' = [opens EXCEPT ![s] = @ + 1]
    /\ phase' = [phase EXCEPT ![s] = "loading"]
    /\ job' = [job EXCEPT ![s] = [Idle EXCEPT !.at = "read", !.kind = "load",
                                              !.want = DOMAIN journal]]
    /\ UNCHANGED <<disk, replica, events, dying, names, crashes, fails, made, shown, cut>>

Happened == Cardinality(made) + Cardinality(cut \ Erased) + crashes + fails

\* A keystroke: onReplicaUpdate with FROM_EDITOR.
Type(s, t) ==
    /\ phase[s] = "open" /\ t \notin made /\ Happened < MaxEvents
    /\ made' = made \cup {t}
    /\ LET item == [has |-> {[tok |-> t, nth |-> 1, by |-> None]}, gone |-> {}]
       IN /\ doc' = [doc EXCEPT ![s] = Merge(@, item)]
          /\ pending' = [pending EXCEPT ![s] = Merge(@, item)]
    /\ due' = [due EXCEPT ![s] = TRUE]
    /\ UNCHANGED <<disk, seen, base, staleFile, mine, asked, newFile, newLog, phase,
                   job, dying, names, opens, crashes, fails, shown, cut>>

\* The outside tool saves the file with one token more, or one less.  Unless
\* "late" is allowed, not while a projection is on its way to the file; unless
\* "unshown" is, not while something typed that the file has never shown has no
\* window to remember the agreement it was typed on; unless "twice" is, not while
\* a window that has listed no state is about to take the file for a new note, or has
\* still to read what was last written in the file (the limit known, :23).
OutsideWrites ==
    /\ "late" \notin Overlap => \A s \in Session : job[s].kind \notin {"project", "last"}
    /\ "unshown" \notin Overlap =>
            \/ Within(MergeAll({Stored} \cup {doc[s] : s \in Session}), shown)
            \/ \A s \in Session : Watching(s) /\ base[s] # None
    /\ "twice" \notin Overlap => ~(Blank \/ \E s \in Session : newFile[s] \/ job[s].kind = "ingest")
    /\ Happened < MaxEvents /\ Cardinality((cut \ Erased) \cup (made \cap Foreign)) < MaxSaves
    /\ \/ \E t \in Foreign \ made :
            /\ file' = file \cup {<<t, 1>>}
            /\ made' = made \cup {t}
            /\ cut' = cut
       \/ \E o \in file :
            /\ <<o[1], o[2] + 1>> \notin file /\ o[1] \notin Erased
            /\ file' = file \ {o}
            /\ cut' = cut \cup {o[1]}
            /\ made' = made
    /\ newFile' = [s \in Session |-> newFile[s] \/ Watching(s)]
    /\ UNCHANGED <<journal, projected, replica, due, asked, newLog, phase, job, dying, names,
                   opens, crashes, fails, shown>>

-----------------------------------------------------------------------------
\* The journal (UpdateLog).

NewName(s) == <<s, names[s] + 1>>

\* The journal with one more file, or a few.
With(files) == [n \in DOMAIN journal \cup DOMAIN files |->
                    IF n \in DOMAIN files THEN files[n] ELSE journal[n]]

\* No compaction in mid-session is under way: the log writes one thing at a time.
Steady(s) == dying[s] = {} \/ phase[s] = "ending"

\* flush, or the end of persistMs: writePending.
Flush(s) ==
    /\ pending[s] # Empty /\ Steady(s)
    /\ Cardinality(seen[s]) + 1 < CompactAfter
    /\ names' = [names EXCEPT ![s] = @ + 1]
    /\ journal' = With(NewName(s) :> pending[s])
    /\ seen' = [seen EXCEPT ![s] = @ \cup {NewName(s)}]
    /\ pending' = [pending EXCEPT ![s] = Empty]
    /\ newLog' = [o \in Session |-> newLog[o] \/ o \in Others(s)]
    /\ UNCHANGED <<file, projected, doc, base, staleFile, mine, due, asked, newFile, phase,
                   job, dying, history>>

\* ... which then compacts a log that has become long: the whole state in a file of
\* its own, before the files it replaces are erased (CompactErase).
FlushCompacts(s) ==
    LET written == seen[s] \cup {NewName(s)}
        state == <<s, names[s] + 2>> IN
    /\ pending[s] # Empty /\ Steady(s)
    /\ Cardinality(written) >= CompactAfter
    /\ "compact" \notin Overlap => job[s].got = Empty
    /\ names' = [names EXCEPT ![s] = @ + 2]
    /\ journal' = With(NewName(s) :> pending[s] @@ state :> doc[s])
    /\ dying' = [dying EXCEPT ![s] = @ \cup written]
    /\ seen' = [seen EXCEPT ![s] = {state}]
    /\ pending' = [pending EXCEPT ![s] = Empty]
    /\ newLog' = [o \in Session |-> newLog[o] \/ o \in Others(s)]
    /\ UNCHANGED <<file, projected, doc, base, staleFile, mine, due, asked, newFile, phase,
                   job, history>>

\* closeDocument, releaseReplica.  What waits in the queue no longer finds the
\* replica, but for pull: a projection is made again only if its timer runs.
Close(s) ==
    /\ phase[s] = "open"
    /\ asked[s] => due[s] \/ "drop" \in Overlap
    /\ newFile[s] /\ due[s] => "late" \in Overlap
    /\ phase' = [phase EXCEPT ![s] = "closing"]
    /\ newFile' = [newFile EXCEPT ![s] = FALSE]
    /\ asked' = [asked EXCEPT ![s] = due[s]]
    /\ due' = [due EXCEPT ![s] = FALSE]
    /\ UNCHANGED <<disk, replica, newLog, job, dying, names, history>>

\* The session no longer has the document open.
Forget(s) ==
    /\ phase' = [phase EXCEPT ![s] = "closed"]
    /\ doc' = [doc EXCEPT ![s] = Empty]
    /\ seen' = [seen EXCEPT ![s] = {}]
    /\ pending' = [pending EXCEPT ![s] = Empty]
    /\ base' = [base EXCEPT ![s] = None]
    /\ staleFile' = [staleFile EXCEPT ![s] = None]
    /\ mine' = [mine EXCEPT ![s] = <<>>]
    /\ due' = [due EXCEPT ![s] = FALSE]
    /\ asked' = [asked EXCEPT ![s] = FALSE]
    /\ newFile' = [newFile EXCEPT ![s] = FALSE]
    /\ newLog' = [newLog EXCEPT ![s] = FALSE]
    /\ job' = [job EXCEPT ![s] = Idle]
    /\ dying' = [dying EXCEPT ![s] = {}]

\* The projection that releaseReplica waits for, if any, is made.
Released(s) ==
    /\ phase[s] = "closing" /\ ~asked[s] /\ job[s].kind # "last"
    /\ pending[s] = Empty /\ dying[s] = {}

\* compact(true) has nothing to do for a journal of one file.
Release(s) ==
    /\ Released(s) /\ job[s].kind # "project"
    /\ Cardinality(seen[s]) <= 1
    /\ Forget(s)
    /\ UNCHANGED <<disk, names, history>>

\* writePending fails: its updates wait for the next write, but the operation of the
\* queue that awaited this one is given up, and a session that closes ends without
\* them.  (A load given up, which leaves the window blank, is not modelled.)
FlushFails(s) ==
    /\ pending[s] # Empty /\ Steady(s) /\ fails < MaxFails /\ Happened < MaxEvents
    /\ fails' = fails + 1
    /\ \/ /\ job[s].at \in {"save", "flush"} /\ job[s].kind \in {"ingest", "project"}
          /\ job' = [job EXCEPT ![s] = Idle]
          /\ UNCHANGED <<replica, events, phase, dying>>
       \/ /\ phase[s] = "closing" /\ ~asked[s]
          /\ job[s].kind = "last" => job[s].at \in {"save", "flush"}
          /\ job[s].kind # "project"
          /\ Forget(s)
    /\ UNCHANGED <<disk, names, opens, crashes, made, shown, cut>>

\* Mutant of CompactWrite: what the directory lists is erased, read or not.
CompactWriteErasesAll(s) ==
    /\ Released(s) /\ Cardinality(seen[s]) > 1
    /\ "compact" \notin Overlap => job[s].got = Empty
    /\ phase' = [phase EXCEPT ![s] = "ending"]
    /\ names' = [names EXCEPT ![s] = @ + 1]
    /\ journal' = With(NewName(s) :> doc[s])
    /\ dying' = [dying EXCEPT ![s] = DOMAIN journal]
    /\ seen' = [seen EXCEPT ![s] = {NewName(s)}]
    /\ newLog' = [o \in Session |-> newLog[o] \/ o \in Others(s)]
    /\ UNCHANGED <<file, projected, doc, pending, base, staleFile, mine, due, asked,
                   newFile, job, history>>

\* compact(true), writeCompacted: the whole state in one file...  It does not wait
\* for the operations of the queue.
CompactWrite(s) ==
    /\ Released(s) /\ Cardinality(seen[s]) > 1
    /\ "compact" \notin Overlap => job[s].got = Empty
    /\ phase' = [phase EXCEPT ![s] = "ending"]
    /\ names' = [names EXCEPT ![s] = @ + 1]
    /\ journal' = With(NewName(s) :> doc[s])
    /\ dying' = [dying EXCEPT ![s] = seen[s]]
    /\ seen' = [seen EXCEPT ![s] = {NewName(s)}]
    /\ newLog' = [o \in Session |-> newLog[o] \/ o \in Others(s)]
    /\ UNCHANGED <<file, projected, doc, pending, base, staleFile, mine, due, asked,
                   newFile, job, history>>

\* ... then the files read before are erased, and the log is done with if the session
\* ends.  (A projection under way goes on without the replica; the next opening waits
\* for it.)
CompactErase(s) ==
    /\ dying[s] # {}
    /\ "vanish" \notin Overlap => \A o \in Session \ {s} : job[o].want \cap dying[s] = {}
    /\ journal' = [n \in DOMAIN journal \ dying[s] |-> journal[n]]
    /\ \/ phase[s] = "ending" /\ job[s].kind # "project" /\ Forget(s)
       \/ phase[s] # "ending" /\ dying' = [dying EXCEPT ![s] = {}]
          /\ UNCHANGED <<replica, events, phase, job>>
    /\ UNCHANGED <<file, projected, names, history>>

-----------------------------------------------------------------------------
\* The operations of a session's queue.

\* The window is killed at work (at rest it may as well close the document).
Crash(s) ==
    /\ phase[s] # "closed" /\ crashes < MaxCrash /\ Happened < MaxEvents
    /\ ~(job[s] = Idle /\ pending[s] = Empty /\ ~due[s] /\ ~asked[s] /\ dying[s] = {})
    /\ "unshown" \notin Overlap => file \in In(projected) \/ Within(Stored, shown)
    /\ crashes' = crashes + 1
    /\ Forget(s)
    /\ UNCHANGED <<disk, names, opens, fails, made, shown, cut>>

\* pull and ingest list the journal.
StartPull(s) ==
    /\ job[s] = Idle /\ newLog[s] /\ phase[s] \in {"open", "closing", "ending"}
    /\ newLog' = [newLog EXCEPT ![s] = FALSE]
    /\ job' = [job EXCEPT ![s] = [Idle EXCEPT !.at = "read", !.kind = "pull",
                                              !.want = Unread(s)]]
    /\ UNCHANGED <<disk, replica, due, asked, newFile, phase, dying, names, history>>

StartIngest(s) ==
    /\ job[s] = Idle /\ newFile[s] /\ phase[s] = "open"
    /\ newFile' = [newFile EXCEPT ![s] = FALSE]
    /\ job' = [job EXCEPT ![s] = [Idle EXCEPT !.at = IF Unread(s) = {} THEN "compare"
                                                     ELSE "read",
                                              !.kind = "ingest", !.want = Unread(s)]]
    /\ UNCHANGED <<disk, replica, due, asked, newLog, phase, dying, names, history>>

\* readNew: the files of the list that are still there.
Read(s) ==
    /\ job[s].at = "read" /\ job[s].want # {}
    /\ LET there == job[s].want \cap DOMAIN journal
       IN /\ job' = [job EXCEPT ![s].want = {},
                                ![s].got = MergeAll({journal[n] : n \in there})]
          /\ seen' = [seen EXCEPT ![s] = @ \cup there]
    /\ UNCHANGED <<disk, doc, pending, base, staleFile, mine, events, phase, dying,
                   names, history>>

\* readNew has returned: the updates are applied with FROM_DISK.
Apply(s) ==
    /\ job[s].at = "read" /\ job[s].want = {}
    /\ doc' = [doc EXCEPT ![s] = Merge(@, job[s].got)]
    /\ job' = [job EXCEPT ![s] = IF job[s].kind = "pull" THEN Idle
                                 ELSE [@ EXCEPT !.at = "compare", !.got = Empty]]
    /\ UNCHANGED <<disk, seen, pending, base, staleFile, mine, events, phase, dying,
                   names, history>>

\* Mutant of ApplyDeterministic: its update is taken for one read in the journal.
ApplyUnlogged(s, kind) ==
    LET from == IF base[s] = None THEN doc[s] ELSE base[s].state
        led == Led(from, file, kind)
    IN /\ "unshown" \notin Overlap => base[s] # None \/ Within(doc[s], shown)
       /\ shown' = Merge(shown, led)
       /\ doc' = [doc EXCEPT ![s] = Merge(@, led)]
       /\ pending' = pending
       /\ base' = [base EXCEPT ![s] = [text |-> file, state |-> led]]
       /\ staleFile' = [staleFile EXCEPT ![s] = None]

\* Mutant of ApplyDeterministic: from the current state, not the last agreement.
ApplyFromNow(s, kind) ==
    LET from == doc[s]
        led == Led(from, file, kind)
    IN /\ "unshown" \notin Overlap => base[s] # None \/ Within(doc[s], shown)
       /\ shown' = Merge(shown, led)
       /\ doc' = [doc EXCEPT ![s] = Merge(@, led)]
       /\ pending' = [pending EXCEPT ![s] =
            Merge(@, [has |-> led.has \ from.has, gone |-> led.gone])]
       /\ base' = [base EXCEPT ![s] = [text |-> file, state |-> led]]
       /\ staleFile' = [staleFile EXCEPT ![s] = None]

\* Mutant of ApplyDeterministic: each session has its own Yjs client.
ApplyAtRandom(s, kind) ==
    LET from == IF base[s] = None THEN doc[s] ELSE base[s].state
        led == Led(from, file, s)
    IN /\ "unshown" \notin Overlap => base[s] # None \/ Within(doc[s], shown)
       /\ shown' = Merge(shown, led)
       /\ doc' = [doc EXCEPT ![s] = Merge(@, led)]
       /\ pending' = [pending EXCEPT ![s] =
            Merge(@, [has |-> led.has \ from.has, gone |-> led.gone])]
       /\ base' = [base EXCEPT ![s] = [text |-> file, state |-> led]]
       /\ staleFile' = [staleFile EXCEPT ![s] = None]

\* applyDeterministic, up to its flush.  Unless "unshown" is allowed, a file is not
\* read from the current state when that has something the file never showed.
ApplyDeterministic(s, kind) ==
    LET from == IF base[s] = None THEN doc[s] ELSE base[s].state
        led == Led(from, file, kind)
    IN /\ "unshown" \notin Overlap => base[s] # None \/ Within(doc[s], shown)
       /\ shown' = Merge(shown, led)
       /\ doc' = [doc EXCEPT ![s] = Merge(@, led)]
       /\ pending' = [pending EXCEPT ![s] =
            Merge(@, [has |-> led.has \ from.has, gone |-> led.gone])]
       /\ base' = [base EXCEPT ![s] = [text |-> file, state |-> led]]
       /\ staleFile' = [staleFile EXCEPT ![s] = None]

\* reconcileText, up to the flush of an edit.  `timers` are the timers that run.
Reconcile(s, timers) ==
    LET isEmpty == seen[s] = {} /\ pending[s] = Empty
        agreed == IF isEmpty THEN file = {} ELSE file = Text(doc[s])
        known == base[s] # None /\ base[s].text = file
        old == file = staleFile[s] \/ IsProjection(s, file)
    IN \/ /\ agreed
          /\ base' = [base EXCEPT ![s] = [text |-> file, state |-> doc[s]]]
          /\ staleFile' = [staleFile EXCEPT ![s] = IF isEmpty THEN @ ELSE None]
          /\ due' = timers
          /\ shown' = Merge(shown, doc[s])
          /\ UNCHANGED <<doc, pending>>
       \/ /\ ~agreed /\ ~isEmpty /\ known
          /\ due' = timers
          /\ UNCHANGED <<doc, pending, base, staleFile, shown>>
       \/ /\ ~agreed /\ ~isEmpty /\ ~known /\ old
          /\ base' = [base EXCEPT ![s] = None]
          /\ staleFile' = [staleFile EXCEPT ![s] = file]
          /\ due' = [timers EXCEPT ![s] = Watching(s)]
          /\ UNCHANGED <<doc, pending, shown>>
       \/ /\ ~agreed /\ (isEmpty \/ (~known /\ ~old))
          /\ ApplyDeterministic(s, IF isEmpty THEN "seed" ELSE "edit")
          /\ due' = timers

\* An edit read in the file is written before the operation goes on.
Written(s) == job[s].at = "save" /\ Steady(s) /\ base[s] # None /\ Within(base[s].state, Stored)

\* loadReplica and ingest end, at once if there is nothing to write.
Finish(s) ==
    /\ job' = [job EXCEPT ![s] = Idle]
    /\ phase' = [phase EXCEPT ![s] = IF @ = "loading" THEN "open" ELSE @]

\* loadReplica and ingest go on.
Compare(s) ==
    /\ job[s].at = "compare"
    /\ Reconcile(s, due)
    /\ IF pending' = pending THEN Finish(s)
       ELSE job' = [job EXCEPT ![s].at = "save"] /\ phase' = phase
    /\ UNCHANGED <<disk, seen, mine, asked, newFile, newLog, dying, names, opens,
                   crashes, fails, made, cut>>

\* ... and end.
Reconciled(s) ==
    /\ Written(s) /\ job[s].kind \in {"load", "ingest"}
    /\ Finish(s)
    /\ UNCHANGED <<disk, replica, events, dying, names, history>>

\* The timer of scheduleProjection.
AskProjection(s) ==
    /\ due[s] /\ phase[s] = "open"
    /\ due' = [due EXCEPT ![s] = FALSE]
    /\ asked' = [asked EXCEPT ![s] = TRUE]
    /\ UNCHANGED <<disk, replica, newFile, newLog, phase, job, dying, names, history>>

\* projectNow: the text and the state to write, unless the file agrees with it.
Measured(s, kind) ==
    IF base'[s] # None /\ base'[s].text = Text(doc[s]) THEN Idle
    ELSE [Idle EXCEPT !.at = "flush", !.kind = kind,
                      !.aim = [text |-> Text(doc[s]), state |-> doc[s]]]

\* projectNow: a file never compared is read first, and merged if it is news.
StartProject(s) ==
    LET kind == IF phase[s] = "closing" THEN "last" ELSE "project"
    IN /\ job[s] = Idle /\ asked[s]
       /\ "late" \notin Overlap => ~newFile[s]
       /\ asked' = [asked EXCEPT ![s] = FALSE]
       /\ IF base[s] # None \/ file \in {staleFile[s], {}} \/ IsProjection(s, file)
          THEN UNCHANGED <<doc, pending, base, staleFile, due, shown>>
          ELSE Reconcile(s, due)
       /\ job' = [job EXCEPT ![s] = IF pending' = pending THEN Measured(s, kind)
                                    ELSE [Idle EXCEPT !.at = "save", !.kind = kind]]
       /\ UNCHANGED <<disk, seen, mine, newFile, newLog, phase, dying, names, opens,
                      crashes, fails, made, cut>>

\* projectNow goes on once what the file said is written.
Measure(s) ==
    /\ Written(s) /\ job[s].kind \in {"project", "last"}
    /\ UNCHANGED <<disk, replica, events, phase, dying, names, history>>
    /\ job' = [job EXCEPT ![s] = Measured(s, job[s].kind)]

\* projectNow: the journal first, then projected.json (rememberProjection), which is
\* read...  Unless "note" is allowed, not between another window's reading of it and
\* its writing.
NoteRead(s) ==
    /\ job[s].at = "flush" /\ Steady(s) /\ Within(job[s].aim.state, Stored)
    /\ "note" \notin Overlap => \A o \in Session : job[o].at # "note"
    /\ mine' = [mine EXCEPT ![s] = Noted(@, job[s].aim.text)]
    /\ job' = [job EXCEPT ![s].at = "note", ![s].list = projected]
    /\ UNCHANGED <<disk, doc, seen, pending, base, staleFile, events, phase, dying, names,
                   history>>

\* ... and written with the text...
NoteWrite(s) ==
    /\ job[s].at = "note"
    /\ projected' = Noted(job[s].list, job[s].aim.text)
    /\ job' = [job EXCEPT ![s].at = "write", ![s].list = <<>>]
    /\ UNCHANGED <<file, journal, replica, events, phase, dying, names, history>>

\* Mutant of WriteFile: the state is read once the file is written.
WriteFileThenState(s) ==
    /\ job[s].at = "write"
    /\ "twice" \notin Overlap => ~Blank
    /\ file' = job[s].aim.text
    /\ base' = [base EXCEPT ![s] = [text |-> job[s].aim.text, state |-> doc[s]]]
    /\ staleFile' = [staleFile EXCEPT ![s] = None]
    /\ newFile' = [o \in Session |-> newFile[o] \/ Watching(o)]
    /\ job' = [job EXCEPT ![s] = Idle]
    /\ shown' = Merge(shown, job[s].aim.state)
    /\ UNCHANGED <<journal, projected, doc, seen, pending, mine, due, asked, newLog, phase,
                   dying, names, opens, crashes, fails, made, cut>>

\* ... then the file.
WriteFile(s) ==
    /\ job[s].at = "write"
    /\ "twice" \notin Overlap => ~Blank
    /\ file' = job[s].aim.text
    /\ base' = [base EXCEPT ![s] = job[s].aim]
    /\ staleFile' = [staleFile EXCEPT ![s] = None]
    /\ newFile' = [o \in Session |-> newFile[o] \/ Watching(o)]
    /\ job' = [job EXCEPT ![s] = Idle]
    /\ shown' = Merge(shown, job[s].aim.state)
    /\ UNCHANGED <<journal, projected, doc, seen, pending, mine, due, asked, newLog, phase,
                   dying, names, opens, crashes, fails, made, cut>>

Work(s) ==
    \/ Flush(s) \/ FlushCompacts(s) \/ FlushFails(s)
    \/ Release(s) \/ CompactWrite(s) \/ CompactErase(s)
    \/ StartPull(s) \/ StartIngest(s) \/ Read(s) \/ Apply(s)
    \/ Compare(s) \/ Reconciled(s) \/ AskProjection(s) \/ StartProject(s)
    \/ Measure(s) \/ NoteRead(s) \/ NoteWrite(s) \/ WriteFile(s)

Next ==
    \/ OutsideWrites
    \/ \E s \in Session :
        \/ Open(s) \/ Close(s) \/ Crash(s) \/ Work(s)
        \/ \E t \in Typed : Type(s, t)

Spec == Init /\ [][Next]_vars

-----------------------------------------------------------------------------
\* Properties.

Texts == SUBSET (Token \X (1..3))

\* Types of the state: who has a document closed has nothing of it in memory.
TypeOK ==
    /\ file \in Texts /\ In(projected) \subseteq Texts /\ Len(projected) <= Kept
    /\ \A n \in DOMAIN journal : n[1] \in Session /\ n[2] \in 1..names[n[1]]
    /\ \A s \in Session :
        /\ phase[s] \in {"closed", "loading", "open", "closing", "ending"}
        /\ doc[s].gone \subseteq doc[s].has
        /\ In(mine[s]) \subseteq Texts /\ Len(mine[s]) <= Kept
        /\ base[s] # None => base[s].text = Text(base[s].state) /\ Within(base[s].state, doc[s])
        /\ phase[s] = "closed" => /\ doc[s] = Empty /\ pending[s] = Empty
                                  /\ job[s].kind \in {"none", "pull"}

\* The journal on the disk never forgets an update, whatever the two windows
\* compact ("on n'efface que des fichiers DEJA LUS", UpdateLog.ts:15).
JournalKeeps == [][journal' # journal => Within(Stored, Stored')]_vars

\* Nothing is deleted from a text but what the outside tool deleted from the file:
\* an old or interrupted projection is never read as a deletion of what was typed
\* since (desktop-vault-format.md, "jamais lue comme une modification").
NothingUnasked ==
    \A i \in UNION {doc[s].gone : s \in Session} \cup Stored.gone : i.tok \in cut

\* Nothing is twice in a text before the outside tool writes: two windows that
\* find a note without a state give it the same first state.
NothingDoubled ==
    made \cap Foreign = {} /\ cut = {} =>
        \A s \in Session : \A o \in Text(doc[s]) : o[2] = 1

Quiet(s) ==
    /\ phase[s] \in {"closed", "open"} /\ job[s] = Idle /\ pending[s] = Empty
    /\ ~due[s] /\ ~asked[s] /\ ~newFile[s] /\ ~newLog[s]

\* Once every window has handled what it was told of, those that show the document
\* show what the journal says; the file says it too, or is a projection that will be
\* known for an old one, unless a write failed and its projection with it; and nothing
\* typed or inserted is missing (but the last words of a window killed, or closed on a
\* disk that fails).
RestAgrees ==
    (\A s \in Session : Quiet(s)) =>
        \A s \in Session : phase[s] = "open" =>
            /\ doc[s] = Stored
            /\ fails = 0 => file \in In(projected) \cup {Text(doc[s])}
            /\ crashes = 0 /\ fails = 0 => (made \cup Old) \ cut \subseteq {o[1] : o \in Text(doc[s])}
=============================================================================
