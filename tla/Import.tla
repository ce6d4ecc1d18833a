------------------------------- MODULE Import -------------------------------
(***************************************************************************)
(* Import of published briefs (repo_tasks.py, auto_import.py, the duty     *)
(* _auto_import_host_queues of manager/reconciler.py and                   *)
(* manager/api_repo_tasks.py): a target repository publishes briefs on its *)
(* main, the reconciler and the operator move them into a queue, workers   *)
(* run them.  Each import reads the attempts, scans main, copies into the  *)
(* content store and removes the sources, with an await after each of the  *)
(* four; only two operator imports exclude each other.                     *)
(*                                                                         *)
(* A source is a path in an inbox; a text is what a blob says, its hold    *)
(* flags included, and v tells the publisher's versions of it apart.  A    *)
(* stem is a task name, with the number a collision appends (1 for none).  *)
(* Main is the main the next job on the repository works on.               *)
(***************************************************************************)
EXTENDS Integers, Sequences

CONSTANTS
    Source,
    Published,      \* the sources in published order, inbox after inbox
    NameOf,         \* source -> name of the task
    Host,           \* sources in the host queue the reconciler drains
    Quarantinable,  \* sources the publisher may publish with a quarantine
    Overlap,        \* leases, publishers and the two importers may act while an
                    \* import is under way, as nothing in the code prevents
    Versions,       \* bound: source -> versions its publisher writes
    MaxNumber,      \* bound: numbers that collisions append to a name
    MaxFaults,      \* bound: removals that fail
    MaxCrashes      \* bound: manager restarts

ASSUME ImportConstants ==
    /\ Published \in Seq(Source)
    /\ \A s \in Source : \E k \in DOMAIN Published : Published[k] = s
    /\ \A j, k \in DOMAIN Published : Published[j] = Published[k] => j = k
    /\ Host \subseteq Source /\ Quarantinable \subseteq Source
    \* The host queue is one directory.
    /\ \A s, u \in Host : NameOf[s] = NameOf[u] => s = u
    /\ Overlap \in BOOLEAN
    /\ Versions \in [Source -> Nat]
    /\ MaxNumber \in Nat /\ MaxFaults \in Nat /\ MaxCrashes \in Nat

VARIABLES
    inbox,     \* source -> the text on main, or NoText
    version,   \* source -> versions published so far
    queue,     \* stem -> the brief in the destination queue, or NoBrief
    order,     \* the order of the queue
    started,   \* started_tasks: stems that were ever attempted
    running,   \* stem -> <<source, version>> its worker was given, or Idle
    importer,  \* importer -> what it is doing
    ran,       \* the versions that were run to the end
    withdrawn, \* versions replaced by a later one of their publisher
    faults, crashes

published == <<inbox, version, withdrawn>>
store == <<queue, order>>
tasks == <<started, running, ran>>
ends == <<faults, crashes>>
vars == <<published, store, tasks, importer, ends>>

Importer == {"auto", "manual"}
NoText == [v |-> 0]
NoBrief == [src |-> "none"]
Idle == <<>>
Stem == {NameOf[s] : s \in Source} \X (1..MaxNumber)
Resting == [pc |-> "idle", begun |-> {}, entries |-> <<>>]

-----------------------------------------------------------------------------
Quiet == \A i \in Importer : importer[i].pc = "idle"
Alone(i) == Overlap \/ \A j \in Importer \ {i} : importer[j].pc = "idle"
Queued == {t \in Stem : queue[t] # NoBrief}
At(i, pc) == importer[i].pc = pc

\* The publisher commits a first or a corrected version to the repository.
Publish(s, q) ==
    /\ version[s] < Versions[s]
    /\ Overlap \/ Quiet
    /\ version' = [version EXCEPT ![s] = @ + 1]
    /\ inbox' = [inbox EXCEPT ![s] = [v |-> version[s] + 1, disabled |-> FALSE,
                                      quarantined |-> q]]
    /\ withdrawn' = IF inbox[s] = NoText THEN withdrawn
                    ELSE withdrawn \cup {<<s, inbox[s].v>>}
    /\ UNCHANGED <<store, tasks, importer, ends>>

\* The publisher clears a quarantine.
ClearHold(s) ==
    /\ inbox[s] # NoText /\ inbox[s].quarantined
    /\ Overlap \/ Quiet
    /\ inbox' = [inbox EXCEPT ![s].quarantined = FALSE]
    /\ UNCHANGED <<version, withdrawn, store, tasks, importer, ends>>

-----------------------------------------------------------------------------
\* An import, in four steps.

\* store.started_tasks, read before the scan is handed to a thread.  A drained
\* inbox, or one with nothing the importer may take, ends the pass.
ReadStarted(i) ==
    /\ At(i, "idle") /\ Alone(i)
    /\ \E s \in Source : inbox[s] # NoText
    /\ importer' = [importer EXCEPT ![i] = [Resting EXCEPT !.pc = "begun",
                                                           !.begun = started]]
    /\ UNCHANGED <<published, store, tasks, ends>>

\* Mutant of Entry: a text the queue has is taken for an update.
EntryUpdates(s, begun) ==
    LET stem == <<NameOf[s], 1>>
    IN [text |-> inbox[s], duplicate |-> FALSE,
        replaces |-> stem \in Queued \ begun, started |-> stem \in Queued \cap begun]

\* _scan_inboxes: a text the queue already has verbatim is a duplicate; a name it
\* has otherwise is an update, or refused when the task has begun.
Entry(s, begun) ==
    LET stem == <<NameOf[s], 1>>
        duplicate == \E t \in Queued : /\ ~queue[t].stamped
                                       /\ queue[t].src = s /\ queue[t].text = inbox[s]
        collides == ~duplicate /\ stem \in Queued
    IN [text |-> inbox[s], duplicate |-> duplicate,
        replaces |-> collides /\ stem \notin begun,
        started |-> collides /\ stem \in begun]

\* pending_imports reads the queue in file name order: x-2.md before x.md.
Stamped(s) == {t \in Queued : queue[t].stamped /\ queue[t].src = s}
PendingText(s) ==
    LET last == CHOOSE t \in Stamped(s) :
                    \A u \in Stamped(s) : t[2] = 1 \/ (u[2] # 1 /\ u[2] <= t[2])
    IN queue[last].text

\* Mutant of IsReplay: the guard is forgotten.
IsReplayNever(s, text) == FALSE

\* is_replay: this queue holds an import of this source that said the same.
IsReplay(s, text) == Stamped(s) # {} /\ PendingText(s) = text

\* What the reconciler takes of a scan.
Fresh(s, e) ==
    /\ ~e.text.quarantined
    /\ ~(e.started /\ e.text.disabled)
    /\ ~IsReplay(s, e.text)

\* scan_repo_inbox of the host queue, or scan_repo_tasks of every inbox and the
\* operator's selection from it.
Scan(i, picked) ==
    LET here == {s \in Source : inbox[s] # NoText /\ s \in IF i = "auto" THEN Host ELSE picked}
        entries == [s \in here |-> Entry(s, importer[i].begun)]
        taken == {s \in here : i = "auto" => Fresh(s, entries[s])}
    IN /\ At(i, "begun")
       /\ importer' = [importer EXCEPT ![i] =
                         IF taken = {} THEN Resting
                         ELSE [@ EXCEPT !.pc = "copy",
                                        !.entries = [s \in taken |-> entries[s]]]]
       /\ UNCHANGED <<published, store, tasks, ends>>

\* copy_repo_tasks for one entry: an update goes over the file if it is still
\* there, anything else to the first free name at the end of the order.
FreeStem(q, s) ==
    LET free == {n \in 1..(MaxNumber + 1) :
                   <<NameOf[s], n>> \in Stem => q[<<NameOf[s], n>>] = NoBrief}
    IN <<NameOf[s], CHOOSE n \in free : \A k \in free : n <= k>>
CopyOne(i, acc, s) ==
    LET e == importer[i].entries[s]
        stem == <<NameOf[s], 1>>
        replaced == e.replaces /\ stem \notin acc.written /\ acc.queue[stem] # NoBrief
        dest == IF replaced THEN stem ELSE FreeStem(acc.queue, s)
    IN IF e.duplicate \/ e.started THEN acc
       ELSE [queue |-> [acc.queue EXCEPT ![dest] =
                          [src |-> s, text |-> e.text, stamped |-> i = "auto"]],
             order |-> IF replaced THEN acc.order ELSE Append(acc.order, dest),
             written |-> acc.written \cup {dest},
             over |-> IF replaced
                      THEN acc.over \cup {<<acc.queue[dest].src, acc.queue[dest].text.v>>}
                      ELSE acc.over]

\* copy_repo_tasks, in published order.
Copied(i) ==
    LET done[k \in 0..Len(Published)] ==
          IF k = 0 THEN [queue |-> queue, order |-> order, written |-> {}, over |-> {}]
          ELSE IF Published[k] \in DOMAIN importer[i].entries
               THEN CopyOne(i, done[k - 1], Published[k])
               ELSE done[k - 1]
    IN done[Len(Published)]

\* Mutant of Drained: only what was copied is removed.
DrainedCopied(i) == {s \in DOMAIN importer[i].entries :
                       ~importer[i].entries[s].started /\ ~importer[i].entries[s].duplicate}

Drained(i) == {s \in DOMAIN importer[i].entries : ~importer[i].entries[s].started}
Refused(i) == {s \in DOMAIN importer[i].entries : importer[i].entries[s].started}

\* Mutant of Copy: the sources go first.
CopyAfterRemoval(i) ==
    /\ At(i, "copy")
    /\ inbox' = [s \in Source |-> IF s \in Drained(i) THEN NoText ELSE inbox[s]]
    /\ importer' = [importer EXCEPT ![i].pc = "remove"]
    /\ UNCHANGED <<version, withdrawn, store, tasks, ends>>

\* The copy and the commit of the content store.
Copy(i) ==
    /\ At(i, "copy") /\ Copied(i).written \subseteq Stem
    /\ queue' = Copied(i).queue
    /\ order' = Copied(i).order
    /\ withdrawn' = withdrawn \cup Copied(i).over
    /\ importer' = [importer EXCEPT ![i].pc = "remove"]
    /\ UNCHANGED <<inbox, version, tasks, ends>>

\* delete_produce with its rewrites, on main as the job finds it: paths go,
\* whatever they hold by now; a refused source gets `disabled: true'.
Removed(i) ==
    [s \in Source |->
        IF s \in Drained(i) THEN NoText
        ELSE IF s \in Refused(i) /\ inbox[s] # NoText
        THEN [inbox[s] EXCEPT !.disabled = TRUE]
        ELSE inbox[s]]

\* remove_repo_tasks_locked on the repo executor.  A failure is a warning.
RemoveSources(i) ==
    /\ At(i, "remove")
    /\ \/ inbox' = Removed(i) /\ UNCHANGED faults
       \/ faults < MaxFaults /\ faults' = faults + 1 /\ UNCHANGED inbox
    /\ importer' = [importer EXCEPT ![i] = Resting]
    /\ UNCHANGED <<version, withdrawn, store, tasks, crashes>>

-----------------------------------------------------------------------------
\* The queue's workers, and the manager's process.

\* A worker is handed the brief's text.
Lease(t) ==
    /\ Overlap \/ Quiet
    /\ queue[t] # NoBrief /\ ~queue[t].text.disabled /\ ~queue[t].text.quarantined
    /\ running[t] = Idle
    /\ started' = started \cup {t}
    /\ running' = [running EXCEPT ![t] = <<queue[t].src, queue[t].text.v>>]
    /\ UNCHANGED <<published, store, ran, importer, ends>>

\* It lands: the brief of that name is dropped.
Land(t) ==
    /\ running[t] # Idle
    /\ ran' = ran \cup {running[t]}
    /\ running' = [running EXCEPT ![t] = Idle]
    /\ queue' = [queue EXCEPT ![t] = NoBrief]
    /\ order' = SelectSeq(order, LAMBDA u : u # t)
    /\ UNCHANGED <<published, started, importer, ends>>

\* It fails: the brief stays.
Fails(t) ==
    /\ running[t] # Idle
    /\ running' = [running EXCEPT ![t] = Idle]
    /\ UNCHANGED <<published, store, started, ran, importer, ends>>

Crash ==
    /\ crashes < MaxCrashes /\ ~Quiet
    /\ crashes' = crashes + 1
    /\ importer' = [i \in Importer |-> Resting]
    /\ UNCHANGED <<published, store, tasks, faults>>

-----------------------------------------------------------------------------
Init ==
    /\ inbox = [s \in Source |-> NoText] /\ version = [s \in Source |-> 0]
    /\ withdrawn = {}
    /\ queue = [t \in Stem |-> NoBrief] /\ order = <<>>
    /\ started = {} /\ running = [t \in Stem |-> Idle]
    /\ ran = {}
    /\ importer = [i \in Importer |-> Resting]
    /\ faults = 0 /\ crashes = 0

AutoStep ==
    \/ ReadStarted("auto") \/ Scan("auto", Source) \/ Copy("auto") \/ RemoveSources("auto")
ManualStep ==
    \/ ReadStarted("manual") \/ \E picked \in SUBSET Source : Scan("manual", picked)
    \/ Copy("manual") \/ RemoveSources("manual")

Next ==
    \/ AutoStep \/ ManualStep \/ Crash
    \/ \E s \in Source : ClearHold(s) \/ \E q \in BOOLEAN :
           (q => s \in Quarantinable) /\ Publish(s, q)
    \/ \E t \in Stem : Lease(t) \/ Land(t) \/ Fails(t)

Spec == Init /\ [][Next]_vars

\* The reconciler ticks on, and an import that began goes on.  The reconciler asks
\* for no one's leave to start a pass: where the model makes it wait for an
\* operator's import to end (Overlap), it is not kept out for ever.
FairSpec ==
    /\ Spec
    /\ SF_vars(ReadStarted("auto")) /\ WF_vars(AutoStep)
    /\ WF_vars(\/ \E picked \in SUBSET Source : Scan("manual", picked)
               \/ Copy("manual") \/ RemoveSources("manual"))

-----------------------------------------------------------------------------
\* A brief is never lost: each version that was published is on main, or in the
\* queue, or was run, or its publisher replaced it (docstring of repo_tasks.py).
NeverLost ==
    \A s \in Source : \A v \in 1..version[s] :
        \/ inbox[s].v = v
        \/ \E t \in Queued : queue[t].src = s /\ queue[t].text.v = v
        \/ <<s, v>> \in ran
        \/ <<s, v>> \in withdrawn

\* A source whose removal failed, or was cut off by a restart, is not imported
\* beside the brief it already became, also not when another inbox has its name.
NoTwin ==
    \A t, u \in Queued :
        queue[t].src = queue[u].src /\ queue[t].text.v = queue[u].text.v => t = u

\* The reconciler never tells a publisher that a version was refused which the
\* queue holds as that pass's own import: it may be running at that moment.
RefusalFounded ==
    [][\A s \in Source :
         /\ s \in Refused("auto") /\ importer'["auto"].pc = "idle"
         /\ inbox'[s] # inbox[s]
         => \A t \in Stamped(s) : queue[t].text.v # inbox[s].v]_vars

\* What is published without a hold is taken: in the end it is off main, refused
\* there for the publisher to see, or in the queue already.
InboxDrains ==
    \A s \in Host : inbox[s] # NoText ~>
        \/ inbox[s] = NoText \/ inbox[s].disabled \/ inbox[s].quarantined
        \/ IsReplay(s, inbox[s])
=============================================================================
