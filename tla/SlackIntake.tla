---------------------------- MODULE SlackIntake ----------------------------
(***************************************************************************)
(* The inbound half of the Slack daemon (slack/slackd.py, slack/intake.py): *)
(* a message becomes a pending capture, a click on its card a brief in the *)
(* content store.  Bolt runs every event and every click on a thread of a  *)
(* pool, so two of them interleave at each read and write of the pending   *)
(* map, the queue directory, its config.json and the git index.            *)
(*                                                                         *)
(* A capture is one delivery of a message: the token of its card.  A slug  *)
(* is its title with the number _unique_slug appends (1 for none).         *)
(***************************************************************************)
EXTENDS Integers, Sequences, FiniteSets, SequencesExt

CONSTANTS
    Message, Thread, Queue, User,
    Playlist,        \* queues whose directory and config.json exist already
    Allowed,         \* allowed_users
    AuthorOf,        \* message -> user
    TitleOf,         \* message -> slug of the title build_task gives it
    QueueOf,         \* message -> queue directive, "main" for none
    NowTag,            \* messages with #now
    Unparsable,      \* messages build_task may raise on
    Config,          \* settings the daemon may be started with
    MaxDeliveries,   \* bound: deliveries of one message
    MaxClicks,       \* bound: clicks
    MaxFaults,       \* bound: writes and git commands that fail
    MaxCrashes       \* bound: restarts of the daemon

ASSUME IntakeConstants ==
    /\ Allowed \subseteq User /\ Playlist \subseteq Queue
    /\ NowTag \subseteq Message /\ Unparsable \subseteq Message
    /\ AuthorOf \in [Message -> User] /\ QueueOf \in [Message -> Queue]
    /\ Config \subseteq [require_confirmation: BOOLEAN, commit: BOOLEAN]
    /\ \A n \in {MaxDeliveries, MaxClicks, MaxFaults, MaxCrashes} : n \in Nat

VARIABLES
    config,      \* require_confirmation, and whether default_enqueue is "commit"
    delivered,   \* message -> deliveries so far
    pending,     \* _pending: the tokens the daemon knows
    cards,       \* tokens whose confirmation card was posted
    thread,      \* handler thread -> what it is doing
    playlist,    \* queues that exist
    brief,       \* queue -> slug -> the capture whose text the file holds
    order,       \* queue -> the order list of its config.json
    staged,      \* index entries that differ from HEAD
    head,        \* briefs in HEAD: <<queue, slug, capture>>
    told,        \* capture -> the answers in its thread
    enqueues,    \* capture -> Enqueue clicks of allowed users
    clicks, faults, crashes

inbox == <<config, delivered, pending, cards>>
store == <<playlist, brief, order, staged, head>>
talk == <<told, enqueues>>
ends == <<clicks, faults, crashes>>
vars == <<inbox, thread, store, talk, ends>>

Capture == Message \X (1..MaxDeliveries)
Action == {"enqueue", "edit", "cancel"}
Title(c) == TitleOf[c[1]]

NoFiles == [s \in {} |-> s]
Resting == [pc |-> "idle"]
Working(pc, c) == [pc |-> pc, cap |-> c, act |-> "enqueue", user |-> AuthorOf[c[1]],
                   slug |-> <<Title(c), 1>>, list |-> <<>>]

-----------------------------------------------------------------------------
Step(h, pc) == thread' = [thread EXCEPT ![h].pc = pc]
Rest(h) == thread' = [thread EXCEPT ![h] = Resting]
Tell(c, what) == told' = [told EXCEPT ![c] = @ \cup {what}]
At(h, pc) == thread[h].pc = pc
In(h) == QueueOf[thread[h].cap[1]]

\* Mutant of Fail: the exception is logged and nothing is said.
FailSilently(h) == Rest(h) /\ UNCHANGED told

\* Whatever _enqueue_and_ack catches is answered in the capture's thread.
Fail(h) == Rest(h) /\ Tell(thread[h].cap, "failed")
Fault == faults < MaxFaults /\ faults' = faults + 1

\* on_message, past the channel, bot, reply and edit filters: an author who is
\* not allowed is ignored; a parse error is answered; the capture waits for its
\* card to be clicked or is enqueued at once.  A card that cannot be posted
\* leaves its pending entry behind.  A delivery may repeat an earlier one.
OnMessage(h, m) ==
    LET c == <<m, delivered[m] + 1>>
    IN /\ At(h, "idle") /\ delivered[m] < MaxDeliveries
       /\ delivered' = [delivered EXCEPT ![m] = @ + 1]
       /\ \/ /\ AuthorOf[m] \notin Allowed
             /\ UNCHANGED <<pending, cards, thread, told, faults>>
          \/ /\ AuthorOf[m] \in Allowed /\ m \in Unparsable
             /\ Tell(c, "unparsed")
             /\ UNCHANGED <<pending, cards, thread, faults>>
          \/ /\ AuthorOf[m] \in Allowed /\ config.require_confirmation
             /\ pending' = pending \cup {c}
             /\ \/ cards' = cards \cup {c} /\ UNCHANGED faults
                \/ Fault /\ UNCHANGED cards
             /\ UNCHANGED <<thread, told>>
          \/ /\ AuthorOf[m] \in Allowed /\ ~config.require_confirmation
             /\ thread' = [thread EXCEPT ![h] = Working("enqueue", c)]
             /\ UNCHANGED <<pending, cards, told, faults>>
       /\ UNCHANGED <<config, store, enqueues, clicks, crashes>>

\* Mutant of OnAction: the allowlist is asked for messages only.
OnActionOpen(h, c, act, u) ==
    /\ At(h, "idle") /\ c \in cards /\ clicks < MaxClicks
    /\ clicks' = clicks + 1
    /\ thread' = IF c \in pending
                 THEN [thread EXCEPT ![h] = [Working("clicked", c) EXCEPT !.act = act]]
                 ELSE thread
    /\ enqueues' = IF act = "enqueue" /\ u \in Allowed
                   THEN [enqueues EXCEPT ![c] = @ + 1] ELSE enqueues
    /\ UNCHANGED <<inbox, store, told, faults, crashes>>

\* on_action up to its read of the pending map: a token of an earlier daemon is
\* unknown, a user who is not allowed gets an ephemeral note.
OnAction(h, c, act, u) ==
    /\ At(h, "idle") /\ c \in cards /\ clicks < MaxClicks
    /\ clicks' = clicks + 1
    /\ thread' = IF c \in pending /\ u \in Allowed
                 THEN [thread EXCEPT ![h] = [Working("clicked", c) EXCEPT !.act = act]]
                 ELSE thread
    /\ enqueues' = IF act = "enqueue" /\ u \in Allowed
                   THEN [enqueues EXCEPT ![c] = @ + 1] ELSE enqueues
    /\ UNCHANGED <<inbox, store, told, faults, crashes>>

\* The rest of it.  pop has a default: the other click of a pair may have taken
\* the entry since this one read it.
ActOn(h) ==
    LET c == thread[h].cap
    IN /\ At(h, "clicked")
       /\ \/ /\ thread[h].act = "cancel"
             /\ pending' = pending \ {c}
             /\ Tell(c, "cancelled") /\ Rest(h)
          \/ thread[h].act = "edit" /\ Rest(h) /\ UNCHANGED <<pending, told>>
          \/ /\ thread[h].act = "enqueue"
             /\ pending' = pending \ {c}
             /\ Step(h, "enqueue") /\ UNCHANGED told
       /\ UNCHANGED <<config, delivered, cards, store, enqueues, ends>>

-----------------------------------------------------------------------------
\* enqueue: the playlist, the slug, the file, the order; then _land.

\* playlists.exists
FindQueue(h) ==
    /\ At(h, "enqueue")
    /\ Step(h, IF In(h) \in playlist THEN "slug" ELSE "create")
    /\ UNCHANGED <<inbox, store, talk, ends>>

\* create_playlist raises when somebody else created it meanwhile ...
CreateQueue(h) ==
    /\ At(h, "create")
    /\ IF In(h) \in playlist THEN Fail(h) ELSE Step(h, "seed") /\ UNCHANGED told
    /\ UNCHANGED <<inbox, store, enqueues, ends>>

\* ... and writes an empty order over whatever is there by then.
SeedQueue(h) ==
    /\ At(h, "seed")
    /\ playlist' = playlist \cup {In(h)}
    /\ order' = [order EXCEPT ![In(h)] = <<>>]
    /\ Step(h, "slug")
    /\ UNCHANGED <<inbox, brief, staged, head, talk, ends>>

\* _unique_slug: the title itself, else the first free number from 2.
UniqueSlug(h) ==
    LET t == Title(thread[h].cap)
        free == {n \in 1..(Cardinality(DOMAIN brief[In(h)]) + 1) :
                    <<t, n>> \notin DOMAIN brief[In(h)]}
    IN /\ At(h, "slug")
       /\ thread' = [thread EXCEPT ![h].pc = "write",
                        ![h].slug = <<t, CHOOSE n \in free : \A k \in free : n <= k>>]
       /\ UNCHANGED <<inbox, store, talk, ends>>

\* The path was free when it was picked; the write does not look again.
WriteBrief(h) ==
    /\ At(h, "write")
    /\ \/ /\ brief' = [brief EXCEPT ![In(h)] =
                        [s \in DOMAIN @ \cup {thread[h].slug} |->
                           IF s = thread[h].slug THEN thread[h].cap ELSE @[s]]]
          /\ Step(h, "order")
          /\ UNCHANGED <<told, faults>>
       \/ Fault /\ Fail(h) /\ UNCHANGED brief
    /\ UNCHANGED <<inbox, playlist, order, staged, head, enqueues, clicks, crashes>>

ReadOrder(h) ==
    /\ At(h, "order")
    /\ thread' = [thread EXCEPT ![h].pc = "splice", ![h].list = order[In(h)]]
    /\ UNCHANGED <<inbox, store, talk, ends>>

\* _update_order writes back what it read, with the slug first or last.
UpdateOrder(h) ==
    LET slug == thread[h].slug
        rest == SelectSeq(thread[h].list, LAMBDA o : o # slug)
    IN /\ At(h, "splice")
       /\ order' = [order EXCEPT ![In(h)] =
                      IF thread[h].cap[1] \in NowTag THEN <<slug>> \o rest
                                                    ELSE Append(rest, slug)]
       /\ Step(h, IF config.commit THEN "add" ELSE "commit")
       /\ UNCHANGED <<inbox, playlist, brief, staged, head, talk, ends>>

\* git add stages what the file holds now, if HEAD has it otherwise.
GitAdd(h) ==
    LET entry == <<In(h), thread[h].slug, brief[In(h)][thread[h].slug]>>
    IN /\ At(h, "add")
       /\ \/ /\ staged' = (staged \cup {entry}) \ head
             /\ Step(h, "commit")
             /\ UNCHANGED <<told, faults>>
          \/ Fault /\ Fail(h) /\ UNCHANGED staged
       /\ UNCHANGED <<inbox, playlist, brief, order, head, enqueues, clicks, crashes>>

\* Mutants of GitCommit: an empty index is waited out; the acknowledgement comes
\* before the commit.
GitCommitWaits(h) ==
    /\ At(h, "commit") /\ staged # {}
    /\ head' = head \cup staged /\ staged' = {}
    /\ Rest(h) /\ Tell(thread[h].cap, "queued")
    /\ UNCHANGED <<inbox, playlist, brief, order, enqueues, ends>>
GitCommitUnchecked(h) ==
    /\ At(h, "commit")
    /\ Rest(h) /\ Tell(thread[h].cap, "queued")
    /\ \/ head' = head \cup staged /\ staged' = {} /\ UNCHANGED faults
       \/ Fault /\ UNCHANGED <<staged, head>>
    /\ UNCHANGED <<inbox, playlist, brief, order, enqueues, clicks, crashes>>

\* git commit takes the whole index, another capture's entries included, and
\* fails when somebody else's commit left nothing to commit.  Then the answer.
GitCommit(h) ==
    /\ At(h, "commit")
    /\ \/ /\ ~config.commit
          /\ Rest(h) /\ Tell(thread[h].cap, "queued")
          /\ UNCHANGED <<staged, head, faults>>
       \/ /\ config.commit /\ staged # {}
          /\ head' = head \cup staged /\ staged' = {}
          /\ Rest(h) /\ Tell(thread[h].cap, "queued")
          /\ UNCHANGED faults
       \/ /\ config.commit
          /\ \/ staged = {} /\ UNCHANGED faults
             \/ Fault
          /\ Fail(h)
          /\ UNCHANGED <<staged, head>>
    /\ UNCHANGED <<inbox, playlist, brief, order, enqueues, clicks, crashes>>

ThreadStep(h) ==
    \/ ActOn(h) \/ FindQueue(h) \/ CreateQueue(h) \/ SeedQueue(h) \/ UniqueSlug(h)
    \/ WriteBrief(h) \/ ReadOrder(h) \/ UpdateOrder(h) \/ GitAdd(h) \/ GitCommit(h)

-----------------------------------------------------------------------------
\* The daemon restarts: pending captures and running handlers are gone, the
\* cards and the content store stay.
Restart ==
    /\ crashes < MaxCrashes
    /\ crashes' = crashes + 1
    /\ pending' = {}
    /\ thread' = [h \in Thread |-> Resting]
    /\ UNCHANGED <<config, delivered, cards, store, talk, clicks, faults>>

Init ==
    /\ config \in Config
    /\ delivered = [m \in Message |-> 0] /\ pending = {} /\ cards = {}
    /\ thread = [h \in Thread |-> Resting]
    /\ playlist = Playlist
    /\ brief = [q \in Queue |-> NoFiles] /\ order = [q \in Queue |-> <<>>]
    /\ staged = {} /\ head = {}
    /\ told = [c \in Capture |-> {}] /\ enqueues = [c \in Capture |-> 0]
    /\ clicks = 0 /\ faults = 0 /\ crashes = 0

Next ==
    \/ Restart
    \/ \E h \in Thread :
        \/ ThreadStep(h)
        \/ \E m \in Message : OnMessage(h, m)
        \/ \E c \in cards, act \in Action, u \in User : OnAction(h, c, act, u)

Spec == Init /\ [][Next]_vars

\* A handler thread runs on: nothing it waits for is another handler.
FairSpec == Spec /\ \A h \in Thread : WF_vars(ThreadStep(h))

-----------------------------------------------------------------------------
Files(c) == {x \in UNION {{q} \X DOMAIN brief[q] : q \in Queue} : brief[x[1]][x[2]] = c}
Handles(h, c) == thread[h].pc # "idle" /\ thread[h].cap = c

\* A capture answered with a check mark has its brief on disk, and in HEAD when
\* captures are committed, however its handler interleaved with another capture's
\* git commands or with a second click on the same card.
AckTruthful ==
    \A c \in Capture : "queued" \in told[c] =>
        \E x \in Files(c) : config.commit => <<x[1], x[2], c>> \in head

\* Nothing is enqueued without an allowed user's click on Enqueue, and no click
\* makes more than one brief.
OneBriefPerClick ==
    config.require_confirmation => \A c \in Capture : Cardinality(Files(c)) <= enqueues[c]

\* A capture an allowed user confirmed is not dropped silently: it is still
\* pending, or being handled, or was answered, unless the daemon restarted.
ConfirmedIsAnswered ==
    \A c \in Capture :
        enqueues[c] > 0 /\ crashes = 0 =>
            c \in pending \/ told[c] # {} \/ \E h \in Thread : Handles(h, c)

\* Every handler finishes, also when another one's commit took what it staged.
HandlersFinish == \A h \in Thread : ~At(h, "idle") ~> At(h, "idle")
=============================================================================
