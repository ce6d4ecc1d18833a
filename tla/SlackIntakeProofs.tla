------------------------- MODULE SlackIntakeProofs -------------------------
(***************************************************************************)
(* The capture daemon for any messages, queues, users and handler threads. *)
(***************************************************************************)
EXTENDS SlackIntake, FiniteSetTheorems, NaturalsInduction, TLAPS

-----------------------------------------------------------------------------
(* The inductive invariants                                                *)

Filing == {"order", "splice", "add", "commit"}
Enqueuing == {"enqueue", "create", "seed", "slug", "write"} \cup Filing
Pcs == {"idle", "clicked"} \cup Enqueuing

\* What a handler thread remembers: its capture, what was clicked, the slug it
\* picked for it.
Row(t) ==
    /\ "pc" \in DOMAIN t /\ t.pc \in Pcs
    /\ t.pc # "idle" =>
        /\ t = [pc |-> t.pc, cap |-> t.cap, act |-> t.act, user |-> t.user,
                slug |-> t.slug, list |-> t.list]
        /\ t.cap \in Capture
        /\ t.slug = <<Title(t.cap), t.slug[2]>>
        /\ t.pc # "clicked" => t.act = "enqueue"

Shape ==
    /\ config \in Config /\ crashes \in Nat
    /\ delivered \in [Message -> Nat]
    /\ pending \subseteq Capture /\ cards \subseteq Capture
    /\ thread = [h \in Thread |-> thread[h]] /\ \A h \in Thread : Row(thread[h])
    /\ brief = [q \in Queue |-> brief[q]]
    /\ told = [c \in Capture |-> told[c]]
    /\ enqueues \in [Capture -> Nat]

\* A card's capture is pending, on its way to the store, or answered, as long as
\* the daemon has not restarted; Enqueue is clicked on a card only.
Heard ==
    crashes = 0 =>
        \A c \in cards : \/ c \in pending
                         \/ told[c] # {}
                         \/ \E h \in Thread : thread[h].pc \in Enqueuing /\ thread[h].cap = c
OnCards == \A c \in Capture : enqueues[c] > 0 => c \in cards

Answers == Shape /\ Heard /\ OnCards

-----------------------------------------------------------------------------
(* What a step does to a handler thread                                    *)

LEMMA Moved ==
    ASSUME Shape, NEW h \in Thread, NEW r, thread' = [thread EXCEPT ![h] = r]
    PROVE  /\ thread' = [g \in Thread |-> thread'[g]]
           /\ thread'[h] = r
           /\ \A g \in Thread \ {h} : thread'[g] = thread[g]
BY DEF Shape

LEMMA StepRow ==
    ASSUME NEW t, Row(t), t.pc # "idle", NEW pc \in Enqueuing, t.act = "enqueue"
    PROVE  LET u == [t EXCEPT !.pc = pc]
           IN  /\ Row(u) /\ u.pc = pc
               /\ u.cap = t.cap /\ u.act = t.act /\ u.slug = t.slug /\ u.list = t.list
<1> DEFINE u == [t EXCEPT !.pc = pc]
           a == t.cap  b == t.act  c == t.user  d == t.slug  e == t.list
<1>1. t = [pc |-> t.pc, cap |-> a, act |-> b, user |-> c, slug |-> d, list |-> e]
  BY DEF Row
<1>2. u = [pc |-> pc, cap |-> a, act |-> b, user |-> c, slug |-> d, list |-> e]
  <2> HIDE DEF a, b, c, d, e
  <2> QED
    BY <1>1
<1>3. /\ u.pc = pc /\ u.cap = a /\ u.act = b /\ u.user = c /\ u.slug = d /\ u.list = e
      /\ "pc" \in DOMAIN u
  <2> HIDE DEF a, b, c, d, e, u
  <2> QED
    BY <1>2
<1>4. u = [pc |-> u.pc, cap |-> u.cap, act |-> u.act, user |-> u.user,
           slug |-> u.slug, list |-> u.list]
  <2> HIDE DEF a, b, c, d, e, u
  <2> QED
    BY <1>2, <1>3
<1>5. a \in Capture /\ d = <<Title(a), d[2]>> /\ b = "enqueue"
  BY DEF Row
<1>6. pc \in Pcs
  BY DEF Pcs
<1>7. Row(u)
  <2> HIDE DEF a, b, c, d, e, u
  <2> QED
    BY <1>3, <1>4, <1>5, <1>6 DEF Row
<1> QED
  BY <1>3, <1>7

\* A handler takes its next step with its capture.
LEMMA Stepped ==
    ASSUME Shape, NEW h \in Thread, thread[h].pc # "idle", thread[h].act = "enqueue",
           NEW pc \in Enqueuing, Step(h, pc)
    PROVE  /\ thread' = [g \in Thread |-> thread'[g]]
           /\ \A g \in Thread \ {h} : thread'[g] = thread[g]
           /\ Row(thread'[h]) /\ thread'[h].pc = pc
           /\ thread'[h].cap = thread[h].cap /\ thread'[h].act = thread[h].act
           /\ thread'[h].slug = thread[h].slug
<1> DEFINE t == thread[h]
           u == [t EXCEPT !.pc = pc]
<1>1. thread' = [thread EXCEPT ![h] = u]
  BY DEF Step, Shape
<1>2. /\ thread' = [g \in Thread |-> thread'[g]]
      /\ \A g \in Thread \ {h} : thread'[g] = thread[g]
      /\ thread'[h] = u
  <2> HIDE DEF u
  <2> QED
    BY <1>1, Moved
<1>3. Row(t) /\ t.pc # "idle" /\ t.act = "enqueue"
  BY DEF Shape
<1>4. Row(u) /\ u.pc = pc /\ u.cap = t.cap /\ u.act = t.act /\ u.slug = t.slug
  <2> HIDE DEF t
  <2> QED
    BY <1>3, StepRow
<1> QED
  <2> HIDE DEF u
  <2> QED
    BY <1>2, <1>4

LEMMA RestingRow == Row(Resting)
BY DEF Row, Resting, Pcs, Enqueuing, Filing

LEMMA WorkingRow ==
    ASSUME NEW c \in Capture
    PROVE  /\ Row(Working("enqueue", c)) /\ Working("enqueue", c).pc = "enqueue"
           /\ Working("enqueue", c).cap = c
           /\ \A act : LET t == [Working("clicked", c) EXCEPT !.act = act]
                       IN  Row(t) /\ t.pc = "clicked" /\ t.cap = c /\ t.act = act
<1> DEFINE s == <<Title(c), 1>>
           w(pc, act) == [pc |-> pc, cap |-> c, act |-> act, user |-> AuthorOf[c[1]],
                          slug |-> s, list |-> <<>>]
<1>1. \A act : [Working("clicked", c) EXCEPT !.act = act] = w("clicked", act)
  BY DEF Working
<1>2. Working("enqueue", c) = w("enqueue", "enqueue")
  BY DEF Working
<1>3. s = <<Title(c), s[2]>>
  OBVIOUS
<1>4. ASSUME NEW pc \in {"clicked", "enqueue"}, NEW act, pc = "enqueue" => act = "enqueue"
      PROVE  Row(w(pc, act)) /\ w(pc, act).pc = pc /\ w(pc, act).cap = c /\ w(pc, act).act = act
  <2> HIDE DEF s
  <2>1. pc \in Pcs
    BY DEF Pcs, Enqueuing
  <2> QED
    BY <1>3, <1>4, <2>1 DEF Row
<1>5. \A act : Row(w("clicked", act)) /\ w("clicked", act).pc = "clicked"
               /\ w("clicked", act).cap = c /\ w("clicked", act).act = act
  BY <1>4
<1>6. Row(w("enqueue", "enqueue")) /\ w("enqueue", "enqueue").pc = "enqueue" /\ w("enqueue", "enqueue").cap = c
  BY <1>4
<1>7. Row(Working("enqueue", c)) /\ Working("enqueue", c).pc = "enqueue"
      /\ Working("enqueue", c).cap = c
  <2> HIDE DEF w
  <2> QED
    BY <1>2, <1>6
<1>8. ASSUME NEW act
      PROVE  LET t == [Working("clicked", c) EXCEPT !.act = act]
             IN  Row(t) /\ t.pc = "clicked" /\ t.cap = c /\ t.act = act
  <2>1. [Working("clicked", c) EXCEPT !.act = act] = w("clicked", act)
    BY <1>1
  <2> HIDE DEF w
  <2> QED
    BY <2>1, <1>5
<1> QED
  BY <1>7, <1>8

-----------------------------------------------------------------------------
(* Enqueueing: each step goes on with the capture or answers it            *)

Stays(h) ==
    /\ thread' = [g \in Thread |-> thread'[g]]
    /\ \A g \in Thread \ {h} : thread'[g] = thread[g]
    /\ UNCHANGED <<config, delivered, cards, crashes>>

Goes(h) ==
    /\ thread[h].pc \in Enqueuing
    /\ Stays(h) /\ UNCHANGED <<pending, enqueues>>
    /\ brief' = [q \in Queue |-> brief'[q]]
    /\ \/ /\ Row(thread'[h]) /\ thread'[h].pc \in Enqueuing
          /\ thread'[h].cap = thread[h].cap
          /\ UNCHANGED told
       \/ /\ thread'[h] = Resting
          /\ \E what : Tell(thread[h].cap, what)

LEMMA ShapeOfRow ==
    ASSUME Shape, NEW h \in Thread, thread[h].pc # "idle"
    PROVE  /\ thread[h].cap \in Capture
           /\ thread[h].cap[1] \in Message /\ In(h) \in Queue
           /\ thread[h].slug = <<Title(thread[h].cap), thread[h].slug[2]>>
           /\ thread[h].pc # "clicked" => thread[h].act = "enqueue"
<1>1. Row(thread[h])
  BY DEF Shape
<1> QED
  BY <1>1, IntakeConstants DEF Row, Capture, In

LEMMA StepGoes ==
    ASSUME Shape, NEW h \in Thread, thread[h].pc \in Enqueuing,
           NEW pc \in Enqueuing, Step(h, pc),
           UNCHANGED <<config, delivered, cards, crashes, pending, enqueues, told>>,
           brief' = [q \in Queue |-> brief'[q]]
    PROVE  Goes(h)
<1>1. thread[h].pc # "idle" /\ thread[h].act = "enqueue"
  BY ShapeOfRow DEF Enqueuing, Filing
<1> QED
  BY <1>1, Stepped DEF Goes, Stays

LEMMA RestGoes ==
    ASSUME Shape, NEW h \in Thread, thread[h].pc \in Enqueuing,
           Rest(h), NEW what, Tell(thread[h].cap, what),
           UNCHANGED <<config, delivered, cards, crashes, pending, enqueues>>,
           brief' = [q \in Queue |-> brief'[q]]
    PROVE  Goes(h)
BY Moved DEF Goes, Stays, Rest

LEMMA FailGoes ==
    ASSUME Shape, NEW h \in Thread, thread[h].pc \in Enqueuing, Fail(h),
           UNCHANGED <<config, delivered, cards, crashes, pending, enqueues>>,
           brief' = [q \in Queue |-> brief'[q]]
    PROVE  Goes(h)
BY RestGoes DEF Fail

LEMMA RecordRow ==
    ASSUME NEW pc \in Enqueuing, NEW a \in Capture, NEW c, NEW s, NEW l,
           s = <<Title(a), s[2]>>,
           NEW u, u = [pc |-> pc, cap |-> a, act |-> "enqueue", user |-> c,
                       slug |-> s, list |-> l]
    PROVE  Row(u) /\ u.pc = pc /\ u.cap = a /\ u.slug = s
<1>1. /\ u.pc = pc /\ u.cap = a /\ u.act = "enqueue" /\ u.user = c /\ u.slug = s
      /\ u.list = l /\ "pc" \in DOMAIN u
  OBVIOUS
<1>2. u = [pc |-> u.pc, cap |-> u.cap, act |-> u.act, user |-> u.user,
           slug |-> u.slug, list |-> u.list]
  BY <1>1
<1>3. pc \in Pcs
  BY DEF Pcs
<1> QED
  BY <1>1, <1>2, <1>3 DEF Row

\* A slug is picked, or an order is read, along with a step.
LEMMA RowWith ==
    ASSUME NEW t, Row(t), t.pc \in Enqueuing, NEW pc \in Enqueuing,
           NEW s, NEW l, s = <<Title(t.cap), s[2]>>
    PROVE  [t EXCEPT !.pc = pc, !.slug = s, !.list = l] =
              [pc |-> pc, cap |-> t.cap, act |-> "enqueue", user |-> t.user,
               slug |-> s, list |-> l]
<1> DEFINE a == t.cap  b == t.act  c == t.user  d == t.slug  e == t.list  p == t.pc
<1>1. t = [pc |-> p, cap |-> a, act |-> b, user |-> c, slug |-> d, list |-> e]
  BY DEF Row, Enqueuing, Filing
<1>b. b = "enqueue"
  BY DEF Row, Enqueuing, Filing
<1> HIDE DEF a, b, c, d, e, p
<1>2. [t EXCEPT !.pc = pc, !.slug = s, !.list = l] =
        [pc |-> pc, cap |-> a, act |-> b, user |-> c, slug |-> s, list |-> l]
  <2> DEFINE u == [t EXCEPT !.pc = pc]
             v == [u EXCEPT !.slug = s]
  <2>1. [t EXCEPT !.pc = pc, !.slug = s, !.list = l] = [v EXCEPT !.list = l]
    OBVIOUS
  <2>2. u = [pc |-> pc, cap |-> a, act |-> b, user |-> c, slug |-> d, list |-> e]
    BY <1>1
  <2>3. v = [pc |-> pc, cap |-> a, act |-> b, user |-> c, slug |-> s, list |-> e]
    <3> HIDE DEF u
    <3> QED
      BY <2>2
  <2>4. [v EXCEPT !.list = l] =
          [pc |-> pc, cap |-> a, act |-> b, user |-> c, slug |-> s, list |-> l]
    <3> HIDE DEF v
    <3> QED
      BY <2>3
  <2> QED
    BY <2>1, <2>4
<1> QED
  BY <1>b, <1>2 DEF a, c

\* What UniqueSlug leaves in its handler.
LEMMA SlugPicked ==
    ASSUME Shape, NEW h \in Thread, UniqueSlug(h)
    PROVE  /\ Stays(h) /\ Row(thread'[h]) /\ thread'[h].pc = "write"
           /\ thread'[h].cap = thread[h].cap
           /\ LET free == {n \in 1..(Cardinality(DOMAIN brief[In(h)]) + 1) :
                              <<Title(thread[h].cap), n>> \notin DOMAIN brief[In(h)]}
              IN  thread'[h].slug = <<Title(thread[h].cap),
                                      CHOOSE n \in free : \A k \in free : n <= k>>
<1> DEFINE free == {n \in 1..(Cardinality(DOMAIN brief[In(h)]) + 1) :
                       <<Title(thread[h].cap), n>> \notin DOMAIN brief[In(h)]}
           n == CHOOSE x \in free : \A k \in free : x <= k
           t == thread[h]
           s == <<Title(t.cap), n>>
           r == [t EXCEPT !.pc = "write", !.slug = s]
<1>1. Row(t) /\ t.pc = "slug" /\ t.pc \in Enqueuing /\ "write" \in Enqueuing
  BY DEF UniqueSlug, At, Shape, Enqueuing, Filing
<1>2. thread' = [thread EXCEPT ![h] = r]
  <2> DEFINE m == thread[h]
  <2>1. thread' = [thread EXCEPT ![h].pc = "write", ![h].slug = s]
    BY DEF UniqueSlug
  <2> HIDE DEF s
  <2>2. [thread EXCEPT ![h].pc = "write", ![h].slug = s] = [thread EXCEPT ![h] = r]
    BY DEF Shape
  <2> QED
    BY <2>1, <2>2
<1>3. s = <<Title(t.cap), s[2]>>
  <2> HIDE DEF n
  <2> QED
    OBVIOUS
<1>4. r = [pc |-> "write", cap |-> t.cap, act |-> "enqueue", user |-> t.user,
           slug |-> s, list |-> t.list]
  <2> DEFINE l == t.list
  <2>1. t = [pc |-> t.pc, cap |-> t.cap, act |-> t.act, user |-> t.user,
             slug |-> t.slug, list |-> t.list]
    BY <1>1 DEF Row, Enqueuing, Filing
  <2>2. r = [t EXCEPT !.pc = "write", !.slug = s, !.list = l]
    <3> HIDE DEF t, s
    <3> QED
      BY <2>1
  <2> HIDE DEF t, s, r, l
  <2>3. [t EXCEPT !.pc = "write", !.slug = s, !.list = l] =
              [pc |-> "write", cap |-> t.cap, act |-> "enqueue", user |-> t.user,
               slug |-> s, list |-> l]
    BY <1>1, <1>3, RowWith
  <2> QED
    BY <2>2, <2>3 DEF l
<1>5. Row(r) /\ r.pc = "write" /\ r.cap = t.cap /\ r.slug = s
  <2> DEFINE a == t.cap  l == t.list  c == t.user
  <2>1. a \in Capture /\ s = <<Title(a), s[2]>>
    <3> HIDE DEF s
    <3> QED
      BY <1>1, <1>3 DEF Row, Enqueuing, Filing
  <2>2. r = [pc |-> "write", cap |-> a, act |-> "enqueue", user |-> c, slug |-> s, list |-> l]
    BY <1>4
  <2> HIDE DEF t, s, r, a, l, c
  <2>3. Row(r) /\ r.pc = "write" /\ r.cap = a /\ r.slug = s
    BY <1>1, <2>1, <2>2, RecordRow
  <2> QED
    BY <2>3 DEF a
<1>6. /\ thread' = [g \in Thread |-> thread'[g]]
      /\ thread'[h] = r
      /\ \A g \in Thread \ {h} : thread'[g] = thread[g]
  <2> HIDE DEF r
  <2> QED
    BY <1>2, Moved
<1>7. UNCHANGED <<config, delivered, cards, crashes>>
  BY DEF UniqueSlug, inbox, ends
<1> HIDE DEF r
<1> QED
  BY <1>5, <1>6, <1>7 DEF Stays

EnqueueStep(h) ==
    \/ FindQueue(h) \/ CreateQueue(h) \/ SeedQueue(h) \/ UniqueSlug(h)
    \/ WriteBrief(h) \/ ReadOrder(h) \/ UpdateOrder(h) \/ GitAdd(h) \/ GitCommit(h)

LEMMA ReadOrderGoes ==
    ASSUME Shape, NEW h \in Thread, ReadOrder(h)
    PROVE  /\ Goes(h) /\ thread'[h].pc = "splice" /\ thread'[h].slug = thread[h].slug
           /\ thread'[h].cap = thread[h].cap
<1> DEFINE t == thread[h]
           l == order[In(h)]
           r == [t EXCEPT !.pc = "splice", !.list = l]
           a == t.cap  c == t.user  s == t.slug
<1>1. Row(t) /\ t.pc = "order" /\ t.pc \in Enqueuing /\ "splice" \in Enqueuing
  BY DEF ReadOrder, At, Shape, Enqueuing, Filing
<1>2. thread' = [thread EXCEPT ![h] = r]
  <2>1. thread' = [thread EXCEPT ![h].pc = "splice", ![h].list = l]
    BY DEF ReadOrder
  <2> HIDE DEF l
  <2>2. [thread EXCEPT ![h].pc = "splice", ![h].list = l] = [thread EXCEPT ![h] = r]
    BY DEF Shape
  <2> QED
    BY <2>1, <2>2
<1>3. a \in Capture /\ s = <<Title(a), s[2]>>
  BY <1>1 DEF Row
<1>4. r = [pc |-> "splice", cap |-> a, act |-> "enqueue", user |-> c, slug |-> s, list |-> l]
  <2>1. t = [pc |-> t.pc, cap |-> t.cap, act |-> t.act, user |-> t.user,
             slug |-> t.slug, list |-> t.list]
    BY <1>1 DEF Row
  <2>2. r = [t EXCEPT !.pc = "splice", !.slug = s, !.list = l]
    <3> DEFINE d == [t EXCEPT !.pc = "splice"]
    <3> HIDE DEF t, l
    <3>1. d.slug = s
      BY <2>1
    <3>2. [d EXCEPT !.slug = s] = d
      <4>1. d = [pc |-> "splice", cap |-> t.cap, act |-> t.act, user |-> t.user,
                 slug |-> t.slug, list |-> t.list]
        BY <2>1
      <4> HIDE DEF d
      <4> QED
        BY <3>1, <4>1
    <3>3. r = [d EXCEPT !.list = l]
      OBVIOUS
    <3>4. [t EXCEPT !.pc = "splice", !.slug = s, !.list = l] = [[d EXCEPT !.slug = s] EXCEPT !.list = l]
      OBVIOUS
    <3> HIDE DEF d, r
    <3> QED
      BY <3>2, <3>3, <3>4
  <2>3. s = <<Title(t.cap), s[2]>>
    BY <1>3
  <2> HIDE DEF t, s, r, l
  <2>4. [t EXCEPT !.pc = "splice", !.slug = s, !.list = l] =
              [pc |-> "splice", cap |-> t.cap, act |-> "enqueue", user |-> t.user,
               slug |-> s, list |-> l]
    BY <1>1, <2>3, RowWith
  <2> QED
    BY <2>2, <2>4 DEF a, c
<1>5. Row(r) /\ r.pc = "splice" /\ r.cap = a /\ r.slug = s
  <2> HIDE DEF t, s, r, a, l, c
  <2> QED
    BY <1>1, <1>3, <1>4, RecordRow
<1>6. /\ thread' = [g \in Thread |-> thread'[g]]
      /\ thread'[h] = r
      /\ \A g \in Thread \ {h} : thread'[g] = thread[g]
  <2> HIDE DEF r
  <2> QED
    BY <1>2, Moved
<1>7. /\ UNCHANGED <<config, delivered, cards, crashes, pending, enqueues, told, brief>>
      /\ brief = [q \in Queue |-> brief[q]]
  BY DEF ReadOrder, inbox, ends, store, talk, Shape
<1>8. thread[h].pc \in Enqueuing
  BY <1>1
<1> HIDE DEF r
<1> QED
  BY <1>1, <1>5, <1>6, <1>7, <1>8 DEF Stays, Goes

LEMMA EnqueueGoes ==
    ASSUME Shape, NEW h \in Thread, EnqueueStep(h)
    PROVE  Goes(h)
<1> USE DEF Enqueuing, Filing, At
<1>0. brief = [q \in Queue |-> brief[q]]
  BY DEF Shape
<1>1. CASE FindQueue(h)
  <2> DEFINE pc == IF In(h) \in playlist THEN "slug" ELSE "create"
  <2>1. pc \in Enqueuing /\ Step(h, pc) /\ thread[h].pc \in Enqueuing
        /\ UNCHANGED <<config, delivered, cards, crashes, pending, enqueues, told, brief>>
    BY <1>1 DEF FindQueue, inbox, store, talk, ends
  <2> HIDE DEF pc, Enqueuing, Filing
  <2> QED
    BY <1>0, <2>1, StepGoes
<1>2. CASE CreateQueue(h)
  <2>1. thread[h].pc \in Enqueuing /\ "seed" \in Enqueuing
        /\ UNCHANGED <<config, delivered, cards, crashes, pending, enqueues, brief>>
    BY <1>2 DEF CreateQueue, inbox, store, talk, ends
  <2>2. Fail(h) \/ (Step(h, "seed") /\ UNCHANGED told)
    BY <1>2 DEF CreateQueue
  <2> HIDE DEF Enqueuing, Filing
  <2> QED
    BY <1>0, <2>1, <2>2, StepGoes, FailGoes
<1>3. CASE SeedQueue(h)
  <2>1. thread[h].pc \in Enqueuing /\ "slug" \in Enqueuing /\ Step(h, "slug")
        /\ UNCHANGED <<config, delivered, cards, crashes, pending, enqueues, told, brief>>
    BY <1>3 DEF SeedQueue, inbox, talk, ends
  <2> HIDE DEF Enqueuing, Filing
  <2> QED
    BY <1>0, <2>1, StepGoes
<1>4. CASE UniqueSlug(h)
  <2>1. thread[h].pc \in Enqueuing /\ "write" \in Enqueuing
        /\ UNCHANGED <<pending, enqueues, told, brief>>
    BY <1>4 DEF UniqueSlug, inbox, store, talk, ends
  <2>2. Stays(h) /\ Row(thread'[h]) /\ thread'[h].pc = "write"
        /\ thread'[h].cap = thread[h].cap
    BY <1>4, SlugPicked
  <2> HIDE DEF Enqueuing, Filing
  <2> QED
    BY <1>0, <2>1, <2>2 DEF Goes
<1>5. CASE WriteBrief(h)
  <2>1. thread[h].pc \in Enqueuing /\ "order" \in Enqueuing
        /\ UNCHANGED <<config, delivered, cards, crashes, pending, enqueues>>
    BY <1>5 DEF WriteBrief, inbox
  <2>2. brief' = [q \in Queue |-> brief'[q]]
    BY <1>0, <1>5 DEF WriteBrief
  <2>3. Fail(h) \/ (Step(h, "order") /\ UNCHANGED told)
    BY <1>5 DEF WriteBrief
  <2> HIDE DEF Enqueuing, Filing
  <2> QED
    BY <2>1, <2>2, <2>3, StepGoes, FailGoes
<1>6. CASE ReadOrder(h)
  BY <1>6, ReadOrderGoes
<1>7. CASE UpdateOrder(h)
  <2> DEFINE pc == IF config.commit THEN "add" ELSE "commit"
  <2>1. pc \in Enqueuing /\ Step(h, pc) /\ thread[h].pc \in Enqueuing
        /\ UNCHANGED <<config, delivered, cards, crashes, pending, enqueues, told, brief>>
    BY <1>7 DEF UpdateOrder, inbox, talk, ends
  <2> HIDE DEF pc, Enqueuing, Filing
  <2> QED
    BY <1>0, <2>1, StepGoes
<1>8. CASE GitAdd(h)
  <2>1. thread[h].pc \in Enqueuing /\ "commit" \in Enqueuing
        /\ UNCHANGED <<config, delivered, cards, crashes, pending, enqueues, brief>>
    BY <1>8 DEF GitAdd, inbox
  <2>2. Fail(h) \/ (Step(h, "commit") /\ UNCHANGED told)
    BY <1>8 DEF GitAdd
  <2> HIDE DEF Enqueuing, Filing
  <2> QED
    BY <1>0, <2>1, <2>2, StepGoes, FailGoes
<1>9. CASE GitCommit(h)
  <2>1. thread[h].pc \in Enqueuing
        /\ UNCHANGED <<config, delivered, cards, crashes, pending, enqueues, brief>>
    BY <1>9 DEF GitCommit, inbox
  <2>2. Fail(h) \/ (Rest(h) /\ Tell(thread[h].cap, "queued"))
    BY <1>9 DEF GitCommit
  <2> HIDE DEF Enqueuing, Filing
  <2> QED
    BY <1>0, <2>1, <2>2, RestGoes, FailGoes
<1> HIDE DEF Enqueuing, Filing, At
<1> QED
  BY <1>1, <1>2, <1>3, <1>4, <1>5, <1>6, <1>7, <1>8, <1>9 DEF EnqueueStep

\* What it means for the answers.
LEMMA ToldGrows ==
    ASSUME Shape, NEW c \in Capture, NEW what, Tell(c, what)
    PROVE  /\ told' = [d \in Capture |-> told'[d]]
           /\ told'[c] # {}
           /\ \A d \in Capture : told[d] \subseteq told'[d]
<1>1. told' = [d \in Capture |-> IF d = c THEN told[d] \cup {what} ELSE told[d]]
  BY DEF Tell, Shape
<1> QED
  BY <1>1

LEMMA GoesAnswers ==
    ASSUME Answers, NEW h \in Thread, Goes(h)
    PROVE  Answers'
<1>1. /\ thread[h].pc \in Enqueuing /\ thread[h].cap \in Capture
  BY ShapeOfRow DEF Goes, Answers, Enqueuing, Filing
<1>2. \A c \in Capture : told[c] \subseteq told'[c]
  BY <1>1, ToldGrows DEF Goes, Answers
<1>3. told' = [c \in Capture |-> told'[c]]
  BY <1>1, ToldGrows DEF Goes, Answers, Shape
<1>4. Row(thread'[h])
  BY RestingRow DEF Goes
<1>5. Shape'
  BY <1>3, <1>4 DEF Goes, Stays, Answers, Shape
<1>6. \/ thread'[h].pc \in Enqueuing /\ thread'[h].cap = thread[h].cap
      \/ told'[thread[h].cap] # {}
  BY <1>1, ToldGrows DEF Goes, Answers
<1>7. Heard'
  <2> SUFFICES ASSUME crashes = 0, NEW c \in cards
               PROVE  \/ c \in pending' \/ told'[c] # {}
                      \/ \E g \in Thread : thread'[g].pc \in Enqueuing /\ thread'[g].cap = c
    BY DEF Heard, Goes, Stays
  <2>1. c \in Capture
    BY DEF Answers, Shape
  <2>2. CASE c \in pending \/ told[c] # {}
    BY <1>2, <2>1, <2>2 DEF Goes
  <2>3. CASE \E g \in Thread : thread[g].pc \in Enqueuing /\ thread[g].cap = c
    <3>1. PICK g \in Thread : thread[g].pc \in Enqueuing /\ thread[g].cap = c
      BY <2>3
    <3>2. CASE g = h
      BY <1>6, <3>1, <3>2
    <3>3. CASE g # h
      <4>1. thread'[g] = thread[g]
        BY <3>3 DEF Goes, Stays
      <4> QED
        BY <3>1, <4>1
    <3> QED
      BY <3>2, <3>3
  <2> QED
    BY <2>2, <2>3 DEF Answers, Heard
<1>8. OnCards'
  BY DEF OnCards, Answers, Goes, Stays
<1> QED
  BY <1>5, <1>7, <1>8 DEF Answers

-----------------------------------------------------------------------------
(* Every confirmed capture is answered                                     *)

LEMMA ShapeInit == Init => Shape
<1> SUFFICES ASSUME Init PROVE Shape
  OBVIOUS
<1>1. \A h \in Thread : Row(thread[h])
  BY RestingRow DEF Init
<1>2. thread = [h \in Thread |-> thread[h]]
  BY DEF Init
<1> QED
  BY <1>1, <1>2 DEF Init, Shape

LEMMA NewCapture ==
    ASSUME Shape, NEW m \in Message, delivered[m] < MaxDeliveries
    PROVE  <<m, delivered[m] + 1>> \in Capture
<1>1. delivered[m] \in Nat /\ MaxDeliveries \in Nat
  BY IntakeConstants DEF Shape
<1>2. delivered[m] + 1 \in 1..MaxDeliveries
  BY <1>1
<1> QED
  BY <1>2 DEF Capture

\* A message leaves a pending capture, a handler at work, or neither.
LEMMA MessageEffect ==
    ASSUME Shape, NEW h \in Thread, NEW m \in Message, OnMessage(h, m)
    PROVE  LET c == <<m, delivered[m] + 1>>
           IN  /\ c \in Capture
               /\ thread[h].pc = "idle"
               /\ \/ thread' = thread
                  \/ /\ thread' = [thread EXCEPT ![h] = Working("enqueue", c)]
                     /\ ~config.require_confirmation
               /\ \/ pending' = pending /\ cards' = cards
                  \/ pending' = pending \cup {c} /\ cards' \subseteq cards \cup {c}
               /\ cards \subseteq cards'
               /\ told' = told \/ Tell(c, "unparsed")
               /\ delivered' \in [Message -> Nat]
               /\ UNCHANGED <<config, store, enqueues, crashes>>
<1>1. <<m, delivered[m] + 1>> \in Capture
  BY NewCapture DEF OnMessage
<1>2. delivered[m] + 1 \in Nat
  BY DEF Shape
<1>3. delivered' \in [Message -> Nat]
  BY <1>2 DEF OnMessage, Shape
<1> QED
  BY <1>1, <1>3 DEF OnMessage, At

LEMMA MessageAnswers ==
    ASSUME Answers, NEW h \in Thread, NEW m \in Message, OnMessage(h, m)
    PROVE  Answers'
<1> DEFINE c == <<m, delivered[m] + 1>>
<1>0. Shape
  BY DEF Answers
<1>1. /\ c \in Capture
      /\ thread[h].pc = "idle"
      /\ thread' = thread \/ thread' = [thread EXCEPT ![h] = Working("enqueue", c)]
      /\ \/ pending' = pending /\ cards' = cards
         \/ pending' = pending \cup {c} /\ cards' \subseteq cards \cup {c}
      /\ cards \subseteq cards'
      /\ told' = told \/ Tell(c, "unparsed")
      /\ delivered' \in [Message -> Nat]
      /\ UNCHANGED <<config, store, enqueues, crashes>>
  BY <1>0, MessageEffect
<1> HIDE DEF c
<1>2. /\ told' = [d \in Capture |-> told'[d]]
      /\ \A d \in Capture : told[d] \subseteq told'[d]
  BY <1>0, <1>1, ToldGrows DEF Shape
<1>3. /\ thread' = [g \in Thread |-> thread'[g]]
      /\ \A g \in Thread : Row(thread'[g])
      /\ \A g \in Thread : thread[g].pc # "idle" => thread'[g] = thread[g]
  <2>1. CASE thread' = thread
    BY <1>0, <2>1 DEF Shape
  <2>2. CASE thread' = [thread EXCEPT ![h] = Working("enqueue", c)]
    <3> DEFINE r == Working("enqueue", c)
    <3>1. Row(r)
      BY <1>1, WorkingRow
    <3> HIDE DEF r
    <3>2. /\ thread' = [g \in Thread |-> thread'[g]]
          /\ thread'[h] = r
          /\ \A g \in Thread \ {h} : thread'[g] = thread[g]
      BY <1>0, <2>2, Moved DEF r
    <3> QED
      BY <1>0, <1>1, <3>1, <3>2 DEF Shape
  <2> QED
    BY <1>1, <2>1, <2>2
<1>4. Shape'
  BY <1>0, <1>1, <1>2, <1>3 DEF Shape, store
<1>5. Heard'
  <2> SUFFICES ASSUME crashes = 0, NEW d \in cards'
               PROVE  \/ d \in pending' \/ told'[d] # {}
                      \/ \E g \in Thread : thread'[g].pc \in Enqueuing /\ thread'[g].cap = d
    BY <1>1 DEF Heard
  <2>1. CASE d \notin cards
    BY <1>1, <2>1
  <2>2. CASE d \in cards
    <3>1. d \in Capture
      BY <1>0, <2>2 DEF Shape
    <3>2. CASE d \in pending \/ told[d] # {}
      BY <1>1, <1>2, <3>1, <3>2
    <3>3. CASE \E g \in Thread : thread[g].pc \in Enqueuing /\ thread[g].cap = d
      <4>1. PICK g \in Thread : thread[g].pc \in Enqueuing /\ thread[g].cap = d
        BY <3>3
      <4>2. thread'[g] = thread[g]
        BY <1>3, <4>1 DEF Enqueuing, Filing
      <4> QED
        BY <4>1, <4>2
    <3> QED
      BY <2>2, <3>2, <3>3 DEF Answers, Heard
  <2> QED
    BY <2>1, <2>2
<1>6. OnCards'
  BY <1>1 DEF OnCards, Answers
<1> QED
  BY <1>4, <1>5, <1>6 DEF Answers

\* A click leaves a handler that has the card's capture, or nothing.
LEMMA ClickEffect ==
    ASSUME Shape, NEW h \in Thread, NEW c \in cards, NEW act \in Action, NEW u \in User,
           OnAction(h, c, act, u)
    PROVE  /\ c \in Capture /\ thread[h].pc = "idle"
           /\ thread' = [g \in Thread |-> thread'[g]]
           /\ \A g \in Thread : Row(thread'[g])
           /\ \A g \in Thread \ {h} : thread'[g] = thread[g]
           /\ \/ thread'[h] = thread[h]
              \/ /\ thread'[h].pc = "clicked" /\ thread'[h].cap = c /\ thread'[h].act = act
                 /\ u \in Allowed
           /\ enqueues' = IF act = "enqueue" /\ u \in Allowed
                          THEN [enqueues EXCEPT ![c] = @ + 1] ELSE enqueues
           /\ enqueues' \in [Capture -> Nat]
           /\ UNCHANGED <<config, delivered, pending, cards, store, told, crashes>>
<1>1. c \in Capture /\ thread[h].pc = "idle"
  BY DEF Shape, OnAction, At
<1>2. UNCHANGED <<config, delivered, pending, cards, store, told, crashes>>
      /\ enqueues' = IF act = "enqueue" /\ u \in Allowed
                     THEN [enqueues EXCEPT ![c] = @ + 1] ELSE enqueues
  BY DEF OnAction, inbox
<1>3. enqueues' \in [Capture -> Nat]
  <2>1. enqueues \in [Capture -> Nat] /\ enqueues[c] + 1 \in Nat
    BY <1>1 DEF Shape
  <2> QED
    BY <1>2, <2>1
<1> DEFINE r == [Working("clicked", c) EXCEPT !.act = act]
<1>4. Row(r) /\ r.pc = "clicked" /\ r.cap = c /\ r.act = act
  BY <1>1, WorkingRow
<1>5. \/ thread' = [thread EXCEPT ![h] = r] /\ u \in Allowed
      \/ thread' = thread
  BY DEF OnAction
<1> HIDE DEF r
<1>6. /\ thread' = [g \in Thread |-> thread'[g]]
      /\ \A g \in Thread \ {h} : thread'[g] = thread[g]
      /\ (thread'[h] = r /\ u \in Allowed) \/ thread'[h] = thread[h]
  BY <1>5, Moved DEF Shape
<1>7. \A g \in Thread : Row(thread'[g])
  BY <1>4, <1>6 DEF Shape
<1> QED
  BY <1>1, <1>2, <1>3, <1>4, <1>6, <1>7

LEMMA ClickAnswers ==
    ASSUME Answers, NEW h \in Thread, NEW c \in cards, NEW act \in Action, NEW u \in User,
           OnAction(h, c, act, u)
    PROVE  Answers'
<1>0. Shape
  BY DEF Answers
<1>1. /\ c \in Capture /\ thread[h].pc = "idle"
      /\ thread' = [g \in Thread |-> thread'[g]]
      /\ \A g \in Thread : Row(thread'[g])
      /\ \A g \in Thread \ {h} : thread'[g] = thread[g]
      /\ enqueues' = IF act = "enqueue" /\ u \in Allowed
                     THEN [enqueues EXCEPT ![c] = @ + 1] ELSE enqueues
      /\ enqueues' \in [Capture -> Nat]
      /\ UNCHANGED <<config, delivered, pending, cards, store, told, crashes>>
  BY <1>0, ClickEffect
<1>2. Shape'
  BY <1>0, <1>1 DEF Shape, store
<1>3. Heard'
  <2>1. \A g \in Thread : thread[g].pc \in Enqueuing => thread'[g] = thread[g]
    BY <1>1 DEF Enqueuing, Filing
  <2> QED
    BY <1>1, <2>1 DEF Heard, Answers
<1>4. OnCards'
  <2>1. \A d \in Capture : d # c => enqueues'[d] = enqueues[d]
    BY <1>0, <1>1 DEF Shape
  <2> QED
    BY <1>1, <2>1 DEF OnCards, Answers
<1> QED
  BY <1>2, <1>3, <1>4 DEF Answers

\* A click that is acted on cancels, edits or starts the enqueue.
LEMMA ActEffect ==
    ASSUME Shape, NEW h \in Thread, ActOn(h)
    PROVE  LET c == thread[h].cap
           IN  /\ thread[h].pc = "clicked" /\ c \in Capture
               /\ Stays(h) /\ UNCHANGED <<store, enqueues>>
               /\ \/ /\ pending' = pending \ {c} /\ Tell(c, "cancelled")
                     /\ thread'[h] = Resting
                  \/ pending' = pending /\ told' = told /\ thread'[h] = Resting
                  \/ /\ pending' = pending \ {c} /\ told' = told
                     /\ Row(thread'[h]) /\ thread'[h].pc = "enqueue" /\ thread'[h].cap = c
                     /\ thread'[h].act = "enqueue" /\ thread[h].act = "enqueue"
<1> DEFINE c == thread[h].cap
<1>1. thread[h].pc = "clicked" /\ c \in Capture
      /\ UNCHANGED <<config, delivered, cards, crashes, store, enqueues>>
  BY ShapeOfRow DEF ActOn, At, ends
<1>2. CASE thread[h].act = "cancel" /\ pending' = pending \ {c}
           /\ Tell(c, "cancelled") /\ Rest(h)
  BY <1>1, <1>2, Moved DEF Rest, Stays
<1>3. CASE thread[h].act = "edit" /\ Rest(h) /\ UNCHANGED <<pending, told>>
  BY <1>1, <1>3, Moved DEF Rest, Stays
<1>4. CASE thread[h].act = "enqueue" /\ pending' = pending \ {c}
           /\ Step(h, "enqueue") /\ UNCHANGED told
  <2>1. "enqueue" \in Enqueuing
    BY DEF Enqueuing
  <2> QED
    BY <1>1, <1>4, <2>1, Stepped DEF Stays
<1> QED
  BY <1>2, <1>3, <1>4 DEF ActOn

LEMMA ActAnswers ==
    ASSUME Answers, NEW h \in Thread, ActOn(h)
    PROVE  Answers'
<1> DEFINE c == thread[h].cap
<1>0. Shape
  BY DEF Answers
<1>1. /\ thread[h].pc = "clicked" /\ c \in Capture
      /\ Stays(h) /\ UNCHANGED <<store, enqueues>>
      /\ \/ pending' = pending \ {c} /\ Tell(c, "cancelled") /\ thread'[h] = Resting
         \/ pending' = pending /\ told' = told /\ thread'[h] = Resting
         \/ /\ pending' = pending \ {c} /\ told' = told
            /\ Row(thread'[h]) /\ thread'[h].pc = "enqueue" /\ thread'[h].cap = c
  BY <1>0, ActEffect
<1>2. /\ told' = [d \in Capture |-> told'[d]]
      /\ \A d \in Capture : told[d] \subseteq told'[d]
      /\ Tell(c, "cancelled") => told'[c] # {}
  <2> HIDE DEF c
  <2> QED
    BY <1>0, <1>1, ToldGrows DEF Shape
<1>3. Row(thread'[h])
  BY <1>1, RestingRow
<1>4. Shape'
  BY <1>0, <1>1, <1>2, <1>3 DEF Shape, Stays, store
<1>5. Heard'
  <2> SUFFICES ASSUME crashes = 0, NEW d \in cards
               PROVE  \/ d \in pending' \/ told'[d] # {}
                      \/ \E g \in Thread : thread'[g].pc \in Enqueuing /\ thread'[g].cap = d
    BY <1>1 DEF Heard, Stays
  <2>1. d \in Capture
    BY <1>0 DEF Shape
  <2>2. \A g \in Thread : thread[g].pc \in Enqueuing => thread'[g] = thread[g]
    BY <1>1 DEF Stays, Enqueuing, Filing
  <2>3. "enqueue" \in Enqueuing
    BY DEF Enqueuing
  <2>4. CASE d \in pending /\ d \notin pending'
    BY <1>1, <1>2, <2>3, <2>4
  <2>5. CASE \E g \in Thread : thread[g].pc \in Enqueuing /\ thread[g].cap = d
    BY <2>2, <2>5
  <2>6. CASE told[d] # {}
    BY <1>2, <2>1, <2>6
  <2> QED
    BY <2>4, <2>5, <2>6 DEF Answers, Heard
<1>6. OnCards'
  BY <1>1 DEF OnCards, Answers, Stays
<1> QED
  BY <1>4, <1>5, <1>6 DEF Answers

LEMMA RestartAnswers == Answers /\ Restart => Answers'
<1> SUFFICES ASSUME Answers, Restart PROVE Answers'
  OBVIOUS
<1>1. crashes \in Nat /\ crashes' = crashes + 1
      /\ UNCHANGED <<config, delivered, cards, store, told, enqueues>>
      /\ pending' = {} /\ thread' = [h \in Thread |-> Resting]
  BY DEF Restart, talk, Answers, Shape
<1>2. crashes' # 0 /\ crashes' \in Nat
  BY <1>1
<1>3. \A h \in Thread : Row(thread'[h])
  BY <1>1, RestingRow
<1>4. Shape'
  BY <1>1, <1>2, <1>3 DEF Answers, Shape, store
<1> QED
  BY <1>1, <1>2, <1>4 DEF Answers, Heard, OnCards

LEMMA StepAnswers == Answers /\ [Next]_vars => Answers'
<1> SUFFICES ASSUME Answers, [Next]_vars PROVE Answers'
  OBVIOUS
<1>1. CASE UNCHANGED vars
  BY <1>1 DEF vars, inbox, store, talk, ends, Answers, Shape, Heard, OnCards
<1>2. CASE Restart
  BY <1>2, RestartAnswers
<1>3. ASSUME NEW h \in Thread, ThreadStep(h) PROVE Answers'
  <2>1. CASE ActOn(h)
    BY <2>1, ActAnswers
  <2>2. CASE EnqueueStep(h)
    BY <2>2, EnqueueGoes, GoesAnswers DEF Answers
  <2> QED
    BY <1>3, <2>1, <2>2 DEF ThreadStep, EnqueueStep
<1>4. ASSUME NEW h \in Thread, NEW m \in Message, OnMessage(h, m) PROVE Answers'
  BY <1>4, MessageAnswers
<1>5. ASSUME NEW h \in Thread, NEW c \in cards, NEW act \in Action, NEW u \in User,
             OnAction(h, c, act, u)
      PROVE  Answers'
  BY <1>5, ClickAnswers
<1> QED
  BY <1>1, <1>2, <1>3, <1>4, <1>5 DEF Next

LEMMA InitAnswers == Init => Answers
<1> SUFFICES ASSUME Init PROVE Answers
  OBVIOUS
<1>1. Shape
  BY ShapeInit
<1>2. Heard /\ OnCards
  BY DEF Init, Heard, OnCards
<1> QED
  BY <1>1, <1>2 DEF Answers

LEMMA AnswersHold == Spec => []Answers
BY InitAnswers, StepAnswers, PTL DEF Spec

\* Whoever clicks Enqueue on a card is answered, as long as the daemon runs, however
\* the clicks on it (on_action) and the handlers of other captures interleave.
THEOREM ConfirmedIsAnsweredHolds == Spec => []ConfirmedIsAnswered
<1>1. Answers => ConfirmedIsAnswered
  BY DEF Answers, Heard, OnCards, ConfirmedIsAnswered, Handles, Enqueuing, Filing
<1> QED
  BY <1>1, AnswersHold, PTL

-----------------------------------------------------------------------------
(* One brief for a click                                                   *)

\* The handlers that will still write a brief of a capture.
Writing == {"clicked", "enqueue", "create", "seed", "slug", "write"}
Owing(c) == {h \in Thread : thread[h].pc \in Writing /\ thread[h].cap = c
                            /\ thread[h].act = "enqueue"}

\* The briefs a capture has and those it will have are clicked for.
Paid(c) ==
    /\ IsFiniteSet(Files(c)) /\ IsFiniteSet(Owing(c))
    /\ Cardinality(Files(c)) + Cardinality(Owing(c)) <= enqueues[c]
Counted == config.require_confirmation => \A c \in Capture : Paid(c)

\* Nothing owed and nothing written: the count stands.
LEMMA PaidStands ==
    ASSUME Shape, Shape', NEW c \in Capture, Paid(c),
           Files(c)' \subseteq Files(c), Owing(c)' \subseteq Owing(c),
           enqueues'[c] >= enqueues[c]
    PROVE  Paid(c)'
<1>1. /\ IsFiniteSet(Files(c)') /\ Cardinality(Files(c)') <= Cardinality(Files(c))
      /\ IsFiniteSet(Owing(c)') /\ Cardinality(Owing(c)') <= Cardinality(Owing(c))
  <2> DEFINE F == Files(c)  G == Files(c)'  O == Owing(c)  P == Owing(c)'
  <2>1. IsFiniteSet(F) /\ IsFiniteSet(O) /\ G \in SUBSET F /\ P \in SUBSET O
    BY DEF Paid
  <2> HIDE DEF F, G, O, P
  <2>2. IsFiniteSet(G) /\ Cardinality(G) <= Cardinality(F)
        /\ IsFiniteSet(P) /\ Cardinality(P) <= Cardinality(O)
    BY <2>1, FS_Subset
  <2> QED
    BY <2>2 DEF F, G, O, P
<1>2. /\ Cardinality(Files(c)) \in Nat /\ Cardinality(Files(c)') \in Nat
      /\ Cardinality(Owing(c)) \in Nat /\ Cardinality(Owing(c)') \in Nat
  BY <1>1, FS_CardinalityType DEF Paid
<1>3. enqueues[c] \in Nat /\ enqueues'[c] \in Nat
  BY DEF Shape
<1> QED
  BY <1>1, <1>2, <1>3 DEF Paid

\* One more click, at most one more handler.
LEMMA PaidClick ==
    ASSUME Shape, Shape', NEW c \in Capture, Paid(c), NEW h,
           Files(c)' = Files(c), Owing(c)' \subseteq Owing(c) \cup {h},
           enqueues'[c] = enqueues[c] + 1
    PROVE  Paid(c)'
<1> DEFINE F == Files(c)  O == Owing(c)  P == Owing(c)'  U == O \cup {h}
<1>1. IsFiniteSet(F) /\ IsFiniteSet(O) /\ P \in SUBSET U
      /\ Cardinality(F) + Cardinality(O) <= enqueues[c]
  BY DEF Paid
<1>2. enqueues[c] \in Nat
  BY DEF Shape
<1>3. IsFiniteSet(P) /\ Cardinality(P) <= Cardinality(O) + 1
  <2> HIDE DEF O, P
  <2>1. IsFiniteSet(U) /\ Cardinality(U) <= Cardinality(O) + 1
    BY <1>1, FS_AddElement, FS_CardinalityType
  <2> HIDE DEF U
  <2>2. IsFiniteSet(P) /\ Cardinality(P) <= Cardinality(U)
    BY <1>1, <2>1, FS_Subset
  <2> QED
    BY <1>1, <2>1, <2>2, FS_CardinalityType
<1>4. Cardinality(F) + Cardinality(P) <= enqueues'[c]
  <2> HIDE DEF F, O, P
  <2> QED
    BY <1>1, <1>2, <1>3, FS_CardinalityType
<1> QED
  BY <1>1, <1>3, <1>4 DEF Paid

\* One brief more, one handler less.
LEMMA PaidWrite ==
    ASSUME Shape, Shape', NEW c \in Capture, Paid(c), NEW h \in Owing(c), NEW x,
           Files(c)' \subseteq Files(c) \cup {x}, Owing(c)' \subseteq Owing(c) \ {h},
           enqueues'[c] = enqueues[c]
    PROVE  Paid(c)'
<1> DEFINE F == Files(c)  G == Files(c)'  V == F \cup {x}
           O == Owing(c)  P == Owing(c)'  U == O \ {h}
<1>1. /\ IsFiniteSet(F) /\ IsFiniteSet(O) /\ G \in SUBSET V /\ P \in SUBSET U /\ h \in O
      /\ Cardinality(F) + Cardinality(O) <= enqueues[c]
  BY DEF Paid
<1>2. enqueues[c] \in Nat
  BY DEF Shape
<1> HIDE DEF F, G, O, P
<1>3. /\ IsFiniteSet(V) /\ Cardinality(V) <= Cardinality(F) + 1
      /\ IsFiniteSet(U) /\ Cardinality(U) = Cardinality(O) - 1
  BY <1>1, FS_AddElement, FS_RemoveElement, FS_CardinalityType
<1> HIDE DEF U, V
<1>4. /\ IsFiniteSet(G) /\ Cardinality(G) <= Cardinality(V)
      /\ IsFiniteSet(P) /\ Cardinality(P) <= Cardinality(U)
  BY <1>1, <1>3, FS_Subset
<1>5. Cardinality(G) + Cardinality(P) <= enqueues[c]
  BY <1>1, <1>2, <1>3, <1>4, FS_CardinalityType
<1> QED
  BY <1>4, <1>5 DEF Paid, G, P

LEMMA SameFiles ==
    ASSUME UNCHANGED brief, NEW c
    PROVE  Files(c)' = Files(c)
BY DEF Files

\* A handler that moves on without a write.
LEMMA OwingStands ==
    ASSUME NEW h \in Thread, \A g \in Thread \ {h} : thread'[g] = thread[g],
           \/ thread'[h].pc \notin Writing
           \/ thread'[h].act # "enqueue"
           \/ thread[h].pc \in Writing /\ thread'[h].cap = thread[h].cap
              /\ thread'[h].act = thread[h].act,
           NEW c
    PROVE  Owing(c)' \subseteq Owing(c)
BY DEF Owing

LEMMA FilesWrite ==
    ASSUME Shape, NEW q \in Queue, NEW s, NEW d, NEW c,
           brief' = [brief EXCEPT ![q] = [t \in DOMAIN @ \cup {s} |-> IF t = s THEN d ELSE @[t]]]
    PROVE  /\ c # d => Files(c)' \subseteq Files(c)
           /\ Files(c)' \subseteq Files(c) \cup {<<q, s>>}
<1> DEFINE f == [t \in DOMAIN brief[q] \cup {s} |-> IF t = s THEN d ELSE brief[q][t]]
<1>1. brief' = [brief EXCEPT ![q] = f] /\ brief = [p \in Queue |-> brief[p]]
  BY DEF Shape
<1>2. DOMAIN f = DOMAIN brief[q] \cup {s} /\ f[s] = d
      /\ \A t \in DOMAIN brief[q] : t # s => f[t] = brief[q][t]
  OBVIOUS
<1> HIDE DEF f
<1>3. brief'[q] = f /\ \A p \in Queue : p # q => brief'[p] = brief[p]
  BY <1>1
<1>4. ASSUME NEW x \in Files(c)', x \notin Files(c)
      PROVE  x = <<q, s>> /\ c = d
  <2>1. PICK p \in Queue : x \in {p} \X DOMAIN brief'[p]
    BY <1>4 DEF Files
  <2>2. x[1] = p /\ x[2] \in DOMAIN brief'[p] /\ x = <<p, x[2]>> /\ brief'[p][x[2]] = c
    BY <1>4, <2>1 DEF Files
  <2>3. ~ (x[2] \in DOMAIN brief[p] /\ brief[p][x[2]] = c)
    <3> SUFFICES ASSUME x[2] \in DOMAIN brief[p], brief[p][x[2]] = c PROVE FALSE
      OBVIOUS
    <3>1. x \in {p} \X DOMAIN brief[p]
      BY <2>2
    <3>2. x \in Files(c)
      BY <2>2, <3>1 DEF Files
    <3> QED
      BY <1>4, <3>2
  <2>4. p = q
    BY <1>3, <2>2, <2>3
  <2>5. x[2] = s /\ c = d
    BY <1>2, <1>3, <2>2, <2>3, <2>4
  <2> QED
    BY <2>2, <2>4, <2>5
<1> QED
  BY <1>4

LEMMA StepPc ==
    ASSUME Shape, NEW h \in Thread, thread[h].pc \in Enqueuing, NEW pc \in Enqueuing,
           Step(h, pc)
    PROVE  thread'[h].pc = pc /\ thread'[h].cap = thread[h].cap
           /\ thread'[h].slug = thread[h].slug
<1>1. thread[h].pc # "idle" /\ thread[h].act = "enqueue"
  BY ShapeOfRow DEF Enqueuing, Filing
<1> QED
  BY <1>1, Stepped

LEMMA RestPc ==
    ASSUME Shape, NEW h \in Thread, Rest(h) \/ Fail(h)
    PROVE  thread'[h].pc = "idle"
BY Moved DEF Rest, Fail, Resting

\* Nothing but WriteBrief writes, and a handler past it is past it.
LEMMA EnqueueOrder ==
    ASSUME Shape, NEW h \in Thread, EnqueueStep(h), ~WriteBrief(h)
    PROVE  /\ brief' = brief
           /\ thread'[h].pc \in Writing => thread[h].pc \in Writing
<1>1. CASE FindQueue(h) \/ CreateQueue(h) \/ SeedQueue(h) \/ UniqueSlug(h)
  BY <1>1 DEF FindQueue, CreateQueue, SeedQueue, UniqueSlug, At, Writing, store
<1>2. CASE ReadOrder(h)
  BY <1>2, ReadOrderGoes DEF ReadOrder, Writing, store
<1>3. CASE UpdateOrder(h)
  <2> DEFINE pc == IF config.commit THEN "add" ELSE "commit"
  <2>1. pc \in Enqueuing /\ pc \notin Writing /\ Step(h, pc) /\ thread[h].pc \in Enqueuing
        /\ brief' = brief
    BY <1>3 DEF UpdateOrder, At, Enqueuing, Filing, Writing
  <2> HIDE DEF pc
  <2> QED
    BY <2>1, StepPc
<1>4. CASE GitAdd(h)
  <2>1. "commit" \in Enqueuing /\ "commit" \notin Writing /\ thread[h].pc \in Enqueuing
        /\ "idle" \notin Writing
        /\ brief' = brief /\ (Step(h, "commit") \/ Fail(h))
    BY <1>4 DEF GitAdd, At, Enqueuing, Filing, Writing
  <2> QED
    BY <2>1, StepPc, RestPc
<1>5. CASE GitCommit(h)
  <2>1. brief' = brief /\ (Rest(h) \/ Fail(h)) /\ "idle" \notin Writing
    BY <1>5 DEF GitCommit, Writing
  <2> QED
    BY <2>1, RestPc
<1> QED
  BY <1>1, <1>2, <1>3, <1>4, <1>5 DEF EnqueueStep

LEMMA EnqueueCounts ==
    ASSUME Shape, Shape', Counted, NEW h \in Thread, EnqueueStep(h)
    PROVE  Counted'
<1>1. Goes(h)
  BY EnqueueGoes
<1>2. config' = config /\ enqueues' = enqueues
      /\ \A g \in Thread \ {h} : thread'[g] = thread[g]
  BY <1>1 DEF Goes, Stays
<1>3. SUFFICES ASSUME config.require_confirmation, NEW c \in Capture PROVE Paid(c)'
  BY <1>2 DEF Counted
<1>4. Paid(c) /\ enqueues[c] \in Nat
  BY <1>3 DEF Counted, Shape
<1>5. \/ thread'[h].pc = "idle"
      \/ /\ thread'[h].cap = thread[h].cap
         /\ thread'[h].act = "enqueue" /\ thread[h].act = "enqueue"
  <2>1. thread[h].act = "enqueue"
    BY <1>1, ShapeOfRow DEF Goes, Enqueuing, Filing
  <2>2. thread'[h].pc \in Enqueuing /\ Row(thread'[h]) => thread'[h].act = "enqueue"
    BY DEF Row, Enqueuing, Filing
  <2> QED
    BY <1>1, <2>1, <2>2 DEF Goes, Resting
<1>6. CASE ~WriteBrief(h)
  <2>1. brief' = brief /\ (thread'[h].pc \in Writing => thread[h].pc \in Writing)
    BY <1>6, EnqueueOrder
  <2>2. Owing(c)' \subseteq Owing(c)
    BY <1>2, <1>5, <2>1, OwingStands DEF Writing
  <2>3. Files(c)' = Files(c)
    BY <2>1, SameFiles
  <2> QED
    BY <1>2, <1>4, <2>2, <2>3, PaidStands
<1>7. CASE WriteBrief(h)
  <2> DEFINE q == In(h)  s == thread[h].slug  d == thread[h].cap
  <2>1. thread[h].pc = "write" /\ thread[h].pc \in Enqueuing /\ thread[h].pc \in Writing
        /\ "order" \in Enqueuing
    BY <1>7 DEF WriteBrief, At, Enqueuing, Filing, Writing
  <2>2. d \in Capture /\ q \in Queue /\ thread[h].act = "enqueue"
    BY <2>1, ShapeOfRow
  <2>3. CASE brief' = brief /\ Fail(h)
    <3>1. thread'[h].pc \notin Writing
      BY <2>3, RestPc DEF Writing
    <3>2. Owing(c)' \subseteq Owing(c)
      BY <1>2, <3>1, OwingStands
    <3>3. Files(c)' = Files(c)
      BY <2>3, SameFiles
    <3> QED
      BY <1>2, <1>4, <3>2, <3>3, PaidStands
  <2>4. CASE /\ brief' = [brief EXCEPT ![q] =
                             [t \in DOMAIN @ \cup {s} |-> IF t = s THEN d ELSE @[t]]]
             /\ Step(h, "order")
    <3>1. thread'[h].pc = "order"
      BY <2>1, <2>4, StepPc
    <3>2. thread'[h].pc \notin Writing
      BY <3>1 DEF Writing
    <3>3. Owing(c)' \subseteq Owing(c) \ {h}
      BY <1>2, <3>2 DEF Owing
    <3>4. /\ c # d => Files(c)' \subseteq Files(c)
          /\ Files(c)' \subseteq Files(c) \cup {<<q, s>>}
      <4> HIDE DEF q, s, d
      <4> QED
        BY <2>2, <2>4, FilesWrite
    <3>5. CASE c # d
      BY <1>2, <1>4, <3>3, <3>4, <3>5, PaidStands
    <3>6. CASE c = d
      <4>1. h \in Owing(c)
        BY <2>1, <2>2, <3>6 DEF Owing
      <4> DEFINE x == <<q, s>>
      <4>2. Files(c)' \subseteq Files(c) \cup {x}
        BY <3>4
      <4> HIDE DEF x
      <4> QED
        BY <1>2, <1>4, <3>3, <4>1, <4>2, PaidWrite
    <3> QED
      BY <3>5, <3>6
  <2> QED
    BY <1>7, <2>3, <2>4 DEF WriteBrief
<1> QED
  BY <1>6, <1>7

LEMMA MessageCounts ==
    ASSUME Shape, Shape', Counted, NEW h \in Thread, NEW m \in Message, OnMessage(h, m)
    PROVE  Counted'
<1> DEFINE w == Working("enqueue", <<m, delivered[m] + 1>>)
<1>1. /\ thread' = thread \/ (thread' = [thread EXCEPT ![h] = w] /\ ~config.require_confirmation)
      /\ UNCHANGED <<config, store, enqueues>>
  BY MessageEffect
<1>2. SUFFICES ASSUME config.require_confirmation, NEW c \in Capture PROVE Paid(c)'
  BY <1>1 DEF Counted
<1>3. thread' = thread /\ brief' = brief /\ enqueues' = enqueues
  BY <1>1, <1>2 DEF store
<1>4. Paid(c) /\ enqueues[c] \in Nat
  BY <1>2 DEF Counted, Shape
<1>5. Owing(c)' = Owing(c) /\ Files(c)' = Files(c)
  BY <1>3, SameFiles DEF Owing
<1> QED
  BY <1>3, <1>4, <1>5, PaidStands

LEMMA ClickCounts ==
    ASSUME Shape, Shape', Counted, NEW h \in Thread, NEW c \in cards, NEW act \in Action,
           NEW u \in User, OnAction(h, c, act, u)
    PROVE  Counted'
<1>1. /\ c \in Capture /\ thread[h].pc = "idle"
      /\ \A g \in Thread \ {h} : thread'[g] = thread[g]
      /\ \/ thread'[h] = thread[h]
         \/ /\ thread'[h].pc = "clicked" /\ thread'[h].cap = c /\ thread'[h].act = act
            /\ u \in Allowed
      /\ enqueues' = IF act = "enqueue" /\ u \in Allowed
                     THEN [enqueues EXCEPT ![c] = @ + 1] ELSE enqueues
      /\ UNCHANGED <<config, store>>
  BY ClickEffect
<1>2. SUFFICES ASSUME config.require_confirmation, NEW d \in Capture PROVE Paid(d)'
  BY <1>1 DEF Counted
<1>3. Paid(d) /\ enqueues[d] \in Nat /\ enqueues = [e \in Capture |-> enqueues[e]]
  BY <1>2 DEF Counted, Shape
<1>4. Files(d)' = Files(d)
  BY <1>1, SameFiles DEF store
<1>5. CASE d = c /\ act = "enqueue" /\ u \in Allowed
  <2>1. enqueues'[d] = enqueues[d] + 1
    BY <1>1, <1>3, <1>5
  <2>2. Owing(d)' \subseteq Owing(d) \cup {h}
    BY <1>1 DEF Owing
  <2> QED
    BY <1>3, <1>4, <2>1, <2>2, PaidClick
<1>6. CASE ~ (d = c /\ act = "enqueue" /\ u \in Allowed)
  <2>1. enqueues'[d] = enqueues[d]
    BY <1>1, <1>3, <1>6
  <2>2. Owing(d)' \subseteq Owing(d)
    BY <1>1, <1>6 DEF Owing
  <2> QED
    BY <1>3, <1>4, <2>1, <2>2, PaidStands
<1> QED
  BY <1>5, <1>6

LEMMA ActCounts ==
    ASSUME Shape, Shape', Counted, NEW h \in Thread, ActOn(h)
    PROVE  Counted'
<1>1. /\ thread[h].pc = "clicked"
      /\ Stays(h) /\ UNCHANGED <<store, enqueues>>
      /\ \/ thread'[h] = Resting
         \/ /\ thread'[h].pc = "enqueue" /\ thread'[h].cap = thread[h].cap
            /\ thread'[h].act = "enqueue" /\ thread[h].act = "enqueue"
  BY ActEffect
<1>2. config' = config /\ \A g \in Thread \ {h} : thread'[g] = thread[g]
  BY <1>1 DEF Stays
<1>3. SUFFICES ASSUME config.require_confirmation, NEW c \in Capture PROVE Paid(c)'
  BY <1>2 DEF Counted
<1>4. Paid(c) /\ enqueues[c] \in Nat
  BY <1>3 DEF Counted, Shape
<1>5. Owing(c)' \subseteq Owing(c)
  BY <1>1, <1>2, OwingStands DEF Writing, Resting
<1>6. Files(c)' = Files(c)
  BY <1>1, SameFiles DEF store
<1> QED
  BY <1>1, <1>4, <1>5, <1>6, PaidStands

LEMMA RestartCounts ==
    ASSUME Shape, Shape', Counted, Restart
    PROVE  Counted'
<1>1. config' = config /\ enqueues' = enqueues /\ brief' = brief
      /\ thread' = [h \in Thread |-> Resting]
  BY DEF Restart, store, talk
<1>2. SUFFICES ASSUME config.require_confirmation, NEW c \in Capture PROVE Paid(c)'
  BY <1>1 DEF Counted
<1>3. Paid(c) /\ enqueues[c] \in Nat
  BY <1>2 DEF Counted, Shape
<1>4. Owing(c)' \subseteq Owing(c)
  BY <1>1 DEF Owing, Writing, Resting
<1>5. Files(c)' = Files(c)
  BY <1>1, SameFiles
<1> QED
  BY <1>1, <1>3, <1>4, <1>5, PaidStands

LEMMA StepCounts == Shape /\ Shape' /\ Counted /\ [Next]_vars => Counted'
<1> SUFFICES ASSUME Shape, Shape', Counted, [Next]_vars PROVE Counted'
  OBVIOUS
<1>1. CASE UNCHANGED vars
  BY <1>1 DEF vars, inbox, store, talk, ends, Counted, Paid, Files, Owing
<1>2. CASE Restart
  BY <1>2, RestartCounts
<1>3. ASSUME NEW h \in Thread, ThreadStep(h) PROVE Counted'
  <2>1. CASE ActOn(h)
    BY <2>1, ActCounts
  <2>2. CASE EnqueueStep(h)
    BY <2>2, EnqueueCounts
  <2> QED
    BY <1>3, <2>1, <2>2 DEF ThreadStep, EnqueueStep
<1>4. ASSUME NEW h \in Thread, NEW m \in Message, OnMessage(h, m) PROVE Counted'
  BY <1>4, MessageCounts
<1>5. ASSUME NEW h \in Thread, NEW c \in cards, NEW act \in Action, NEW u \in User,
             OnAction(h, c, act, u)
      PROVE  Counted'
  BY <1>5, ClickCounts
<1> QED
  BY <1>1, <1>2, <1>3, <1>4, <1>5 DEF Next

LEMMA InitCounts == Init => Counted
<1> SUFFICES ASSUME Init, NEW c \in Capture PROVE Paid(c)
  BY DEF Counted
<1>1. Files(c) = {}
  BY DEF Init, Files, NoFiles
<1>2. Owing(c) = {}
  BY DEF Init, Owing, Writing, Resting
<1>3. IsFiniteSet({}) /\ Cardinality({}) = 0
  BY FS_EmptySet
<1>4. enqueues[c] = 0
  BY DEF Init
<1> QED
  BY <1>1, <1>2, <1>3, <1>4 DEF Paid

\* However often a card is clicked, and whichever handlers race for its slug
\* (on_action, _unique_slug), every brief of its capture was clicked for by somebody
\* who may.
THEOREM OneBriefPerClickHolds == Spec => []OneBriefPerClick
<1>1. Answers => Shape
  BY DEF Answers
<1>2. []Shape /\ Init /\ [][Next]_vars => []Counted
  BY InitCounts, StepCounts, PTL
<1>3. Shape /\ Counted => OneBriefPerClick
  <2> SUFFICES ASSUME Shape, Counted, config.require_confirmation, NEW c \in Capture
               PROVE  Cardinality(Files(c)) <= enqueues[c]
    BY DEF OneBriefPerClick
  <2>1. Paid(c) /\ enqueues[c] \in Nat
    BY DEF Counted, Shape
  <2>2. Cardinality(Files(c)) \in Nat /\ Cardinality(Owing(c)) \in Nat
    BY <2>1, FS_CardinalityType DEF Paid
  <2> QED
    BY <2>1, <2>2 DEF Paid
<1> QED
  BY <1>1, <1>2, <1>3, AnswersHold, PTL DEF Spec

-----------------------------------------------------------------------------
(* A check mark tells the truth                                            *)

\* The slug a handler is about to write is not a slug another handler is about to
\* write for another capture: nothing in the code says so, two messages with one
\* title may race for it.
SlugsApart ==
    \A g, h \in Thread :
        At(g, "write") /\ At(h, "write") /\ In(g) = In(h) /\ thread[g].slug = thread[h].slug
        => thread[g].cap = thread[h].cap

Has(q, s, c) == s \in DOMAIN brief[q] /\ brief[q][s] = c

\* What a handler has reached: its slug is free or its own, then its brief is there,
\* then it is in the index or in HEAD.
Right(h) ==
    /\ At(h, "write") => \/ thread[h].slug \notin DOMAIN brief[In(h)]
                         \/ Has(In(h), thread[h].slug, thread[h].cap)
    /\ thread[h].pc \in Filing => Has(In(h), thread[h].slug, thread[h].cap)
    /\ At(h, "commit") /\ config.commit =>
           <<In(h), thread[h].slug, thread[h].cap>> \in staged \cup head

Truthful ==
    /\ \A q \in Queue : IsFiniteSet(DOMAIN brief[q])
    /\ \A h \in Thread : Right(h)
    /\ AckTruthful

LEMMA Least ==
    ASSUME NEW T, T \subseteq Nat, T # {}
    PROVE  \E x \in T : \A y \in T : x <= y
<1>1. IsWellFoundedOn(OpToRel(<, Nat), Nat)
  BY NatLessThanWellFounded
<1>2. PICK x \in T : \A y \in T : ~ (<<y, x>> \in OpToRel(<, Nat))
  BY <1>1, WFMin
<1>3. ASSUME NEW y \in T
      PROVE  x <= y
  <2>1. <<y, x>> \notin OpToRel(<, Nat)
    BY <1>2
  <2>2. x \in Nat /\ y \in Nat
    OBVIOUS
  <2>3. ~ (y < x)
    BY <2>1, <2>2 DEF OpToRel
  <2> QED
    BY <2>2, <2>3
<1> QED
  BY <1>3

\* _unique_slug always finds a number, by the pigeonhole principle.
LEMMA FreeNumber ==
    ASSUME NEW D, IsFiniteSet(D), NEW t
    PROVE  LET free == {n \in 1..(Cardinality(D) + 1) : <<t, n>> \notin D}
           IN  (CHOOSE n \in free : \A k \in free : n <= k) \in free
<1> DEFINE N == Cardinality(D) + 1
           I == 1..N
           free == {n \in I : <<t, n>> \notin D}
<1>1. Cardinality(D) \in Nat /\ N \in Nat
  BY FS_CardinalityType
<1>2. free # {}
  <2> SUFFICES ASSUME free = {} PROVE FALSE
    OBVIOUS
  <2> DEFINE f == [n \in I |-> <<t, n>>]
  <2>1. f \in [I -> D]
    OBVIOUS
  <2>2. IsFiniteSet(I) /\ Cardinality(I) = N
    BY <1>1, FS_Interval
  <2>3. \A x, y \in I : f[x] = f[y] => x = y
    OBVIOUS
  <2>4. Cardinality(D) < Cardinality(I)
    BY <1>1, <2>2
  <2> HIDE DEF f, I
  <2>5. \E x, y \in I : x # y /\ f[x] = f[y]
    BY <2>1, <2>2, <2>4, FS_PigeonHole
  <2> QED
    BY <2>3, <2>5
<1>3. free \subseteq Nat
  BY <1>1
<1>4. \E n \in free : \A k \in free : n <= k
  <2> HIDE DEF free
  <2> QED
    BY <1>2, <1>3, Least
<1> QED
  BY <1>4

Longer ==
    \A q \in Queue : \A t \in DOMAIN brief[q] : t \in DOMAIN brief'[q] /\ brief'[q][t] = brief[q][t]
Grows ==
    /\ config' = config /\ Longer
    /\ staged \cup head \subseteq staged' \cup head' /\ head \subseteq head'

LEMMA FilesGrow ==
    ASSUME Longer, NEW c
    PROVE  \A x \in Files(c) : x \in Files(c)'
<1> SUFFICES ASSUME NEW x \in Files(c) PROVE x \in Files(c)'
  OBVIOUS
<1>1. PICK q \in Queue : x \in {q} \X DOMAIN brief[q]
  BY DEF Files
<1>2. x[1] = q /\ x[2] \in DOMAIN brief[q] /\ x = <<q, x[2]>> /\ brief[q][x[2]] = c
  BY <1>1 DEF Files
<1>3. x[2] \in DOMAIN brief'[q] /\ brief'[q][x[2]] = c
  BY <1>2 DEF Longer
<1>4. x \in {q} \X DOMAIN brief'[q]
  BY <1>2, <1>3
<1> QED
  BY <1>2, <1>3, <1>4 DEF Files

\* A step that says no more than was said.
LEMMA AckKept ==
    ASSUME AckTruthful, Grows,
           \A c \in Capture : "queued" \in told'[c] => "queued" \in told[c]
    PROVE  AckTruthful'
<1> SUFFICES ASSUME NEW c \in Capture, "queued" \in told'[c]
             PROVE  \E x \in Files(c)' : config'.commit => <<x[1], x[2], c>> \in head'
  BY DEF AckTruthful
<1>1. PICK x \in Files(c) : config.commit => <<x[1], x[2], c>> \in head
  BY DEF AckTruthful
<1>2. x \in Files(c)'
  BY FilesGrow DEF Grows
<1> QED
  BY <1>1, <1>2 DEF Grows

\* A handler another one's step leaves alone.
LEMMA OtherRight ==
    ASSUME Shape, NEW g \in Thread, Right(g), Grows, thread'[g] = thread[g],
           At(g, "write") => \/ thread[g].slug \notin DOMAIN brief'[In(g)]
                             \/ brief'[In(g)][thread[g].slug] = thread[g].cap
    PROVE  Right(g)'
<1>1. At(g, "write")' => Right(g)'
  BY DEF Right, At, In, Has, Filing
<1>2. CASE thread[g].pc \in Filing
  <2> DEFINE q == In(g)  s == thread[g].slug  c == thread[g].cap
  <2>1. q \in Queue
    BY <1>2, ShapeOfRow DEF Filing
  <2>2. Has(q, s, c)
    BY <1>2 DEF Right
  <2>3. s \in DOMAIN brief'[q] /\ brief'[q][s] = c
    <3> HIDE DEF q, s, c
    <3> QED
      BY <2>1, <2>2 DEF Grows, Longer, Has
  <2>4. At(g, "commit") /\ config.commit => <<q, s, c>> \in staged' \cup head'
    BY DEF Right, Grows
  <2> QED
    BY <1>2, <2>3, <2>4 DEF Right, At, In, Has, Filing, Grows
<1>3. CASE thread[g].pc \notin Filing /\ thread[g].pc # "write"
  BY <1>3 DEF Right, At, Filing
<1> QED
  BY <1>1, <1>2, <1>3 DEF At

LEMMA SameGrows ==
    ASSUME UNCHANGED <<config, brief, staged, head>>
    PROVE  Grows
BY DEF Grows, Longer

\* A handler another one's step leaves alone, when no brief is written.
LEMMA OtherRightSame ==
    ASSUME Shape, NEW g \in Thread, Right(g), Grows, thread'[g] = thread[g], brief' = brief
    PROVE  Right(g)'
<1>1. At(g, "write") => \/ thread[g].slug \notin DOMAIN brief'[In(g)]
                        \/ brief'[In(g)][thread[g].slug] = thread[g].cap
  BY DEF Right, Has
<1> QED
  BY <1>1, OtherRight

\* A step of one handler that writes no brief.
LEMMA QuietTruthful ==
    ASSUME Shape, Truthful, NEW h \in Thread, Grows, brief' = brief,
           \A g \in Thread \ {h} : thread'[g] = thread[g],
           Right(h)', AckTruthful'
    PROVE  Truthful'
<1>1. \A g \in Thread \ {h} : Right(g)'
  BY OtherRightSame DEF Truthful
<1>2. \A g \in Thread : Right(g)'
  BY <1>1
<1> QED
  BY <1>2 DEF Truthful

LEMMA Elsewhere ==
    ASSUME NEW h \in Thread, thread'[h].pc \notin Filing, thread'[h].pc # "write"
    PROVE  Right(h)'
BY DEF Right, At, Filing

LEMMA SaidElse ==
    ASSUME Shape, NEW c \in Capture, NEW what, what # "queued", Tell(c, what)
    PROVE  \A d \in Capture : "queued" \in told'[d] => "queued" \in told[d]
<1>1. told' = [d \in Capture |-> IF d = c THEN told[d] \cup {what} ELSE told[d]]
  BY DEF Tell, Shape
<1> QED
  BY <1>1

LEMMA FailSaid ==
    ASSUME Shape, NEW h \in Thread, thread[h].pc \in Enqueuing, Fail(h) \/ UNCHANGED told
    PROVE  \A d \in Capture : "queued" \in told'[d] => "queued" \in told[d]
<1>1. thread[h].cap \in Capture
  BY ShapeOfRow DEF Enqueuing, Filing
<1> QED
  BY <1>1, SaidElse DEF Fail

\* Steps before the brief is written.
LEMMA EarlyTruthful ==
    ASSUME Shape, Truthful, NEW h \in Thread,
           FindQueue(h) \/ CreateQueue(h) \/ SeedQueue(h)
    PROVE  Truthful'
<1>1. Goes(h)
  BY EnqueueGoes DEF EnqueueStep
<1>2. /\ \A g \in Thread \ {h} : thread'[g] = thread[g]
      /\ config' = config /\ thread[h].pc \in Enqueuing
  BY <1>1 DEF Goes, Stays
<1>3. UNCHANGED <<brief, staged, head>>
  BY DEF FindQueue, CreateQueue, SeedQueue, store
<1>4. Fail(h) \/ UNCHANGED told
  BY DEF FindQueue, CreateQueue, SeedQueue, talk
<1>5. \E pc \in {"slug", "create", "seed"} : Step(h, pc) \/ Fail(h)
  BY DEF FindQueue, CreateQueue, SeedQueue
<1>6. thread'[h].pc \notin Filing /\ thread'[h].pc # "write"
  <2>1. PICK pc \in {"slug", "create", "seed"} : Step(h, pc) \/ Fail(h)
    BY <1>5
  <2>2. pc \in Enqueuing /\ pc \notin Filing /\ pc # "write" /\ "idle" \notin Filing
    BY DEF Enqueuing, Filing
  <2> QED
    BY <1>2, <2>1, <2>2, StepPc, RestPc
<1>7. Grows
  BY <1>2, <1>3, SameGrows
<1>8. AckTruthful'
  BY <1>2, <1>4, <1>7, FailSaid, AckKept DEF Truthful
<1> QED
  BY <1>2, <1>3, <1>6, <1>7, <1>8, Elsewhere, QuietTruthful

LEMMA SlugTruthful ==
    ASSUME Shape, Truthful, NEW h \in Thread, UniqueSlug(h)
    PROVE  Truthful'
<1> DEFINE q == In(h)
           D == DOMAIN brief[q]
           t == Title(thread[h].cap)
           free == {n \in 1..(Cardinality(D) + 1) : <<t, n>> \notin D}
           n == CHOOSE k \in free : \A m \in free : k <= m
<1>1. thread[h].pc = "slug" /\ thread[h].pc \in Enqueuing
      /\ UNCHANGED <<config, brief, staged, head, told>>
  BY DEF UniqueSlug, At, Enqueuing, inbox, store, talk
<1>2. q \in Queue
  BY <1>1, ShapeOfRow
<1>3. IsFiniteSet(D)
  BY <1>2 DEF Truthful
<1>4. n \in free
  <2> HIDE DEF D, t
  <2> QED
    BY <1>3, FreeNumber
<1>5. /\ \A g \in Thread \ {h} : thread'[g] = thread[g]
      /\ thread'[h].pc = "write" /\ thread'[h].cap = thread[h].cap
      /\ thread'[h].slug = <<t, n>>
  BY SlugPicked DEF Stays
<1>6. <<t, n>> \notin D
  <2> HIDE DEF n, D, t
  <2> QED
    BY <1>4
<1>7. Right(h)'
  <2> HIDE DEF n, t
  <2> QED
    BY <1>1, <1>5, <1>6 DEF Right, At, Filing, In
<1>8. Grows
  BY <1>1, SameGrows
<1>9. AckTruthful'
  BY <1>1, <1>8, AckKept DEF Truthful
<1> QED
  BY <1>1, <1>5, <1>7, <1>8, <1>9, QuietTruthful

LEMMA WriteTruthful ==
    ASSUME Shape, Truthful, SlugsApart, NEW h \in Thread, WriteBrief(h)
    PROVE  Truthful'
<1> DEFINE q == In(h)  s == thread[h].slug  c == thread[h].cap
<1>1. thread[h].pc = "write" /\ thread[h].pc \in Enqueuing /\ At(h, "write")
      /\ UNCHANGED <<config, staged, head>>
  BY DEF WriteBrief, At, Enqueuing, inbox
<1>2. c \in Capture /\ q \in Queue
  BY <1>1, ShapeOfRow
<1>3. \A g \in Thread \ {h} : thread'[g] = thread[g]
  BY EnqueueGoes DEF EnqueueStep, Goes, Stays
<1>4. CASE brief' = brief /\ Fail(h)
  <2>1. Grows
    BY <1>1, <1>4, SameGrows
  <2>2. AckTruthful'
    BY <1>1, <1>4, <2>1, FailSaid, AckKept DEF Truthful
  <2>3. Right(h)'
    BY <1>4, RestPc, Elsewhere DEF Filing
  <2> QED
    BY <1>3, <1>4, <2>1, <2>2, <2>3, QuietTruthful
<1>5. CASE /\ brief' = [brief EXCEPT ![q] =
                          [t \in DOMAIN @ \cup {s} |-> IF t = s THEN c ELSE @[t]]]
           /\ Step(h, "order") /\ UNCHANGED told
  <2> DEFINE f == [t \in DOMAIN brief[q] \cup {s} |-> IF t = s THEN c ELSE brief[q][t]]
  <2>1. brief' = [brief EXCEPT ![q] = f] /\ brief = [p \in Queue |-> brief[p]]
    BY <1>5 DEF Shape
  <2>2. /\ DOMAIN f = DOMAIN brief[q] \cup {s} /\ f[s] = c
        /\ \A t \in DOMAIN brief[q] : t # s => f[t] = brief[q][t]
    OBVIOUS
  <2> HIDE DEF f
  <2>3. brief'[q] = f /\ \A p \in Queue : p # q => brief'[p] = brief[p]
    BY <1>2, <2>1
  <2>4. s \notin DOMAIN brief[q] \/ brief[q][s] = c
    BY <1>1 DEF Truthful, Right, Has
  <2>5. Longer
    <3> SUFFICES ASSUME NEW p \in Queue, NEW t \in DOMAIN brief[p]
                 PROVE  t \in DOMAIN brief'[p] /\ brief'[p][t] = brief[p][t]
      BY DEF Longer
    <3>1. CASE p = q
      BY <2>2, <2>3, <2>4, <3>1
    <3>2. CASE p # q
      BY <2>3, <3>2
    <3> QED
      BY <3>1, <3>2
  <2>6. Grows
    BY <1>1, <2>5 DEF Grows
  <2>7. \A p \in Queue : IsFiniteSet(DOMAIN brief'[p])
    <3>1. IsFiniteSet(DOMAIN brief[q])
      BY <1>2 DEF Truthful
    <3>2. IsFiniteSet(DOMAIN f)
      <4> DEFINE D == DOMAIN brief[q]
      <4>1. DOMAIN f = D \cup {s}
        BY <2>2
      <4> HIDE DEF D, s
      <4>2. IsFiniteSet(D \cup {s})
        BY <3>1, FS_AddElement DEF D
      <4> QED
        BY <4>1, <4>2
    <3> QED
      BY <2>3, <3>2 DEF Truthful
  <2>8. thread'[h].pc = "order" /\ thread'[h].slug = s /\ thread'[h].cap = c
    <3>1. "order" \in Enqueuing
      BY DEF Enqueuing, Filing
    <3> QED
      BY <1>1, <1>5, <3>1, StepPc
  <2>9. Right(h)'
    BY <2>2, <2>3, <2>8 DEF Right, At, Has, In, Filing
  <2>10. ASSUME NEW g \in Thread \ {h} PROVE Right(g)'
    <3>1. SUFFICES ASSUME At(g, "write")
                   PROVE  \/ thread[g].slug \notin DOMAIN brief'[In(g)]
                          \/ brief'[In(g)][thread[g].slug] = thread[g].cap
      BY <1>3, <2>6, OtherRight DEF Truthful
    <3>2. \/ thread[g].slug \notin DOMAIN brief[In(g)]
          \/ brief[In(g)][thread[g].slug] = thread[g].cap
      BY <3>1 DEF Truthful, Right, Has
    <3>3. In(g) \in Queue
      BY <3>1, ShapeOfRow DEF At
    <3>4. CASE In(g) = q /\ thread[g].slug = s
      <4>1. thread[g].cap = c
        BY <1>1, <3>1, <3>4 DEF SlugsApart
      <4> QED
        BY <2>2, <2>3, <3>4, <4>1
    <3>5. CASE In(g) = q /\ thread[g].slug # s
      BY <2>2, <2>3, <3>2, <3>5
    <3>6. CASE In(g) # q
      BY <2>3, <3>2, <3>3, <3>6
    <3> QED
      BY <3>4, <3>5, <3>6
  <2>11. AckTruthful'
    BY <1>5, <2>6, AckKept DEF Truthful
  <2>12. \A g \in Thread : Right(g)'
    BY <2>9, <2>10
  <2> QED
    BY <2>7, <2>11, <2>12 DEF Truthful
<1> QED
  BY <1>4, <1>5 DEF WriteBrief

LEMMA OrderTruthful ==
    ASSUME Shape, Truthful, NEW h \in Thread, ReadOrder(h) \/ UpdateOrder(h)
    PROVE  Truthful'
<1> DEFINE q == In(h)  s == thread[h].slug  c == thread[h].cap
           pc == IF config.commit THEN "add" ELSE "commit"
<1>1. thread[h].pc \in Filing /\ thread[h].pc \in Enqueuing
      /\ UNCHANGED <<config, brief, staged, head, told>>
  BY DEF ReadOrder, UpdateOrder, At, Enqueuing, Filing, inbox, store, talk
<1>2. \A g \in Thread \ {h} : thread'[g] = thread[g]
  BY EnqueueGoes DEF EnqueueStep, Goes, Stays
<1>3. /\ thread'[h].slug = s /\ thread'[h].cap = c
      /\ thread'[h].pc = "splice" \/ thread'[h].pc = pc
  <2>1. CASE ReadOrder(h)
    BY <2>1, ReadOrderGoes
  <2>2. CASE UpdateOrder(h)
    <3>1. pc \in Enqueuing /\ Step(h, pc)
      BY <2>2 DEF UpdateOrder, Enqueuing, Filing
    <3> HIDE DEF pc
    <3> QED
      BY <1>1, <3>1, StepPc
  <2> QED
    BY <2>1, <2>2
<1>4. Has(q, s, c)
  BY <1>1 DEF Truthful, Right
<1>5. Right(h)'
  BY <1>1, <1>3, <1>4 DEF Right, At, Has, In, Filing
<1>6. Grows
  BY <1>1, SameGrows
<1>7. AckTruthful'
  BY <1>1, <1>6, AckKept DEF Truthful
<1> QED
  BY <1>1, <1>2, <1>5, <1>6, <1>7, QuietTruthful

LEMMA AddTruthful ==
    ASSUME Shape, Truthful, NEW h \in Thread, GitAdd(h)
    PROVE  Truthful'
<1> DEFINE q == In(h)  s == thread[h].slug  c == thread[h].cap  e == <<q, s, c>>
<1>1. thread[h].pc \in Filing /\ thread[h].pc \in Enqueuing
      /\ UNCHANGED <<config, brief, head>>
  BY DEF GitAdd, At, Enqueuing, Filing, inbox
<1>2. \A g \in Thread \ {h} : thread'[g] = thread[g]
  BY EnqueueGoes DEF EnqueueStep, Goes, Stays
<1>3. Has(q, s, c)
  BY <1>1 DEF Truthful, Right
<1>4. Fail(h) \/ UNCHANGED told
  BY DEF GitAdd
<1>5. CASE staged' = staged /\ Fail(h)
  <2>1. Grows
    BY <1>1, <1>5, SameGrows
  <2>2. Right(h)'
    BY <1>5, RestPc, Elsewhere DEF Filing
  <2>3. AckTruthful'
    BY <1>1, <1>4, <2>1, FailSaid, AckKept DEF Truthful
  <2> QED
    BY <1>1, <1>2, <2>1, <2>2, <2>3, QuietTruthful
<1>6. CASE staged' = (staged \cup {e}) \ head /\ Step(h, "commit")
  <2>1. Grows /\ e \in staged' \cup head'
    BY <1>1, <1>6 DEF Grows, Longer
  <2>2. thread'[h].pc = "commit" /\ thread'[h].slug = s /\ thread'[h].cap = c
    <3>1. "commit" \in Enqueuing
      BY DEF Enqueuing, Filing
    <3> QED
      BY <1>1, <1>6, <3>1, StepPc
  <2>3. Right(h)'
    BY <1>1, <1>3, <2>1, <2>2 DEF Right, At, Has, In, Filing
  <2>4. AckTruthful'
    BY <1>1, <1>4, <2>1, FailSaid, AckKept DEF Truthful
  <2> QED
    BY <1>1, <1>2, <2>1, <2>3, <2>4, QuietTruthful
<1>7. <<q, s, brief[q][s]>> = e
  BY <1>3 DEF Has
<1> QED
  BY <1>5, <1>6, <1>7 DEF GitAdd

\* The check mark is given to a brief that is there, in HEAD if it is to be.
LEMMA CommitTruthful ==
    ASSUME Shape, Truthful, NEW h \in Thread, GitCommit(h)
    PROVE  Truthful'
<1> DEFINE q == In(h)  s == thread[h].slug  c == thread[h].cap
<1>1. thread[h].pc = "commit" /\ thread[h].pc \in Filing /\ thread[h].pc \in Enqueuing
      /\ UNCHANGED <<config, brief>>
  BY DEF GitCommit, At, Enqueuing, Filing, inbox
<1>2. \A g \in Thread \ {h} : thread'[g] = thread[g]
  BY EnqueueGoes DEF EnqueueStep, Goes, Stays
<1>3. c \in Capture /\ q \in Queue
  BY <1>1, ShapeOfRow
<1>4. Has(q, s, c) /\ (config.commit => <<q, s, c>> \in staged \cup head)
  BY <1>1 DEF Truthful, Right, At
<1>5. Right(h)'
  BY RestPc, Elsewhere DEF GitCommit, Filing
<1>6. Grows
  BY <1>1 DEF GitCommit, Grows, Longer
<1>7. AckTruthful'
  <2>1. CASE Fail(h)
    BY <1>1, <1>6, <2>1, FailSaid, AckKept DEF Truthful
  <2>2. CASE /\ Tell(c, "queued")
             /\ config.commit => head' = head \cup staged
    <3>1. told' = [d \in Capture |-> IF d = c THEN told[d] \cup {"queued"} ELSE told[d]]
      BY <2>2 DEF Tell, Shape
    <3>2. ASSUME NEW d \in Capture, d = c PROVE <<q, s>> \in Files(d)'
      <4>1. s \in DOMAIN brief'[q] /\ brief'[q][s] = d
        BY <1>1, <1>4, <3>2 DEF Has
      <4> HIDE DEF q, s, c
      <4>2. <<q, s>> \in {q} \X DOMAIN brief'[q] /\ <<q, s>>[1] = q /\ <<q, s>>[2] = s
        BY <4>1
      <4> QED
        BY <1>3, <4>1, <4>2 DEF Files
    <3>3. config'.commit => <<q, s, c>> \in head'
      BY <1>1, <1>4, <2>2
    <3>4. ASSUME NEW d \in Capture, "queued" \in told'[d]
          PROVE  \E x \in Files(d)' : config'.commit => <<x[1], x[2], d>> \in head'
      <4>1. CASE d = c
        <5> DEFINE x == <<q, s>>
        <5>1. x \in Files(d)' /\ x[1] = q /\ x[2] = s
          BY <3>2, <4>1
        <5>2. config'.commit => <<x[1], x[2], d>> \in head'
          BY <3>3, <4>1, <5>1
        <5> HIDE DEF x
        <5> QED
          BY <5>1, <5>2
      <4>2. CASE d # c
        <5>1. "queued" \in told[d]
          BY <3>1, <3>4, <4>2
        <5>2. PICK x \in Files(d) : config.commit => <<x[1], x[2], d>> \in head
          BY <5>1 DEF Truthful, AckTruthful
        <5>3. x \in Files(d)'
          BY <1>6, FilesGrow DEF Grows
        <5> QED
          BY <1>6, <5>2, <5>3 DEF Grows
      <4> QED
        BY <4>1, <4>2
    <3> QED
      BY <3>4 DEF AckTruthful
  <2> QED
    BY <2>1, <2>2 DEF GitCommit
<1> QED
  BY <1>1, <1>2, <1>5, <1>6, <1>7, QuietTruthful

LEMMA ActTruthful ==
    ASSUME Shape, Truthful, NEW h \in Thread, ActOn(h)
    PROVE  Truthful'
<1> DEFINE c == thread[h].cap
<1>1. /\ c \in Capture /\ Stays(h) /\ UNCHANGED store
      /\ told' = told \/ Tell(c, "cancelled")
      /\ thread'[h] = Resting \/ thread'[h].pc = "enqueue"
  BY ActEffect
<1>2. Right(h)'
  BY <1>1, Elsewhere DEF Filing, Resting
<1>3. Grows
  BY <1>1, SameGrows DEF store, Stays
<1>4. \A d \in Capture : "queued" \in told'[d] => "queued" \in told[d]
  <2> HIDE DEF c
  <2> QED
    BY <1>1, SaidElse
<1>5. AckTruthful'
  BY <1>3, <1>4, AckKept DEF Truthful
<1> QED
  BY <1>1, <1>2, <1>3, <1>5, QuietTruthful DEF Stays, store

LEMMA MessageTruthful ==
    ASSUME Shape, Truthful, NEW h \in Thread, NEW m \in Message, OnMessage(h, m)
    PROVE  Truthful'
<1> DEFINE c == <<m, delivered[m] + 1>>
<1>1. /\ c \in Capture /\ thread[h].pc = "idle"
      /\ thread' = thread \/ thread' = [thread EXCEPT ![h] = Working("enqueue", c)]
      /\ told' = told \/ Tell(c, "unparsed")
      /\ UNCHANGED <<config, store>>
  BY MessageEffect
<1> HIDE DEF c
<1>2. /\ \A g \in Thread \ {h} : thread'[g] = thread[g]
      /\ thread'[h].pc \in {"idle", "enqueue"}
  <2> DEFINE r == Working("enqueue", c)
  <2>1. r.pc = "enqueue"
    BY <1>1, WorkingRow
  <2> HIDE DEF r
  <2> QED
    BY <1>1, <2>1, Moved DEF r
<1>3. Right(h)'
  BY <1>2, Elsewhere DEF Filing
<1>4. Grows
  BY <1>1, SameGrows DEF store
<1>5. \A d \in Capture : "queued" \in told'[d] => "queued" \in told[d]
  BY <1>1, SaidElse
<1>6. AckTruthful'
  BY <1>4, <1>5, AckKept DEF Truthful
<1> QED
  BY <1>1, <1>2, <1>3, <1>4, <1>6, QuietTruthful DEF store

LEMMA ClickTruthful ==
    ASSUME Shape, Truthful, NEW h \in Thread, NEW c \in cards, NEW act \in Action,
           NEW u \in User, OnAction(h, c, act, u)
    PROVE  Truthful'
<1>1. /\ thread[h].pc = "idle"
      /\ \A g \in Thread \ {h} : thread'[g] = thread[g]
      /\ thread'[h] = thread[h] \/ thread'[h].pc = "clicked"
      /\ UNCHANGED <<config, store, told>>
  BY ClickEffect
<1>2. Right(h)'
  BY <1>1, Elsewhere DEF Filing
<1>3. Grows
  BY <1>1, SameGrows DEF store
<1>4. AckTruthful'
  BY <1>1, <1>3, AckKept DEF Truthful
<1> QED
  BY <1>1, <1>2, <1>3, <1>4, QuietTruthful DEF store

LEMMA RestartTruthful ==
    ASSUME Shape, Truthful, Restart
    PROVE  Truthful'
<1>1. UNCHANGED <<config, brief, staged, head, told>> /\ thread' = [h \in Thread |-> Resting]
  BY DEF Restart, store, talk
<1>2. Grows
  BY <1>1, SameGrows
<1>3. AckTruthful'
  BY <1>1, <1>2, AckKept DEF Truthful
<1>4. \A h \in Thread : Right(h)'
  <2> TAKE h \in Thread
  <2>1. thread'[h].pc = "idle"
    BY <1>1 DEF Resting
  <2> QED
    BY <2>1, Elsewhere DEF Filing
<1> QED
  BY <1>1, <1>3, <1>4 DEF Truthful

LEMMA StepTruthful ==
    ASSUME Shape, Truthful, SlugsApart, [Next]_vars
    PROVE  Truthful'
<1>1. CASE UNCHANGED vars
  BY <1>1 DEF vars, inbox, store, talk, ends, Truthful, Right, At, In, Has, AckTruthful, Files
<1>2. CASE Restart
  BY <1>2, RestartTruthful
<1>3. ASSUME NEW h \in Thread, ThreadStep(h) PROVE Truthful'
  BY <1>3, ActTruthful, EarlyTruthful, SlugTruthful, WriteTruthful, OrderTruthful,
     AddTruthful, CommitTruthful
     DEF ThreadStep
<1>4. ASSUME NEW h \in Thread, NEW m \in Message, OnMessage(h, m) PROVE Truthful'
  BY <1>4, MessageTruthful
<1>5. ASSUME NEW h \in Thread, NEW c \in cards, NEW act \in Action, NEW u \in User,
             OnAction(h, c, act, u)
      PROVE  Truthful'
  BY <1>5, ClickTruthful
<1> QED
  BY <1>1, <1>2, <1>3, <1>4, <1>5 DEF Next

LEMMA InitTruthful == Init => Truthful
<1> SUFFICES ASSUME Init PROVE Truthful
  OBVIOUS
<1>1. \A q \in Queue : IsFiniteSet(DOMAIN brief[q])
  <2> TAKE q \in Queue
  <2>1. DOMAIN brief[q] = {}
    BY DEF Init, NoFiles
  <2> QED
    BY <2>1, FS_EmptySet
<1>2. \A h \in Thread : Right(h)
  BY DEF Init, Resting, Right, At, Filing
<1>3. AckTruthful
  BY DEF Init, AckTruthful
<1> QED
  BY <1>1, <1>2, <1>3 DEF Truthful

\* A check mark is never given for a brief that another capture has overwritten, or
\* that somebody else's commit left out, in every behaviour in which no two captures
\* pick one slug at a time: _write_brief does not look again at what _unique_slug saw.
THEOREM AckTruthfulHolds == Spec /\ []SlugsApart => []AckTruthful
<1>1. Answers => Shape
  BY DEF Answers
<1>2. []Shape /\ []SlugsApart /\ Init /\ [][Next]_vars => []Truthful
  BY InitTruthful, StepTruthful, PTL
<1>3. Truthful => AckTruthful
  BY DEF Truthful
<1> QED
  BY <1>1, <1>2, <1>3, AnswersHold, PTL DEF Spec

\* In particular when no two captures have one title and one queue.
THEOREM AckTruthfulDistinct ==
    ASSUME \A c, d \in Capture : Title(c) = Title(d) /\ QueueOf[c[1]] = QueueOf[d[1]] => c = d
    PROVE  Spec => []AckTruthful
<1>1. Answers => SlugsApart
  <2> SUFFICES ASSUME Answers, NEW g \in Thread, NEW h \in Thread,
                      At(g, "write"), At(h, "write"), In(g) = In(h),
                      thread[g].slug = thread[h].slug
               PROVE  thread[g].cap = thread[h].cap
    BY DEF SlugsApart
  <2>1. /\ thread[g].cap \in Capture /\ thread[h].cap \in Capture
        /\ thread[g].slug = <<Title(thread[g].cap), thread[g].slug[2]>>
        /\ thread[h].slug = <<Title(thread[h].cap), thread[h].slug[2]>>
    BY ShapeOfRow DEF Answers, At
  <2>2. thread[g].slug[1] = Title(thread[g].cap) /\ thread[h].slug[1] = Title(thread[h].cap)
    BY <2>1
  <2>3. Title(thread[g].cap) = Title(thread[h].cap)
    BY <2>2
  <2> QED
    BY <2>1, <2>3 DEF In
<1> QED
  BY <1>1, AnswersHold, AckTruthfulHolds, PTL
=============================================================================
