---------------------------- MODULE ImportProofs ----------------------------
(***************************************************************************)
(* The import of published briefs for any number of sources, inboxes,      *)
(* versions, failed removals and restarts, where nothing acts in the       *)
(* middle of an import but the lands and failures of running tasks.        *)
(***************************************************************************)
EXTENDS Import, WellFoundedInduction, TLAPS

-----------------------------------------------------------------------------
(* Natural numbers                                                         *)

\* Every nonempty set of natural numbers has a least element.
LEMMA Least ==
    ASSUME NEW T, T \subseteq Nat, T # {}
    PROVE  \E x \in T : \A y \in T : x <= y
<1>1. IsWellFoundedOn(OpToRel(<, Nat), Nat)
  BY NatLessThanWellFounded
<1>2. PICK x \in T : \A y \in T : ~ (<<y, x>> \in OpToRel(<, Nat))
  BY <1>1, WFMin
<1>3. ASSUME NEW y \in T
      PROVE  x <= y
  <2>1. <<y, x>> \notin OpToRel(<, Nat)
    BY <1>2
  <2>2. x \in Nat /\ y \in Nat
    OBVIOUS
  <2>3. ~ (y < x)
    BY <2>1, <2>2 DEF OpToRel
  <2>4. QED
    BY <2>2, <2>3
<1>4. QED
  BY <1>3

\* Induction, on a set of natural numbers.
LEMMA Induction ==
    ASSUME NEW S, 0 \in S, \A n \in Nat : n \in S => n + 1 \in S
    PROVE  Nat \subseteq S
<1>1. SUFFICES ASSUME Nat \ S # {}
               PROVE  FALSE
  OBVIOUS
<1>2. PICK x \in Nat \ S : \A y \in Nat \ S : x <= y
  BY <1>1, Least
<1>3. x # 0
  OBVIOUS
<1>4. x - 1 \in Nat /\ x - 1 \notin Nat \ S
  BY <1>2, <1>3
<1>5. (x - 1) + 1 \in S
  BY <1>4
<1>6. QED
  BY <1>5

-----------------------------------------------------------------------------
(* The inductive invariant, in parts                                       *)

Text == [v : Nat, disabled : BOOLEAN, quarantined : BOOLEAN]
Brief == [src : Source, text : Text, stamped : BOOLEAN]
Taken == UNION {[S -> [text : Text, duplicate : BOOLEAN, replaces : BOOLEAN,
                       started : BOOLEAN]] : S \in SUBSET Source}

Importing == [pc : {"idle", "begun", "copy", "remove"}, begun : SUBSET Stem, entries : Taken]

\* A text on main is the last one published; a brief is named after its source.
Shape ==
    /\ inbox \in [Source -> Text \cup {NoText}] /\ version \in [Source -> Nat]
    /\ \A s \in Source : inbox[s] # NoText =>
         inbox[s].v = version[s] /\ (inbox[s].quarantined => s \in Quarantinable)
    /\ queue \in [Stem -> Brief \cup {NoBrief}]
    /\ \A t \in Queued : /\ NameOf[queue[t].src] = t[1]
                         /\ queue[t].text.v <= version[queue[t].src]
    /\ started \subseteq Stem /\ running \in [Stem -> (Source \X Nat) \cup {Idle}]
    /\ importer \in [Importer -> Importing]
    /\ \A i \in Importer : importer[i].pc = "idle" => importer[i].entries = <<>>

\* Imports exclude each other, and no task begins during one.
Alternate ==
    /\ \A i, j \in Importer : importer[i].pc # "idle" /\ importer[j].pc # "idle" => i = j
    /\ \A i \in Importer : importer[i].pc # "idle" => importer[i].begun = started

\* What runs is what its brief says.
Running ==
    \A t \in Stem : running[t] # Idle =>
        t \in started /\ queue[t] # NoBrief /\ running[t] = <<queue[t].src, queue[t].text.v>>

\* A version that needs its source no more.
Safe(s, v) ==
    \/ \E t \in Queued : queue[t].src = s /\ queue[t].text.v = v
    \/ <<s, v>> \in ran
    \/ <<s, v>> \in withdrawn

\* No copy of s, stamped or not, says what main says.
NoCopy(s, stamped) ==
    \A t \in Queued : queue[t].src = s /\ queue[t].stamped = stamped => queue[t].text # inbox[s]

First(s) == <<NameOf[s], 1>>

\* What was scanned stays true until the copy, whatever lands in between.
Scanned ==
    \A i \in Importer : importer[i].pc = "copy" =>
      \A s \in DOMAIN importer[i].entries :
        LET e == importer[i].entries[s]
        IN /\ inbox[s] # NoText /\ e.text = inbox[s]
           /\ e.duplicate => Safe(s, inbox[s].v) /\ ~e.started
           /\ e.replaces => First(s) \notin started
           /\ ~(e.duplicate \/ e.replaces \/ e.started) /\ First(s) \in Stem =>
                queue[First(s)] = NoBrief
           /\ ~e.duplicate => NoCopy(s, FALSE)
           /\ i = "auto" => /\ s \in Host /\ ~inbox[s].quarantined
                            /\ e.started => ~inbox[s].disabled
                            /\ NoCopy(s, TRUE)

\* A source is removed when it is needed no more, and refused when it is not in the queue.
Removable ==
    \A i \in Importer : importer[i].pc = "remove" =>
      \A s \in DOMAIN importer[i].entries :
        /\ inbox[s] # NoText
        /\ ~importer[i].entries[s].started => Safe(s, inbox[s].v)
        /\ importer[i].entries[s].started =>
             /\ NoCopy(s, FALSE)
             /\ i = "auto" => ~inbox[s].disabled /\ NoCopy(s, TRUE)

\* Sources with a hold are the first of their name.
HoldsFirst ==
    \A j, k \in DOMAIN Published :
        j < k /\ Published[k] \in Quarantinable => NameOf[Published[j]] # NameOf[Published[k]]

\* A brief with the number of a collision was imported by the operator, without a hold.
Numbered ==
    \A t \in Queued :
      /\ queue[t].stamped => queue[t].src \in Host /\ t[2] = 1
      /\ HoldsFirst /\ queue[t].src \in Quarantinable => t[2] = 1

\* A copy says what its source says, as long as that is published unchanged.
Verbatim ==
    \A t \in Queued :
      LET s == queue[t].src
      IN inbox[s] # NoText /\ queue[t].text.v = inbox[s].v =>
           /\ ~queue[t].stamped /\ s \notin Quarantinable => queue[t].text = inbox[s]
           /\ queue[t].stamped => /\ ~inbox[s].quarantined
                                  /\ queue[t].text = inbox[s] \/ inbox[s].disabled

Known == Running /\ Scanned /\ Removable /\ NeverLost
Copies == Numbered /\ Verbatim /\ (HoldsFirst => NoTwin)
IInv == Shape /\ Alternate /\ Known /\ Copies

-----------------------------------------------------------------------------
(* The copy of a batch                                                     *)

\* Briefs are not the absence of one, texts not the absence of one.
LEMMA NothingIsNothing == NoBrief \notin Brief /\ NoText.v = 0
<1>1. NoBrief \notin Brief
  <2>1. "text" \notin DOMAIN NoBrief
    BY DEF NoBrief
  <2>2. \A b \in Brief : "text" \in DOMAIN b
    BY DEF Brief
  <2> QED BY <2>1, <2>2
<1> QED BY <1>1 DEF NoText

CopyNext(i, acc, k) ==
    IF Published[k] \in DOMAIN importer[i].entries THEN CopyOne(i, acc, Published[k]) ELSE acc

Untouched == [queue |-> queue, order |-> order, written |-> {}, over |-> {}]

\* The copy goes through the published sources one after the other.
LEMMA CopySteps ==
    ASSUME NEW i \in Importer
    PROVE  \E done : /\ done[0] = Untouched
                     /\ \A k \in 1..Len(Published) : done[k] = CopyNext(i, done[k - 1], k)
                     /\ Copied(i) = done[Len(Published)]
<1> DEFINE G(d, n) == [k \in 0..n |-> IF k = 0 THEN Untouched ELSE CopyNext(i, d[k - 1], k)]
           S == {n \in Nat : \E d : d = G(d, n)}
<1>1. Len(Published) \in Nat
  BY ImportConstants
<1>2. 0 \in S
  <2>1. [k \in 0..0 |-> Untouched] = G([k \in 0..0 |-> Untouched], 0)
    OBVIOUS
  <2> QED BY <2>1
<1>3. ASSUME NEW n \in Nat, n \in S
      PROVE  n + 1 \in S
  <2>1. PICK d : d = G(d, n)
    BY <1>3
  <2> DEFINE e == [k \in 0..n + 1 |-> IF k = n + 1 THEN CopyNext(i, d[n], n + 1) ELSE d[k]]
  <2>2. ASSUME NEW k \in 0..n + 1
        PROVE  e[k] = IF k = 0 THEN Untouched ELSE CopyNext(i, e[k - 1], k)
    <3>1. CASE k = 0
      BY <2>1, <3>1
    <3>2. CASE k \in 1..n
      <4>1. e[k] = d[k] /\ e[k - 1] = d[k - 1]
        BY <3>2
      <4>2. d[k] = CopyNext(i, d[k - 1], k)
        BY <2>1, <3>2
      <4> QED BY <3>2, <4>1, <4>2
    <3>3. CASE k = n + 1
      <4>1. e[k] = CopyNext(i, d[n], n + 1) /\ e[k - 1] = d[n]
        BY <3>3
      <4> QED BY <3>3, <4>1
    <3> QED BY <3>1, <3>2, <3>3
  <2> HIDE DEF e
  <2>3. e = [k \in 0..n + 1 |-> e[k]]
    BY DEF e
  <2>4. e = G(e, n + 1)
    BY <2>2, <2>3
  <2> QED BY <2>4
<1>4. Len(Published) \in S
  BY <1>1, <1>2, <1>3, Induction
<1> DEFINE done == CHOOSE d : d = G(d, Len(Published))
<1>5. done = G(done, Len(Published))
  BY <1>4
<1>6. Copied(i) = done[Len(Published)]
  BY DEF Copied, CopyNext, Untouched
<1> HIDE DEF done
<1>7. done[0] = Untouched /\ \A k \in 1..Len(Published) : done[k] = CopyNext(i, done[k - 1], k)
  BY <1>1, <1>5
<1> QED BY <1>6, <1>7

\* The free name is free, and it is the name itself if that is free.
LEMMA FreeName ==
    ASSUME NEW s \in Source, NEW q \in [Stem -> Brief \cup {NoBrief}], FreeStem(q, s) \in Stem
    PROVE  /\ FreeStem(q, s)[1] = NameOf[s] /\ q[FreeStem(q, s)] = NoBrief
           /\ First(s) \in Stem
           /\ q[First(s)] = NoBrief => FreeStem(q, s) = First(s)
<1> DEFINE free == {n \in 1..(MaxNumber + 1) :
                      <<NameOf[s], n>> \in Stem => q[<<NameOf[s], n>>] = NoBrief}
           n == CHOOSE n \in free : \A k \in free : n <= k
<1>1. MaxNumber \in Nat
  BY ImportConstants
<1>2. <<NameOf[s], MaxNumber + 1>> \notin Stem
  BY <1>1 DEF Stem
<1>3. MaxNumber + 1 \in free /\ free \subseteq Nat
  BY <1>1, <1>2
<1>4. \E m \in free : \A k \in free : m <= k
  BY <1>3, Least, Zenon
<1>5. n \in free /\ \A k \in free : n <= k
  BY <1>4, Zenon
<1>6. FreeStem(q, s) = <<NameOf[s], n>>
  BY DEF FreeStem
<1> HIDE DEF n
<1>7. First(s) \in Stem
  BY <1>1, <1>6 DEF Stem, First
<1>8. q[First(s)] = NoBrief => n = 1
  <2>1. ASSUME q[First(s)] = NoBrief PROVE 1 \in free
    BY <1>1, <2>1 DEF First
  <2> QED BY <1>5, <2>1
<1> QED BY <1>5, <1>6, <1>7, <1>8 DEF First

\* What a batch writes, and the brief it writes.
Todo(i) == {s \in DOMAIN importer[i].entries :
              ~importer[i].entries[s].duplicate /\ ~importer[i].entries[s].started}
Copy1(i, s) == [src |-> s, text |-> inbox[s], stamped |-> i = "auto"]

\* After k published sources: old briefs are where they were, or went to an update that
\* nobody works on; each source that is copied has one new brief, the first of a name the
\* name itself.
Batch(i, acc, k) ==
    /\ acc.queue \in [Stem -> Brief \cup {NoBrief}]
    /\ \A t \in Stem \ acc.written : acc.queue[t] = queue[t]
    /\ \A t \in acc.written :
         /\ \E m \in 1..k : /\ Published[m] \in Todo(i) /\ NameOf[Published[m]] = t[1]
                            /\ acc.queue[t] = Copy1(i, Published[m])
                            /\ t[2] = 1 \/ \E j \in 1..(m - 1) : Published[j] \in Todo(i)
                                                                 /\ NameOf[Published[j]] = t[1]
         /\ queue[t] # NoBrief =>
              /\ t = <<t[1], 1>> /\ t \notin started
              /\ <<queue[t].src, queue[t].text.v>> \in acc.over
    /\ \A t, u \in acc.written : acc.queue[t].src = acc.queue[u].src => t = u
    /\ \A m \in 1..k : Published[m] \in Todo(i) =>
         /\ First(Published[m]) \in acc.written
         /\ \E t \in acc.written : acc.queue[t] = Copy1(i, Published[m])

\* Nothing written is taken back.
LEMMA BatchGrows ==
    ASSUME NEW i, NEW acc, NEW k
    PROVE  acc.written \subseteq CopyNext(i, acc, k).written
BY DEF CopyNext, CopyOne

\* A copy is a brief of its source.
LEMMA CopyIsBrief ==
    ASSUME NEW i, NEW s \in Source, inbox[s] \in Text
    PROVE  /\ Copy1(i, s) \in Brief /\ Copy1(i, s) # NoBrief
           /\ Copy1(i, s).src = s /\ Copy1(i, s).text = inbox[s]
           /\ Copy1(i, s).stamped <=> i = "auto"
<1>1. Copy1(i, s) \in Brief
  BY DEF Copy1, Brief
<1> DEFINE b == i = "auto"
<1>2. Copy1(i, s) = [src |-> s, text |-> inbox[s], stamped |-> b]
  BY DEF Copy1
<1>3. b <=> i = "auto"
  OBVIOUS
<1> HIDE DEF b
<1> QED BY <1>1, <1>2, <1>3, NothingIsNothing

\* One more source.  The first brief of a name goes to the name itself: over the task the
\* scan found there, or to where the scan found none.
LEMMA BatchStep ==
    ASSUME Shape, Scanned, NEW i \in Importer, importer[i].pc = "copy",
           NEW k \in 1..Len(Published), NEW acc, Batch(i, acc, k - 1),
           CopyNext(i, acc, k).written \subseteq Stem
    PROVE  Batch(i, CopyNext(i, acc, k), k)
<1> DEFINE s == Published[k]
           e == importer[i].entries[s]
           new == CopyNext(i, acc, k)
<1>1. /\ Len(Published) \in Nat /\ DOMAIN Published = 1..Len(Published)
      /\ \A m \in 1..Len(Published) : Published[m] \in Source
      /\ \A j, m \in 1..Len(Published) : Published[j] = Published[m] => j = m
  BY ImportConstants
<1>2. acc.written \subseteq Stem
  BY BatchGrows
<1>3. CASE s \notin Todo(i)
  <2>1. new = acc
    BY <1>3 DEF CopyNext, CopyOne, Todo
  <2>2. k - 1 \in Nat /\ \A m \in 1..k : m = k \/ m \in 1..(k - 1)
    BY <1>1
  <2>3. \A m \in 1..(k - 1) : m \in 1..k
    BY <1>1
  <2> HIDE DEF new, s
  <2>4. \A m \in 1..k : Published[m] \in Todo(i) => m \in 1..(k - 1)
    BY <1>3, <2>2 DEF s
  <2> QED BY <2>1, <2>3, <2>4 DEF Batch, new
<1>4. CASE s \in Todo(i)
  <2> DEFINE stem == First(s)
             replaced == e.replaces /\ stem \notin acc.written /\ acc.queue[stem] # NoBrief
             dest == IF replaced THEN stem ELSE FreeStem(acc.queue, s)
             b == Copy1(i, s)
  <2>1. s \in Source /\ s \in DOMAIN importer[i].entries /\ ~e.duplicate /\ ~e.started
    BY <1>1, <1>4 DEF Todo
  <2>2. /\ inbox[s] # NoText /\ e.text = inbox[s]
        /\ e.replaces => stem \notin started
        /\ ~e.replaces /\ stem \in Stem => queue[stem] = NoBrief
    BY <2>1 DEF Scanned
  <2>3. b \in Brief /\ b # NoBrief /\ b.src = s
    BY <2>1, <2>2, CopyIsBrief DEF Shape
  <2>4. /\ new.queue = [acc.queue EXCEPT ![dest] = b]
        /\ new.written = acc.written \cup {dest}
        /\ new.over = IF replaced
                      THEN acc.over \cup {<<acc.queue[dest].src, acc.queue[dest].text.v>>}
                      ELSE acc.over
    BY <2>1, <2>2 DEF CopyNext, CopyOne, Copy1, First
  <2>5. acc.queue \in [Stem -> Brief \cup {NoBrief}] /\ dest \in Stem
    BY <2>4 DEF Batch
  <2> HIDE DEF new, e
  <2>6. \A t \in acc.written : t \in Stem /\ acc.queue[t] \in Brief /\ acc.queue[t] # NoBrief
    <3>1. ASSUME NEW t \in acc.written PROVE acc.queue[t] # NoBrief
      <4>1. PICK m \in 1..(k - 1) : Published[m] \in Todo(i) /\ acc.queue[t] = Copy1(i, Published[m])
        BY DEF Batch
      <4>2. Published[m] \in DOMAIN importer[i].entries
        BY <4>1 DEF Todo
      <4>3. Published[m] \in Source
        BY <1>1
      <4>4. inbox[Published[m]] # NoText
        BY <4>2 DEF Scanned
      <4>5. Copy1(i, Published[m]) \in Brief
        BY <4>3, <4>4 DEF Copy1, Brief, Shape
      <4> QED BY <4>1, <4>5, NothingIsNothing
    <3> QED BY <3>1, <1>2, <2>5
  <2>7. stem \in Stem /\ dest[1] = NameOf[s]
    BY <2>1, <2>5, FreeName DEF First
  <2>8. /\ dest \notin acc.written /\ (dest = stem \/ stem \in acc.written)
        /\ acc.over \subseteq new.over
        /\ queue[dest] # NoBrief => /\ dest = stem /\ dest \notin started
                                    /\ <<queue[dest].src, queue[dest].text.v>> \in new.over
    <3>1. CASE replaced
      <4>1. dest = stem /\ stem \notin acc.written
        BY <3>1
      <4>2. acc.queue[stem] = queue[stem] /\ stem \notin started
        BY <2>2, <2>7, <3>1, <4>1 DEF Batch
      <4>3. new.over = acc.over \cup {<<acc.queue[dest].src, acc.queue[dest].text.v>>}
        BY <2>4, <3>1
      <4> HIDE DEF dest, stem
      <4> QED BY <4>1, <4>2, <4>3
    <3>2. CASE ~replaced
      <4>1. dest = FreeStem(acc.queue, s)
        BY <3>2
      <4>2. acc.queue[dest] = NoBrief /\ (acc.queue[stem] = NoBrief => dest = stem)
        BY <2>1, <2>5, <4>1, FreeName
      <4>3. dest \notin acc.written
        BY <2>6, <4>2
      <4>4. queue[dest] = NoBrief
        BY <2>5, <4>2, <4>3 DEF Batch
      <4>5. ASSUME stem \notin acc.written, acc.queue[stem] # NoBrief PROVE FALSE
        <5>1. ~e.replaces
          BY <3>2, <4>5
        <5>2. acc.queue[stem] = queue[stem]
          BY <2>7, <4>5 DEF Batch
        <5> QED BY <2>2, <2>7, <4>5, <5>1, <5>2
      <4>6. new.over = acc.over
        BY <2>4, <3>2
      <4> HIDE DEF dest, stem, replaced
      <4> QED BY <4>2, <4>3, <4>4, <4>5, <4>6
    <3> QED BY <3>1, <3>2
  <2>9. stem = <<NameOf[s], 1>>
    BY DEF First
  <2> HIDE DEF dest, stem, b, replaced
  <2>10. /\ new.queue \in [Stem -> Brief \cup {NoBrief}]
         /\ new.queue[dest] = b
         /\ \A t \in Stem \ {dest} : new.queue[t] = acc.queue[t]
    BY <2>3, <2>4, <2>5
  <2>11. \A t \in Stem \ new.written : new.queue[t] = queue[t]
    BY <2>4, <2>10 DEF Batch
  <2>12. \A t \in acc.written : t \in Stem \ {dest} /\ new.queue[t] = acc.queue[t]
    BY <2>6, <2>8, <2>10
  <2>13. ASSUME NEW t \in new.written
         PROVE  /\ \E m \in 1..k :
                     /\ Published[m] \in Todo(i) /\ NameOf[Published[m]] = t[1]
                     /\ new.queue[t] = Copy1(i, Published[m])
                     /\ t[2] = 1 \/ \E j \in 1..(m - 1) : Published[j] \in Todo(i)
                                                          /\ NameOf[Published[j]] = t[1]
                /\ queue[t] # NoBrief => /\ t = <<t[1], 1>> /\ t \notin started
                                         /\ <<queue[t].src, queue[t].text.v>> \in new.over
    <3>1. CASE t \in acc.written
      <4>1. PICK m \in 1..(k - 1) :
                     /\ Published[m] \in Todo(i) /\ NameOf[Published[m]] = t[1]
                     /\ acc.queue[t] = Copy1(i, Published[m])
                     /\ t[2] = 1 \/ \E j \in 1..(m - 1) : Published[j] \in Todo(i)
                                                          /\ NameOf[Published[j]] = t[1]
        BY <3>1 DEF Batch
      <4>2. m \in 1..k
        BY <1>1
      <4>3. queue[t] # NoBrief => /\ t = <<t[1], 1>> /\ t \notin started
                                  /\ <<queue[t].src, queue[t].text.v>> \in acc.over
        BY <3>1 DEF Batch
      <4> QED BY <2>8, <2>12, <3>1, <4>1, <4>2, <4>3
    <3>2. CASE t = dest
      <4>1. k \in 1..k /\ s = Published[k]
        BY <1>1
      <4>2. dest[2] = 1 \/ \E j \in 1..(k - 1) : Published[j] \in Todo(i)
                                                  /\ NameOf[Published[j]] = dest[1]
        <5>1. CASE dest = stem
          BY <2>9, <5>1
        <5>2. CASE stem \in acc.written
          <6>1. PICK m \in 1..(k - 1) : Published[m] \in Todo(i) /\ NameOf[Published[m]] = stem[1]
            BY <5>2 DEF Batch
          <6> QED BY <2>7, <2>9, <6>1
        <5> QED BY <2>8, <5>1, <5>2
      <4>3. dest = stem => dest = <<dest[1], 1>>
        BY <2>7, <2>9
      <4>4. new.queue[t] = Copy1(i, Published[k]) /\ NameOf[Published[k]] = t[1]
        BY <2>7, <2>10, <3>2 DEF b
      <4> HIDE DEF s
      <4> QED BY <1>4, <2>8, <3>2, <4>1, <4>2, <4>3, <4>4
    <3> QED BY <2>4, <3>1, <3>2
  <2>14. \A t, u \in new.written : new.queue[t].src = new.queue[u].src => t = u
    <3>1. ASSUME NEW t \in acc.written PROVE acc.queue[t].src # s
      <4>1. PICK m \in 1..(k - 1) : Published[m] \in Todo(i) /\ acc.queue[t] = Copy1(i, Published[m])
        BY <3>1 DEF Batch
      <4>2. m \in 1..Len(Published) /\ m # k /\ Published[m] \in Source
        BY <1>1
      <4>3. inbox[Published[m]] \in Text
        <5>1. Published[m] \in DOMAIN importer[i].entries
          BY <4>1 DEF Todo
        <5>2. inbox[Published[m]] # NoText
          BY <5>1 DEF Scanned
        <5> QED BY <4>2, <5>2 DEF Shape
      <4>4. acc.queue[t].src = Published[m]
        BY <4>1, <4>2, <4>3, CopyIsBrief
      <4> QED BY <1>1, <4>2, <4>4
    <3> HIDE DEF s
    <3> QED BY <2>3, <2>4, <2>10, <2>12, <3>1 DEF Batch
  <2>15. ASSUME NEW m \in 1..k, Published[m] \in Todo(i)
         PROVE  /\ First(Published[m]) \in new.written
                /\ \E t \in new.written : new.queue[t] = Copy1(i, Published[m])
    <3>1. CASE m = k
      <4>1. Published[m] = s /\ stem = First(s) /\ b = Copy1(i, s)
        BY <3>1 DEF stem, b
      <4>2. dest \in new.written /\ stem \in new.written
        BY <2>4, <2>8
      <4> HIDE DEF s
      <4> QED BY <2>10, <4>1, <4>2
    <3>2. CASE m # k
      <4>1. m \in 1..(k - 1)
        BY <1>1, <3>2
      <4>2. /\ First(Published[m]) \in acc.written
            /\ \E t \in acc.written : acc.queue[t] = Copy1(i, Published[m])
        BY <2>15, <4>1 DEF Batch
      <4> QED BY <2>4, <2>12, <4>2
    <3> QED BY <3>1, <3>2
  <2> QED BY <2>10, <2>11, <2>13, <2>14, <2>15 DEF Batch, new
<1> QED BY <1>3, <1>4

\* What a copy leaves.
LEMMA BatchDone ==
    ASSUME Shape, Scanned, NEW i \in Importer, importer[i].pc = "copy",
           Copied(i).written \subseteq Stem
    PROVE  Batch(i, Copied(i), Len(Published))
<1>1. PICK done : /\ done[0] = Untouched
                  /\ \A k \in 1..Len(Published) : done[k] = CopyNext(i, done[k - 1], k)
                  /\ Copied(i) = done[Len(Published)]
  BY CopySteps
<1> DEFINE S == {k \in Nat : k <= Len(Published) /\ done[k].written \subseteq Stem =>
                               Batch(i, done[k], k)}
<1>2. Len(Published) \in Nat
  BY ImportConstants
<1>3. 0 \in S
  <2>1. Batch(i, Untouched, 0)
    BY DEF Batch, Untouched, Shape
  <2> QED BY <1>1, <2>1
<1>4. ASSUME NEW k \in Nat, k \in S PROVE k + 1 \in S
  <2>1. SUFFICES ASSUME k + 1 <= Len(Published), done[k + 1].written \subseteq Stem
                 PROVE  Batch(i, done[k + 1], k + 1)
    OBVIOUS
  <2>2. k + 1 \in 1..Len(Published) /\ (k + 1) - 1 = k /\ k <= Len(Published)
    BY <1>2, <2>1
  <2>3. done[k + 1] = CopyNext(i, done[k], k + 1)
    BY <1>1, <2>2
  <2>4. done[k].written \subseteq Stem
    BY <2>1, <2>3, BatchGrows
  <2>5. Batch(i, done[k], k)
    BY <1>4, <2>2, <2>4
  <2> QED BY <2>1, <2>2, <2>3, <2>5, BatchStep
<1>5. Len(Published) \in S
  BY <1>2, <1>3, <1>4, Induction
<1> QED BY <1>1, <1>2, <1>5

-----------------------------------------------------------------------------
(* The steps                                                               *)

\* What needs its source no more never needs it again.
Kept == \A s, v : Safe(s, v) => Safe(s, v)'

\* Briefs leave the queue, none comes.
Shrinks == \A t \in Stem : queue'[t] = queue[t] \/ queue'[t] = NoBrief

LEMMA RestingShape == Resting \in Importing /\ Resting.pc = "idle" /\ Resting.entries = <<>>
<1>1. <<>> \in [{} -> [text : Text, duplicate : BOOLEAN, replaces : BOOLEAN, started : BOOLEAN]]
  OBVIOUS
<1>2. {} \in SUBSET Source
  OBVIOUS
<1>3. <<>> \in Taken
  BY <1>1, <1>2 DEF Taken
<1> QED BY <1>3 DEF Resting, Importing

\* A task that runs, ends or begins while nobody imports disturbs no import.
LEMMA TaskStep ==
    ASSUME IInv, UNCHANGED <<published, importer>>, Shape', Running', Kept, Shrinks,
           Quiet \/ started' = started
    PROVE  IInv'
<1> USE DEF published
<1>1. \A t \in Queued' : t \in Queued /\ queue'[t] = queue[t]
  BY DEF Queued, Shrinks
<1>2. \A s, b : NoCopy(s, b) => NoCopy(s, b)'
  BY <1>1 DEF NoCopy
<1>3. Alternate'
  BY DEF IInv, Alternate, Quiet
<1>4. Scanned'
  <2>1. CASE Quiet
    BY <2>1 DEF Scanned, Quiet
  <2>2. CASE started' = started
    BY <1>2, <2>2 DEF IInv, Known, Scanned, Kept, Shrinks
  <2> QED BY <2>1, <2>2
<1>5. Removable'
  BY <1>2 DEF IInv, Known, Removable, Kept
<1>6. NeverLost'
  BY DEF IInv, Known, NeverLost, Kept, Safe
<1>7. Numbered' /\ Verbatim'
  BY <1>1 DEF IInv, Copies, Numbered, Verbatim
<1>8. HoldsFirst => NoTwin'
  BY <1>1 DEF IInv, Copies, NoTwin
<1> QED BY <1>3, <1>4, <1>5, <1>6, <1>7, <1>8 DEF IInv, Known, Copies, HoldsFirst

LEMMA LeaseStep ==
    ASSUME IInv, ~Overlap, NEW t \in Stem, Lease(t)
    PROVE  IInv'
<1> USE DEF Lease, published, store
<1>1. queue[t] \in Brief
  BY DEF IInv, Shape
<1>2. <<queue[t].src, queue[t].text.v>> \in Source \X Nat
  BY <1>1 DEF Brief, Text
<1>3. Shape'
  BY <1>2 DEF IInv, Shape, Queued
<1>4. Running'
  BY DEF IInv, Known, Running, Shape
<1>5. Kept /\ Shrinks
  BY DEF Kept, Shrinks, Safe, Queued
<1> QED BY <1>3, <1>4, <1>5, TaskStep

LEMMA LandStep ==
    ASSUME IInv, NEW t \in Stem, Land(t)
    PROVE  IInv'
<1> USE DEF Land, published
<1>1. /\ queue' = [queue EXCEPT ![t] = NoBrief] /\ Shrinks
      /\ \A u \in Queued' : u \in Queued /\ queue'[u] = queue[u]
  BY DEF IInv, Shape, Shrinks, Queued
<1>2. Shape'
  BY <1>1 DEF IInv, Shape
<1>3. Running'
  BY DEF IInv, Known, Running, Shape
<1>4. Kept
  <2>1. SUFFICES ASSUME NEW s, NEW v, NEW u \in Queued, queue[u].src = s, queue[u].text.v = v
                 PROVE  Safe(s, v)'
    BY DEF Kept, Safe
  <2>2. CASE u = t
    BY <2>1, <2>2 DEF IInv, Known, Running, Safe, Queued
  <2>3. CASE u # t
    <3>1. u \in Queued' /\ queue'[u] = queue[u]
      BY <2>3 DEF IInv, Shape, Queued
    <3> QED BY <2>1, <3>1 DEF Safe
  <2> QED BY <2>2, <2>3
<1> QED BY <1>1, <1>2, <1>3, <1>4, TaskStep

LEMMA FailsStep ==
    ASSUME IInv, NEW t \in Stem, Fails(t)
    PROVE  IInv'
<1> USE DEF Fails, published, store
<1>1. Shape'
  BY DEF IInv, Shape, Queued
<1>2. Running'
  BY DEF IInv, Known, Running, Shape
<1>3. Kept /\ Shrinks
  BY DEF Kept, Shrinks, Safe, Queued
<1> QED BY <1>1, <1>2, <1>3, TaskStep

\* The publisher acts between imports.
LEMMA PublishStep ==
    ASSUME IInv, ~Overlap, NEW s \in Source, NEW q \in BOOLEAN, q => s \in Quarantinable,
           Publish(s, q)
    PROVE  IInv'
<1> DEFINE text == [v |-> version[s] + 1, disabled |-> FALSE, quarantined |-> q]
<1>1. text \in Text /\ text.v = version[s] + 1 /\ text.quarantined = q
  BY DEF IInv, Shape, Text
<1>2. inbox' = [inbox EXCEPT ![s] = text] /\ version' = [version EXCEPT ![s] = version[s] + 1]
  BY DEF IInv, Shape, Publish
<1>a. withdrawn' = IF inbox[s] = NoText THEN withdrawn ELSE withdrawn \cup {<<s, inbox[s].v>>}
  BY DEF Publish
<1>3. /\ UNCHANGED <<queue, order, started, running, ran, importer>> /\ Queued' = Queued
      /\ \A i \in Importer : importer[i].pc = "idle"
  BY DEF Queued, Quiet, Publish, store, tasks
<1> HIDE DEF text
<1>4. text # NoText
  BY <1>1, NothingIsNothing DEF IInv, Shape
<1>5. Shape'
  <2>1. version' \in [Source -> Nat] /\ \A u \in Source : version[u] <= version'[u]
    BY <1>2 DEF IInv, Shape
  <2>2. /\ inbox' \in [Source -> Text \cup {NoText}]
        /\ \A u \in Source : inbox'[u] # NoText =>
             inbox'[u].v = version'[u] /\ (inbox'[u].quarantined => u \in Quarantinable)
    BY <1>1, <1>2 DEF IInv, Shape
  <2>3. ASSUME NEW t \in Queued PROVE queue[t].text.v <= version'[queue[t].src]
    <3>1. queue[t] \in Brief
      BY DEF IInv, Shape, Queued
    <3>2. queue[t].text.v \in Nat /\ queue[t].text.v <= version[queue[t].src] /\ queue[t].src \in Source
      BY <3>1 DEF IInv, Shape, Brief, Text
    <3> QED BY <2>1, <3>2 DEF IInv, Shape
  <2> QED BY <1>3, <2>1, <2>2, <2>3 DEF IInv, Shape
<1>6. Alternate' /\ Running' /\ Scanned' /\ Removable' /\ Numbered' /\ (HoldsFirst => NoTwin')
  <2>1. Alternate' /\ Running'
    BY <1>3 DEF IInv, Known, Alternate, Running
  <2>2. Scanned' /\ Removable'
    BY <1>3 DEF Scanned, Removable
  <2>3. Numbered' /\ (HoldsFirst => NoTwin')
    BY <1>3 DEF IInv, Copies, Numbered, NoTwin
  <2> QED BY <2>1, <2>2, <2>3
<1>7. NeverLost'
  <2>1. ASSUME NEW u \in Source, NEW v \in 1..version'[u] PROVE inbox'[u].v = v \/ Safe(u, v)'
    <3>1. CASE u = s /\ v = version[s] + 1
      BY <1>1, <1>2, <3>1 DEF IInv, Shape
    <3>2. CASE ~(u = s /\ v = version[s] + 1)
      <4>1. v \in 1..version[u]
        BY <1>2, <3>2 DEF IInv, Shape
      <4>2. inbox[u].v = v \/ Safe(u, v)
        BY <4>1 DEF IInv, Known, NeverLost, Safe
      <4>3. Safe(u, v) => Safe(u, v)'
        BY <1>3, <1>a DEF Safe
      <4>4. ASSUME inbox[u].v = v, u = s PROVE <<u, v>> \in withdrawn'
        <5>1. inbox[s] # NoText
          BY <4>1, <4>4, NothingIsNothing
        <5> QED BY <1>a, <4>4, <5>1
      <4> QED BY <1>2, <4>2, <4>3, <4>4 DEF Safe, IInv, Shape
    <3> QED BY <3>1, <3>2
  <2> QED BY <2>1 DEF NeverLost, Safe
<1>8. Verbatim'
  <2>1. ASSUME NEW t \in Queued, queue[t].src = s PROVE queue[t].text.v # text.v
    <3>1. queue[t] \in Brief
      BY DEF IInv, Shape, Queued
    <3>2. queue[t].text.v \in Nat /\ queue[t].text.v <= version[s] /\ version[s] \in Nat
      BY <2>1, <3>1 DEF IInv, Shape, Brief, Text
    <3> QED BY <1>1, <3>2
  <2> QED BY <1>2, <1>3, <2>1 DEF IInv, Copies, Verbatim, Shape, Brief
<1> QED BY <1>5, <1>6, <1>7, <1>8 DEF IInv, Known, Copies, HoldsFirst

LEMMA ClearHoldStep ==
    ASSUME IInv, ~Overlap, NEW s \in Source, ClearHold(s)
    PROVE  IInv'
<1> USE DEF ClearHold, store, tasks, ends
<1> DEFINE text == [inbox[s] EXCEPT !.quarantined = FALSE]
<1>1. inbox[s] \in Text
  BY DEF IInv, Shape
<1>2. /\ text \in Text /\ text.v = inbox[s].v /\ text.quarantined = FALSE
      /\ inbox' = [inbox EXCEPT ![s] = text]
  BY <1>1 DEF Text
<1> HIDE DEF text
<1>3. Queued' = Queued /\ \A i \in Importer : importer[i].pc = "idle"
  BY DEF Queued, Quiet
<1>4. Shape'
  BY <1>1, <1>2, <1>3 DEF IInv, Shape
<1>5. Alternate' /\ Running' /\ Scanned' /\ Removable' /\ Numbered' /\ (HoldsFirst => NoTwin')
  BY <1>3 DEF IInv, Known, Copies, Alternate, Running, Scanned, Removable, Numbered, NoTwin
<1>6. NeverLost'
  BY <1>2, <1>3 DEF IInv, Known, NeverLost, Shape
<1>7. Verbatim'
  <2>1. s \in Quarantinable /\ inbox[s].quarantined
    BY DEF IInv, Shape
  <2>2. ASSUME NEW t \in Queued, queue[t].src = s, queue[t].text.v = inbox[s].v
        PROVE  ~queue[t].stamped
    BY <2>1, <2>2 DEF IInv, Copies, Verbatim
  <2> QED BY <1>2, <1>3, <2>1, <2>2 DEF IInv, Copies, Verbatim, Shape, Brief
<1> QED BY <1>4, <1>5, <1>6, <1>7 DEF IInv, Known, Copies, HoldsFirst

\* An import that begins, scans nothing or dies.
LEMMA ReadStartedStep ==
    ASSUME IInv, ~Overlap, NEW i \in Importer, ReadStarted(i)
    PROVE  IInv'
<1> USE DEF ReadStarted, published, store, tasks, ends, At
<1> DEFINE b == [Resting EXCEPT !.pc = "begun", !.begun = started]
<1>1. b \in Importing /\ b.pc = "begun" /\ b.begun = started
  BY RestingShape DEF IInv, Shape, Importing
<1>2. importer' = [importer EXCEPT ![i] = b] /\ \A j \in Importer : importer[j].pc = "idle"
  BY DEF Alone
<1> HIDE DEF b
<1>3. Queued' = Queued
  BY DEF Queued
<1>4. Shape' /\ Alternate'
  BY <1>1, <1>2, <1>3 DEF IInv, Shape, Alternate
<1>5. Scanned' /\ Removable'
  BY <1>1, <1>2, <1>4 DEF Scanned, Removable, IInv, Shape
<1>6. Running' /\ NeverLost' /\ Copies'
  BY <1>3 DEF IInv, Known, Copies, Running, NeverLost, Numbered, Verbatim, NoTwin, HoldsFirst
<1> QED BY <1>4, <1>5, <1>6 DEF IInv, Known

LEMMA CrashStep ==
    ASSUME IInv, Crash
    PROVE  IInv'
<1> USE DEF Crash, published, store, tasks
<1>1. Queued' = Queued /\ \A i \in Importer : importer'[i] = Resting
  BY DEF Queued
<1>2. Shape' /\ Alternate' /\ Scanned' /\ Removable'
  BY <1>1, RestingShape DEF IInv, Shape, Alternate, Scanned, Removable
<1>3. Running' /\ NeverLost' /\ Copies'
  BY <1>1 DEF IInv, Known, Copies, Running, NeverLost, Numbered, Verbatim, NoTwin, HoldsFirst
<1> QED BY <1>2, <1>3 DEF IInv, Known

\* A step of an import that changes nothing else.
LEMMA ImporterStep ==
    ASSUME IInv, UNCHANGED <<published, store, tasks>>, Shape', Alternate', Scanned', Removable'
    PROVE  IInv'
<1> USE DEF published, store, tasks
<1>1. Queued' = Queued
  BY DEF Queued
<1>2. Running' /\ NeverLost' /\ Copies'
  BY <1>1 DEF IInv, Known, Copies, Running, NeverLost, Numbered, Verbatim, NoTwin, HoldsFirst
<1> QED BY <1>2 DEF IInv, Known

\* What an entry says.
LEMMA EntryParts ==
    ASSUME NEW s \in Source, inbox[s] \in Text
    PROVE  LET e == Entry(s, started)
           IN /\ e \in [text : Text, duplicate : BOOLEAN, replaces : BOOLEAN, started : BOOLEAN]
              /\ e.text = inbox[s]
              /\ e.duplicate <=> \E t \in Queued : /\ ~queue[t].stamped
                                                   /\ queue[t].src = s /\ queue[t].text = inbox[s]
              /\ e.replaces <=> ~e.duplicate /\ First(s) \in Queued /\ First(s) \notin started
              /\ e.started <=> ~e.duplicate /\ First(s) \in Queued /\ First(s) \in started
<1> DEFINE d == \E t \in Queued : /\ ~queue[t].stamped
                                  /\ queue[t].src = s /\ queue[t].text = inbox[s]
           r == (~d /\ First(s) \in Queued) /\ First(s) \notin started
           b == (~d /\ First(s) \in Queued) /\ First(s) \in started
<1>1. Entry(s, started) = [text |-> inbox[s], duplicate |-> d, replaces |-> r, started |-> b]
  BY Zenon DEF Entry, First
<1>2. d \in BOOLEAN /\ r \in BOOLEAN /\ b \in BOOLEAN
  OBVIOUS
<1>3. /\ r <=> ~d /\ First(s) \in Queued /\ First(s) \notin started
      /\ b <=> ~d /\ First(s) \in Queued /\ First(s) \in started
  OBVIOUS
<1> DEFINE e == Entry(s, started)
<1> HIDE DEF r, b
<1>4. d <=> \E t \in Queued : ~queue[t].stamped /\ queue[t].src = s /\ queue[t].text = inbox[s]
  OBVIOUS
<1> HIDE DEF d
<1>5. e.text = inbox[s] /\ e.duplicate = d /\ e.replaces = r /\ e.started = b
  BY <1>1
<1>6. e \in [text : Text, duplicate : BOOLEAN, replaces : BOOLEAN, started : BOOLEAN]
  BY <1>1, <1>2
<1> HIDE DEF e
<1> QED BY <1>3, <1>4, <1>5, <1>6 DEF e

\* The guard against replays reads the one file that a source's own import can be in.
LEMMA ReplaySeen ==
    ASSUME Shape, Numbered, NEW s \in Source, ~IsReplay(s, inbox[s])
    PROVE  NoCopy(s, TRUE)
<1>1. SUFFICES ASSUME NEW t \in Queued, queue[t].src = s, queue[t].stamped,
                      queue[t].text = inbox[s]
               PROVE  FALSE
  BY DEF NoCopy, Shape, Queued, Brief
<1>2. ASSUME NEW u \in Stamped(s) PROVE u = First(s) /\ u[2] = 1
  <2>1. u \in Stem /\ u[1] = NameOf[s] /\ u[2] = 1
    BY DEF Stamped, Queued, Shape, Numbered
  <2> QED BY <2>1 DEF Stem, First
<1>3. t \in Stamped(s) /\ t = First(s)
  <2>1. t \in Stamped(s)
    BY <1>1 DEF Stamped
  <2> QED BY <1>2, <2>1
<1> DEFINE Last(x) == \A u \in Stamped(s) : x[2] = 1 \/ (u[2] # 1 /\ u[2] <= x[2])
           last == CHOOSE x \in Stamped(s) : Last(x)
<1>4. last \in Stamped(s)
  BY <1>2, <1>3
<1>5. PendingText(s) = queue[last].text
  BY DEF PendingText
<1> HIDE DEF last
<1>6. PendingText(s) = inbox[s]
  BY <1>1, <1>2, <1>3, <1>4, <1>5
<1> QED BY <1>3, <1>6 DEF IsReplay

LEMMA ScanStep ==
    ASSUME IInv, NEW i \in Importer, NEW picked, Scan(i, picked)
    PROVE  IInv'
<1> USE DEF At
<1> DEFINE here == {s \in Source : inbox[s] # NoText /\ s \in IF i = "auto" THEN Host ELSE picked}
           entries == [s \in here |-> Entry(s, importer[i].begun)]
           taken == {s \in here : i = "auto" => Fresh(s, entries[s])}
           f == [s \in taken |-> entries[s]]
           r == [importer[i] EXCEPT !.pc = "copy", !.entries = f]
<1>1. /\ importer[i].pc = "begun" /\ importer[i].begun = started
      /\ \A j \in Importer \ {i} : importer[j].pc = "idle"
  BY DEF Scan, IInv, Alternate
<1>2. UNCHANGED <<published, store, tasks>>
  BY DEF Scan
<1>3. Queued' = Queued
  BY <1>2 DEF Queued, store
<1>4. CASE taken = {}
  <2>1. importer' = [importer EXCEPT ![i] = Resting]
    BY <1>4 DEF Scan
  <2>2. Shape' /\ Alternate' /\ Scanned' /\ Removable'
    BY <1>1, <1>2, <1>3, <2>1, RestingShape
       DEF IInv, Shape, Alternate, Scanned, Removable, published, store, tasks
  <2> QED BY <1>2, <2>2, ImporterStep
<1>5. CASE taken # {}
  <2>1. importer' = [importer EXCEPT ![i] = r]
    BY <1>5 DEF Scan
  <2>2. /\ taken \subseteq Source /\ DOMAIN f = taken
        /\ \A s \in taken : f[s] = Entry(s, started) /\ inbox[s] \in Text
        /\ i = "auto" => \A s \in taken : s \in Host /\ Fresh(s, f[s])
    BY <1>1 DEF IInv, Shape
  <2>3. f \in [taken -> [text : Text, duplicate : BOOLEAN, replaces : BOOLEAN,
                         started : BOOLEAN]]
    BY <2>2, EntryParts
  <2> HIDE DEF f, taken
  <2>4. f \in Taken
    BY <2>2, <2>3 DEF Taken
  <2>5. r \in Importing /\ r.pc = "copy" /\ r.begun = started /\ r.entries = f
    BY <1>1, <2>4 DEF IInv, Shape, Importing
  <2> HIDE DEF r
  <2>6. Shape' /\ Alternate' /\ Removable'
    BY <1>1, <1>2, <1>3, <2>1, <2>5
       DEF IInv, Shape, Alternate, Removable, published, store, tasks
  <2>7. ASSUME NEW s \in taken
        PROVE  LET e == f[s]
               IN /\ inbox[s] # NoText /\ e.text = inbox[s]
                  /\ e.duplicate => Safe(s, inbox[s].v) /\ ~e.started
                  /\ e.replaces => First(s) \notin started
                  /\ ~(e.duplicate \/ e.replaces \/ e.started) /\ First(s) \in Stem =>
                       queue[First(s)] = NoBrief
                  /\ ~e.duplicate => NoCopy(s, FALSE)
                  /\ i = "auto" => /\ s \in Host /\ ~inbox[s].quarantined
                                   /\ e.started => ~inbox[s].disabled
                                   /\ NoCopy(s, TRUE)
    <3> DEFINE e == f[s]
    <3>1. /\ e.text = inbox[s]
          /\ e.duplicate <=> \E t \in Queued : /\ ~queue[t].stamped
                                               /\ queue[t].src = s /\ queue[t].text = inbox[s]
          /\ e.replaces <=> ~e.duplicate /\ First(s) \in Queued /\ First(s) \notin started
          /\ e.started <=> ~e.duplicate /\ First(s) \in Queued /\ First(s) \in started
      BY <2>2, EntryParts
    <3>2. inbox[s] # NoText
      BY <2>2, <2>7, NothingIsNothing DEF taken
    <3> HIDE DEF e
    <3>3. e.duplicate => Safe(s, inbox[s].v)
      BY <3>1 DEF Safe
    <3>4. ~e.duplicate => NoCopy(s, FALSE)
      BY <3>1 DEF NoCopy
    <3>5. ~(e.duplicate \/ e.replaces \/ e.started) /\ First(s) \in Stem =>
            queue[First(s)] = NoBrief
      BY <3>1 DEF Queued
    <3>6. i = "auto" => /\ s \in Host /\ ~inbox[s].quarantined
                        /\ e.started => ~inbox[s].disabled
                        /\ NoCopy(s, TRUE)
      BY <2>2, <2>7, <3>1, ReplaySeen DEF Fresh, e, IInv, Copies
    <3> QED BY <3>1, <3>2, <3>3, <3>4, <3>5, <3>6 DEF e
  <2>8. \A s, b : NoCopy(s, b) => NoCopy(s, b)'
    BY <1>2, <1>3 DEF NoCopy, published, store
  <2>9. \A s, v : Safe(s, v) => Safe(s, v)'
    BY <1>2, <1>3 DEF Safe, published, store, tasks
  <2>10. Scanned'
    <3>1. ASSUME NEW j \in Importer, importer'[j].pc = "copy" PROVE j = i /\ importer'[j] = r
      BY <1>1, <2>1, <3>1 DEF IInv, Shape
    <3>2. UNCHANGED <<inbox, queue, started>>
      BY <1>2 DEF published, store, tasks
    <3> QED BY <2>2, <2>5, <2>7, <2>8, <2>9, <3>1, <3>2 DEF Scanned
  <2> QED BY <1>2, <2>6, <2>10, ImporterStep
<1> QED BY <1>4, <1>5

LEMMA CopyStep ==
    ASSUME IInv, NEW i \in Importer, Copy(i)
    PROVE  IInv'
<1> USE DEF At
<1> DEFINE N == Len(Published)
           acc == Copied(i)
           written == acc.written
           r == [importer[i] EXCEPT !.pc = "remove"]
<1>1. /\ importer[i].pc = "copy" /\ written \subseteq Stem
      /\ queue' = acc.queue /\ withdrawn' = withdrawn \cup acc.over
      /\ importer' = [importer EXCEPT ![i] = r]
      /\ UNCHANGED <<inbox, version, tasks>>
  BY DEF Copy, IInv, Shape
<1>2. Batch(i, acc, N)
  BY <1>1, BatchDone DEF IInv, Known
<1>3. /\ N \in Nat /\ DOMAIN Published = 1..N
      /\ \A m \in 1..N : Published[m] \in Source
      /\ \A s \in Source : \E m \in 1..N : Published[m] = s
      /\ \A j, m \in 1..N : Published[j] = Published[m] => j = m
  BY ImportConstants
<1>4. /\ r \in Importing /\ r.pc = "remove" /\ r.begun = importer[i].begun
      /\ r.entries = importer[i].entries
  BY DEF IInv, Shape, Importing
<1>5. \A j \in Importer \ {i} : importer[j].pc = "idle"
  BY <1>1 DEF IInv, Alternate
<1> HIDE DEF acc, N, r
<1>6. ASSUME NEW s \in Todo(i)
      PROVE  /\ s \in Source /\ s \in DOMAIN importer[i].entries
             /\ inbox[s] \in Text /\ inbox[s] # NoText
             /\ Copy1(i, s) \in Brief /\ Copy1(i, s) # NoBrief
             /\ Copy1(i, s).src = s /\ Copy1(i, s).text = inbox[s]
             /\ Copy1(i, s).stamped <=> i = "auto"
             /\ NoCopy(s, FALSE)
             /\ i = "auto" => s \in Host /\ ~inbox[s].quarantined /\ NoCopy(s, TRUE)
  <2>1. s \in DOMAIN importer[i].entries /\ ~importer[i].entries[s].duplicate
    BY DEF Todo
  <2>2. importer[i].entries \in Taken
    BY DEF IInv, Shape, Importing
  <2>3. s \in Source
    BY <2>1, <2>2 DEF Taken
  <2>4. /\ inbox[s] # NoText /\ NoCopy(s, FALSE)
        /\ i = "auto" => s \in Host /\ ~inbox[s].quarantined /\ NoCopy(s, TRUE)
    BY <1>1, <2>1 DEF IInv, Known, Scanned
  <2>5. inbox[s] \in Text
    BY <2>3, <2>4 DEF IInv, Shape
  <2>6. /\ Copy1(i, s) \in Brief /\ Copy1(i, s) # NoBrief
        /\ Copy1(i, s).src = s /\ Copy1(i, s).text = inbox[s]
    BY <2>3, <2>5, CopyIsBrief
  <2>7. Copy1(i, s).stamped <=> i = "auto"
    BY <2>3, <2>5, CopyIsBrief, Zenon
  <2> QED BY <2>1, <2>3, <2>4, <2>5, <2>6, <2>7
<1>7. ASSUME NEW t \in written
      PROVE  /\ \E s \in Todo(i) :
                  /\ NameOf[s] = t[1] /\ queue'[t] = Copy1(i, s)
                  /\ \E m \in 1..N :
                       /\ Published[m] = s
                       /\ t[2] = 1 \/ \E j \in 1..(m - 1) : /\ Published[j] \in Todo(i)
                                                            /\ NameOf[Published[j]] = t[1]
             /\ queue[t] # NoBrief => /\ t = <<t[1], 1>> /\ t \notin started
                                      /\ <<queue[t].src, queue[t].text.v>> \in withdrawn'
  <2>1. PICK m \in 1..N :
          /\ Published[m] \in Todo(i) /\ NameOf[Published[m]] = t[1]
          /\ acc.queue[t] = Copy1(i, Published[m])
          /\ t[2] = 1 \/ \E j \in 1..(m - 1) : /\ Published[j] \in Todo(i)
                                               /\ NameOf[Published[j]] = t[1]
    BY <1>2 DEF Batch
  <2>2. queue[t] # NoBrief => /\ t = <<t[1], 1>> /\ t \notin started
                              /\ <<queue[t].src, queue[t].text.v>> \in withdrawn'
    BY <1>1, <1>2 DEF Batch
  <2> QED BY <1>1, <2>1, <2>2
<1>8. ASSUME NEW t \in written PROVE t \in Stem /\ queue'[t] \in Brief /\ t \in Queued'
  <2>1. PICK s \in Todo(i) : queue'[t] = Copy1(i, s)
    BY <1>7
  <2> QED BY <1>1, <1>6, <2>1 DEF Queued
<1>9. \A t \in Stem \ written : queue'[t] = queue[t]
  BY <1>1, <1>2 DEF Batch
<1>10. \A t, u \in written : queue'[t].src = queue'[u].src => t = u
  BY <1>1, <1>2 DEF Batch
<1>11. ASSUME NEW s \in Todo(i)
       PROVE  First(s) \in written /\ \E t \in written : queue'[t] = Copy1(i, s)
  <2>1. PICK m \in 1..N : Published[m] = s
    BY <1>3, <1>6
  <2> QED BY <1>1, <1>2, <2>1 DEF Batch
<1> HIDE DEF written
<1>12. \A t \in Queued' : t \in written \/ (t \in Queued /\ queue'[t] = queue[t])
  BY <1>9 DEF Queued
<1>13. Kept
  <2>1. SUFFICES ASSUME NEW s, NEW v, NEW t \in Queued, queue[t].src = s, queue[t].text.v = v
                 PROVE  Safe(s, v)'
    BY <1>1 DEF Kept, Safe, tasks
  <2>2. CASE t \in written
    BY <1>7, <2>1, <2>2 DEF Safe, Queued
  <2>3. CASE t \notin written
    BY <1>9, <2>1, <2>3 DEF Safe, Queued
  <2> QED BY <2>2, <2>3
<1>14. Shape'
  <2>1. queue' \in [Stem -> Brief \cup {NoBrief}]
    BY <1>1, <1>2 DEF Batch
  <2>2. ASSUME NEW t \in Queued'
        PROVE  NameOf[queue'[t].src] = t[1] /\ queue'[t].text.v <= version[queue'[t].src]
    <3>1. CASE t \in written
      <4>1. PICK s \in Todo(i) : NameOf[s] = t[1] /\ queue'[t] = Copy1(i, s)
        BY <1>7, <3>1
      <4>2. inbox[s].v = version[s] /\ version[s] \in Nat
        <5>1. s \in Source /\ inbox[s] # NoText
          BY <1>6
        <5> QED BY <5>1 DEF IInv, Shape
      <4>3. queue'[t].src = s /\ queue'[t].text.v = version[s]
        BY <1>6, <4>1, <4>2
      <4>4. version[s] <= version[s]
        BY <4>2
      <4> QED BY <4>1, <4>3, <4>4
    <3>2. CASE t \in Queued /\ queue'[t] = queue[t]
      BY <3>2 DEF IInv, Shape
    <3> QED BY <1>12, <3>1, <3>2
  <2> QED BY <1>1, <1>4, <2>1, <2>2 DEF IInv, Shape, tasks
<1>15. Alternate' /\ Scanned'
  BY <1>1, <1>4, <1>5 DEF IInv, Shape, Alternate, Scanned, tasks
<1>16. Running'
  <2>1. ASSUME NEW t \in Stem, running[t] # Idle PROVE t \notin written
    BY <1>7, <2>1 DEF IInv, Known, Running
  <2> QED BY <1>1, <1>9, <2>1 DEF IInv, Known, Running, tasks
<1>17. NeverLost'
  BY <1>1, <1>13 DEF IInv, Known, NeverLost, Kept, Safe
<1>18. Removable'
  <2>1. SUFFICES ASSUME NEW s \in DOMAIN importer[i].entries
                 PROVE  /\ inbox[s] # NoText
                        /\ ~importer[i].entries[s].started => Safe(s, inbox[s].v)'
                        /\ importer[i].entries[s].started =>
                             /\ NoCopy(s, FALSE)'
                             /\ i = "auto" => ~inbox[s].disabled /\ NoCopy(s, TRUE)'
    BY <1>1, <1>4, <1>5 DEF IInv, Shape, Removable
  <2>2. /\ inbox[s] # NoText
        /\ importer[i].entries[s].duplicate =>
             Safe(s, inbox[s].v) /\ ~importer[i].entries[s].started
        /\ importer[i].entries[s].started =>
             /\ NoCopy(s, FALSE)
             /\ i = "auto" => ~inbox[s].disabled /\ NoCopy(s, TRUE)
    BY <1>1, <2>1 DEF IInv, Known, Scanned
  <2>3. ASSUME s \in Todo(i) PROVE Safe(s, inbox[s].v)'
    <3>1. PICK t \in written : queue'[t] = Copy1(i, s)
      BY <1>11, <2>3
    <3>2. t \in Queued' /\ queue'[t].src = s /\ queue'[t].text.v = inbox'[s].v
      BY <1>1, <1>6, <1>8, <2>3, <3>1
    <3> QED BY <1>1, <3>2 DEF Safe
  <2>4. ASSUME importer[i].entries[s].started, NEW b, NoCopy(s, b) PROVE NoCopy(s, b)'
    <3>1. ASSUME NEW t \in written PROVE queue'[t].src # s
      <4>1. PICK u \in Todo(i) : queue'[t] = Copy1(i, u)
        BY <1>7, <3>1
      <4>2. u # s
        BY <2>4 DEF Todo
      <4> QED BY <1>6, <4>1, <4>2
    <3> QED BY <1>1, <1>12, <2>4, <3>1 DEF NoCopy
  <2>5. s \in Todo(i) \/ importer[i].entries[s].duplicate \/ importer[i].entries[s].started
    BY DEF Todo
  <2>6. Safe(s, inbox[s].v) => Safe(s, inbox[s].v)'
    BY <1>1, <1>13 DEF Kept
  <2> QED BY <2>2, <2>3, <2>4, <2>5, <2>6
<1>19. Numbered'
  <2>1. ASSUME NEW t \in written
        PROVE  /\ queue'[t].stamped => queue'[t].src \in Host /\ t[2] = 1
               /\ HoldsFirst /\ queue'[t].src \in Quarantinable => t[2] = 1
    <3>1. PICK s \in Todo(i), m \in 1..N :
              /\ NameOf[s] = t[1] /\ queue'[t] = Copy1(i, s) /\ Published[m] = s
              /\ t[2] = 1 \/ \E j \in 1..(m - 1) : Published[j] \in Todo(i)
                                                   /\ NameOf[Published[j]] = t[1]
      BY <1>7, <2>1
    <3>2. queue'[t].src = s /\ (queue'[t].stamped => i = "auto")
      BY <1>6, <3>1
    <3>3. ASSUME NEW j \in 1..(m - 1), Published[j] \in Todo(i), NameOf[Published[j]] = t[1],
                 i = "auto"
          PROVE  FALSE
      <4>1. j \in 1..N /\ j # m
        BY <1>3
      <4>2. Published[j] \in Host /\ s \in Host
        BY <1>6, <3>3
      <4>3. Published[j] = s
        BY <3>1, <3>3, <4>2, ImportConstants
      <4> QED BY <1>3, <3>1, <4>1, <4>3
    <3>4. ASSUME NEW j \in 1..(m - 1), NameOf[Published[j]] = t[1], HoldsFirst,
                 s \in Quarantinable
          PROVE  FALSE
      <4>1. j \in DOMAIN Published /\ m \in DOMAIN Published /\ j < m
        BY <1>3
      <4> QED BY <3>1, <3>4, <4>1 DEF HoldsFirst
    <3> QED BY <1>6, <3>1, <3>2, <3>3, <3>4
  <2> QED BY <1>12, <2>1 DEF IInv, Copies, Numbered, HoldsFirst
<1>20. Verbatim'
  <2>1. ASSUME NEW t \in written
        PROVE  /\ queue'[t].text = inbox[queue'[t].src]
               /\ queue'[t].stamped => ~inbox[queue'[t].src].quarantined
    <3>1. PICK s \in Todo(i) : queue'[t] = Copy1(i, s)
      BY <1>7, <2>1
    <3>2. queue'[t].stamped => i = "auto"
      BY <1>6, <3>1
    <3>3. Copy1(i, s).src = s /\ Copy1(i, s).text = inbox[s]
          /\ (i = "auto" => ~inbox[s].quarantined)
      BY <1>6
    <3> QED BY <3>1, <3>2, <3>3
  <2> QED BY <1>1, <1>12, <2>1 DEF IInv, Copies, Verbatim
<1>21. ASSUME HoldsFirst PROVE NoTwin'
  <2>1. ASSUME NEW t \in written, NEW u \in Queued, u \notin written,
               queue'[t].src = queue[u].src, queue'[t].text.v = queue[u].text.v
        PROVE  FALSE
    <3>1. PICK s \in Todo(i) : NameOf[s] = t[1] /\ queue'[t] = Copy1(i, s)
      BY <1>7, <2>1
    <3>2. queue[u].src = s /\ queue[u].text.v = inbox[s].v /\ inbox[s] # NoText
      BY <1>1, <1>6, <2>1, <3>1 DEF IInv, Known, Scanned
    <3>3. queue[u] \in Brief
      BY DEF IInv, Shape, Queued
    <3>4. queue[u].stamped \/ s \in Quarantinable
      <4>1. ~queue[u].stamped => queue[u].text # inbox[s]
        BY <1>6, <3>2, <3>3 DEF NoCopy, Brief
      <4> QED BY <3>2, <4>1 DEF IInv, Copies, Verbatim
    <3>5. u[2] = 1 /\ u[1] = NameOf[s] /\ u \in Stem
      BY <1>21, <3>2, <3>4 DEF IInv, Copies, Numbered, Shape, Queued
    <3>6. u = First(s)
      BY <3>5 DEF Stem, First
    <3> QED BY <1>11, <2>1, <3>6
  <2>2. SUFFICES ASSUME NEW t \in Queued', NEW u \in Queued', queue'[t].src = queue'[u].src,
                        queue'[t].text.v = queue'[u].text.v
                 PROVE  t = u
    BY DEF NoTwin
  <2>3. CASE t \in written /\ u \in written
    BY <1>10, <2>2, <2>3
  <2>4. CASE t \notin written /\ u \notin written
    BY <1>12, <1>21, <2>2, <2>4 DEF IInv, Copies, NoTwin
  <2> QED BY <1>12, <2>1, <2>2, <2>3, <2>4
<1> QED BY <1>14, <1>15, <1>16, <1>17, <1>18, <1>19, <1>20, <1>21
        DEF IInv, Known, Copies, HoldsFirst

LEMMA RemoveStep ==
    ASSUME IInv, NEW i \in Importer, RemoveSources(i)
    PROVE  IInv'
<1> USE DEF At, store, tasks
<1>1. /\ importer[i].pc = "remove" /\ importer' = [importer EXCEPT ![i] = Resting]
      /\ inbox' = inbox \/ inbox' = Removed(i)
      /\ UNCHANGED <<version, withdrawn, store, tasks>>
  BY DEF RemoveSources
<1>2. \A j \in Importer : importer'[j].pc = "idle"
  BY <1>1, RestingShape DEF IInv, Alternate, Shape
<1>3. CASE inbox' = inbox
  <2>1. Shape' /\ Alternate' /\ Scanned' /\ Removable'
    BY <1>1, <1>2, <1>3, RestingShape DEF IInv, Shape, Alternate, Scanned, Removable, Queued
  <2> QED BY <1>1, <1>3, <2>1, ImporterStep DEF published
<1>4. CASE inbox' = Removed(i)
  <2> DEFINE entries == importer[i].entries
             held(s) == [inbox[s] EXCEPT !.disabled = TRUE]
  <2>1. \A s \in DOMAIN entries :
          /\ s \in Source /\ inbox[s] \in Text
          /\ held(s) \in Text /\ held(s) # NoText /\ held(s).disabled /\ held(s).v = inbox[s].v
          /\ held(s).quarantined = inbox[s].quarantined
          /\ ~entries[s].started => Safe(s, inbox[s].v)
          /\ entries[s].started => NoCopy(s, FALSE)
    <3>1. SUFFICES ASSUME NEW s \in DOMAIN entries
                   PROVE  /\ s \in Source /\ inbox[s] \in Text
                          /\ held(s) \in Text /\ held(s) # NoText /\ held(s).disabled
                          /\ held(s).v = inbox[s].v
                          /\ held(s).quarantined = inbox[s].quarantined
                          /\ ~entries[s].started => Safe(s, inbox[s].v)
                          /\ entries[s].started => NoCopy(s, FALSE)
      OBVIOUS
    <3>2. entries \in Taken
      BY DEF IInv, Shape, Importing
    <3>3. s \in Source
      BY <3>1, <3>2 DEF Taken
    <3>4. /\ inbox[s] # NoText
          /\ ~entries[s].started => Safe(s, inbox[s].v)
          /\ entries[s].started => NoCopy(s, FALSE)
      BY <1>1, <3>1 DEF IInv, Known, Removable
    <3>5. inbox[s] \in Text
      BY <3>3, <3>4 DEF IInv, Shape
    <3>6. /\ held(s) \in Text /\ held(s).disabled /\ held(s).v = inbox[s].v
          /\ held(s).quarantined = inbox[s].quarantined
      BY <3>5 DEF Text
    <3>7. held(s) # NoText
      <4>1. "disabled" \in DOMAIN held(s) /\ "disabled" \notin DOMAIN NoText
        BY <3>6 DEF Text, NoText
      <4> QED BY <4>1
    <3> QED BY <3>3, <3>4, <3>5, <3>6, <3>7
  <2>2. ASSUME NEW s \in Source
        PROVE  \/ inbox'[s] = inbox[s] /\ s \notin DOMAIN entries
               \/ s \in DOMAIN entries /\ ~entries[s].started /\ inbox'[s] = NoText
               \/ s \in DOMAIN entries /\ entries[s].started /\ inbox'[s] = held(s)
    BY <1>1, <1>4 DEF Removed, Drained, Refused, IInv, Known, Removable
  <2>3. inbox' = [s \in Source |-> inbox'[s]]
    BY <1>4 DEF Removed
  <2> HIDE DEF held, entries
  <2>4. Queued' = Queued
    BY <1>1 DEF Queued
  <2>5. Shape'
    <3>1. ASSUME NEW s \in Source
          PROVE  /\ inbox'[s] \in Text \cup {NoText}
                 /\ inbox'[s] # NoText =>
                      /\ inbox'[s].v = version[s]
                      /\ inbox'[s].quarantined => s \in Quarantinable
                      /\ inbox[s] # NoText
      <4>1. CASE inbox'[s] = inbox[s] \/ inbox'[s] = NoText
        BY <4>1 DEF IInv, Shape
      <4>2. CASE s \in DOMAIN entries /\ entries[s].started /\ inbox'[s] = held(s)
        <5>1. inbox[s] \in Text /\ inbox[s] # NoText
          BY <1>1, <2>1, <4>2 DEF IInv, Known, Removable, entries
        <5>2. inbox[s].v = version[s] /\ (inbox[s].quarantined => s \in Quarantinable)
          BY <5>1 DEF IInv, Shape
        <5> QED BY <2>1, <4>2, <5>1, <5>2
      <4> QED BY <2>2, <4>1, <4>2
    <3> QED BY <1>1, <1>2, <2>3, <2>4, <3>1, RestingShape DEF IInv, Shape
  <2>6. Alternate' /\ Scanned' /\ Removable'
    BY <1>2 DEF Alternate, Scanned, Removable
  <2>7. Running' /\ Numbered' /\ (HoldsFirst => NoTwin')
    BY <1>1, <2>4 DEF IInv, Known, Copies, Running, Numbered, NoTwin, HoldsFirst
  <2>8. \A s, v : Safe(s, v) => Safe(s, v)'
    BY <1>1, <2>4 DEF Safe
  <2>9. NeverLost'
    <3>1. ASSUME NEW s \in Source, NEW v \in 1..version[s] PROVE inbox'[s].v = v \/ Safe(s, v)'
      <4>1. inbox[s].v = v \/ Safe(s, v)
        BY DEF IInv, Known, NeverLost, Safe
      <4> QED BY <2>1, <2>2, <2>8, <4>1
    <3> QED BY <1>1, <3>1 DEF NeverLost, Safe
  <2>10. Verbatim'
    <3>1. SUFFICES ASSUME NEW t \in Queued, NEW s \in Source, s = queue[t].src,
                          inbox'[s] # NoText, queue[t].text.v = inbox'[s].v
                   PROVE  /\ ~queue[t].stamped /\ s \notin Quarantinable =>
                               queue[t].text = inbox'[s]
                          /\ queue[t].stamped => /\ ~inbox'[s].quarantined
                                                 /\ queue[t].text = inbox'[s] \/ inbox'[s].disabled
      BY <1>1, <2>4 DEF Verbatim, IInv, Shape, Queued, Brief
    <3>2. CASE inbox'[s] = inbox[s]
      BY <3>1, <3>2 DEF IInv, Copies, Verbatim
    <3>3. CASE s \in DOMAIN entries /\ entries[s].started /\ inbox'[s] = held(s)
      <4>1. /\ NoCopy(s, FALSE) /\ inbox[s] # NoText
            /\ inbox'[s].disabled /\ inbox'[s].v = inbox[s].v
            /\ inbox'[s].quarantined = inbox[s].quarantined
        BY <1>1, <2>1, <3>3 DEF IInv, Known, Removable, entries
      <4>2. queue[t].stamped \in BOOLEAN
        BY DEF IInv, Shape, Queued, Brief
      <4>3. ~queue[t].stamped => queue[t].text # inbox[s]
        BY <3>1, <4>1, <4>2 DEF NoCopy
      <4>4. /\ ~queue[t].stamped /\ s \notin Quarantinable => queue[t].text = inbox[s]
            /\ queue[t].stamped => ~inbox[s].quarantined
        BY <3>1, <4>1 DEF IInv, Copies, Verbatim
      <4> QED BY <4>1, <4>3, <4>4
    <3> QED BY <2>2, <3>1, <3>2, <3>3
  <2> QED BY <2>5, <2>6, <2>7, <2>9, <2>10 DEF IInv, Known, Copies, HoldsFirst
<1> QED BY <1>1, <1>3, <1>4

-----------------------------------------------------------------------------
(* The theorems                                                            *)

LEMMA IInvInit == Init => IInv
<1> SUFFICES ASSUME Init PROVE IInv
  OBVIOUS
<1> USE DEF Init
<1>1. Queued = {} /\ \A i \in Importer : importer[i] = Resting
  BY DEF Queued
<1>2. Shape
  BY <1>1, RestingShape DEF Shape
<1>3. Alternate /\ Running /\ Scanned /\ Removable
  BY <1>1, RestingShape DEF Alternate, Running, Scanned, Removable
<1>4. NeverLost /\ Numbered /\ Verbatim /\ NoTwin
  BY <1>1 DEF NeverLost, Numbered, Verbatim, NoTwin
<1> QED BY <1>2, <1>3, <1>4 DEF IInv, Known, Copies

LEMMA IInvStep ==
    ASSUME ~Overlap, IInv, [Next]_vars
    PROVE  IInv'
<1>1. CASE UNCHANGED vars
  <2>1. UNCHANGED <<published, store, tasks, importer>>
    BY <1>1 DEF vars
  <2>2. Queued' = Queued /\ UNCHANGED importer
    BY <2>1 DEF Queued, store
  <2>3. Shape' /\ Alternate' /\ Running' /\ Kept /\ Shrinks /\ started' = started
    BY <2>1, <2>2
       DEF published, store, tasks, IInv, Known, Shape, Alternate, Running, Kept, Shrinks, Safe
  <2> QED BY <2>1, <2>2, <2>3, TaskStep
<1>2. CASE Next
  <2>1. CASE AutoStep
    BY <2>1, ReadStartedStep, ScanStep, CopyStep, RemoveStep DEF AutoStep, Importer
  <2>2. CASE ManualStep
    BY <2>2, ReadStartedStep, ScanStep, CopyStep, RemoveStep DEF ManualStep, Importer
  <2>3. CASE Crash
    BY <2>3, CrashStep
  <2>4. CASE \E s \in Source : ClearHold(s) \/ \E q \in BOOLEAN :
                (q => s \in Quarantinable) /\ Publish(s, q)
    BY <2>4, ClearHoldStep, PublishStep
  <2>5. CASE \E t \in Stem : Lease(t) \/ Land(t) \/ Fails(t)
    BY <2>5, LeaseStep, LandStep, FailsStep
  <2> QED BY <1>2, <2>1, <2>2, <2>3, <2>4, <2>5 DEF Next
<1> QED BY <1>1, <1>2

LEMMA Invariance ==
    ASSUME ~Overlap
    PROVE  Spec => []IInv
BY IInvInit, IInvStep, PTL DEF Spec

\* No version that was published is lost, whatever lands between the scan, the copy and the
\* removal, however often a removal fails or the manager restarts, and under any sharing of
\* file names: an import that nothing begins or publishes under moves briefs.
THEOREM NeverLostHolds ==
    ASSUME ~Overlap
    PROVE  Spec => []NeverLost
<1>1. IInv => NeverLost
  BY DEF IInv, Known
<1> QED BY <1>1, Invariance, PTL

\* One version is one task, if no source with a hold is published behind another source of
\* its name: such a one, imported by hand under a number, is imported again when its hold
\* is cleared before its removal succeeded.
THEOREM NoTwinHolds ==
    ASSUME ~Overlap, HoldsFirst
    PROVE  Spec => []NoTwin
<1>1. IInv => NoTwin
  BY DEF IInv, Copies
<1> QED BY <1>1, Invariance, PTL

\* The reconciler marks a source as refused only if its text is not in the queue as its own
\* import: the guard against replays is exact.
THEOREM RefusalFoundedHolds ==
    ASSUME ~Overlap
    PROVE  Spec => RefusalFounded
<1> DEFINE A == \A s \in Source :
                  /\ s \in Refused("auto") /\ importer'["auto"].pc = "idle"
                  /\ inbox'[s] # inbox[s]
                  => \A t \in Stamped(s) : queue[t].text.v # inbox[s].v
<1>1. ASSUME IInv, [Next]_vars PROVE A
  <2>1. SUFFICES ASSUME NEW s \in Source, s \in Refused("auto"), inbox'[s] # inbox[s],
                        importer'["auto"].pc = "idle", NEW t \in Stamped(s),
                        queue[t].text.v = inbox[s].v
                 PROVE  FALSE
    BY DEF vars, published
  <2>2. importer["auto"].pc # "idle" /\ importer["manual"].pc = "idle"
    <3>1. importer["auto"].entries # <<>>
      BY <2>1 DEF Refused
    <3> QED BY <1>1, <3>1 DEF IInv, Shape, Alternate, Importer
  <2>3. /\ importer["auto"].pc = "remove"
        /\ inbox' = Removed("auto")
    <3>1. CASE AutoStep
      BY <1>1, <2>1, <2>2, <3>1
         DEF AutoStep, ReadStarted, Scan, Copy, RemoveSources, At, published
    <3>2. CASE ManualStep
      <4>1. ~Alone("manual")
        BY <2>2 DEF Alone, Importer
      <4> QED BY <2>2, <3>2, <4>1 DEF ManualStep, ReadStarted, Scan, Copy, RemoveSources, At
    <3>3. CASE \E u \in Stem : Lease(u) \/ Land(u) \/ Fails(u)
      BY <2>1, <3>3 DEF Lease, Land, Fails, published
    <3>4. CASE \E u \in Source : ClearHold(u) \/ \E q \in BOOLEAN :
                  (q => u \in Quarantinable) /\ Publish(u, q)
      BY <2>2, <3>4 DEF ClearHold, Publish, Quiet, Importer
    <3>5. CASE Crash
      BY <2>1, <3>5 DEF Crash, published
    <3> QED BY <1>1, <2>1, <3>1, <3>2, <3>3, <3>4, <3>5 DEF Next, vars, published
  <2>4. /\ inbox[s] # NoText /\ ~inbox[s].disabled /\ NoCopy(s, TRUE)
    BY <1>1, <2>1, <2>3 DEF IInv, Known, Removable, Refused, Importer
  <2>5. t \in Queued /\ queue[t].stamped /\ queue[t].src = s
    BY DEF Stamped
  <2>6. queue[t].text = inbox[s] \/ inbox[s].disabled
    BY <1>1, <2>1, <2>4, <2>5 DEF IInv, Copies, Verbatim
  <2> QED BY <2>4, <2>5, <2>6 DEF NoCopy, IInv, Shape, Queued, Brief
<1>2. IInv /\ [Next]_vars => [A]_vars
  BY <1>1
<1> QED BY <1>2, Invariance, PTL DEF Spec, RefusalFounded
=============================================================================
