---------------------------- MODULE ConsoleProof ----------------------------
(***************************************************************************)
(* Locks and interrupts of the console path, for every input, buffer size  *)
(* and depth of the FIFO: LocksMaskInterrupts of module Console.           *)
(*                                                                         *)
(* The inductive invariant says for each hart, from where its process and  *)
(* its handler are, which locks it holds, how many push_offs are open,     *)
(* whether interrupts are on and what the last pop_off will restore.       *)
(***************************************************************************)
EXTENDS Console, TLAPS

WriterPcs == {"idle", "spin", "put", "start", "send", "started", "waking", "tx_sleep", "tx_sched"}
ReaderPcs == {"idle", "spin", "read", "killed", "leave", "wait", "cons_sleep", "cons_sched",
              "sleep", "return", "exit"}
HandlerPcs == {"off", "getc", "cons", "echo", "echo_wait", "echo_write", "wake", "start", "send",
               "waking", "started", "complete"}
Pcs == WriterPcs \cup ReaderPcs \cup HandlerPcs

\* Where actor a may be.
PlacesOf(a) == CASE a = 1 -> WriterPcs [] a = 2 -> ReaderPcs [] OTHER -> HandlerPcs

\* Where the code holds a lock.
Holds(l) ==
    CASE l = "tx" -> {"put", "start", "send", "started", "waking", "tx_sleep"}
      [] l = "cons" -> {"read", "killed", "leave", "wait", "cons_sleep", "echo", "echo_wait",
                        "echo_write", "wake"}
      [] l = "writer" -> {"waking", "tx_sleep", "tx_sched"}
      [] OTHER -> {"killed", "cons_sleep", "cons_sched", "wake"}

\* How many push_offs are open there: for one lock, and for what is nested in it.
Once == {"spin", "put", "start", "send", "started", "tx_sched", "read", "leave", "wait",
         "cons_sched", "echo"}
Twice == {"waking", "tx_sleep", "killed", "cons_sleep", "echo_wait", "echo_write", "wake"}
Depth(x) == IF x \in Twice THEN 2 ELSE IF x \in Once THEN 1 ELSE 0

LocksOK ==
    /\ lock \in [LockNames -> 0..2]
    /\ \A h \in Harts, l \in LockNames :
           lock[l] = h <=> pc[h] \in Holds(l) \/ pc[h + 2] \in Holds(l)

\* What holds of the registers of hart h.
HartOK(h) ==
    /\ noff[h] = Depth(pc[h]) + Depth(pc[h + 2])
    /\ pc[h + 2] # "off" => ie[h] = FALSE /\ Depth(pc[h]) = 0
    /\ Depth(pc[h]) > 0 => ie[h] = FALSE /\ intena[h] = TRUE
    /\ Depth(pc[h + 2]) > 0 => intena[h] = FALSE
    /\ Depth(pc[h]) = 0 /\ pc[h + 2] = "off" => ie[h] = TRUE

RegsOK ==
    /\ ie \in [Harts -> BOOLEAN] /\ noff \in [Harts -> Int] /\ intena \in [Harts -> BOOLEAN]
    /\ \A h \in Harts : HartOK(h)

PlacesOK == pc \in [Actors -> Pcs] /\ \A a \in Actors : pc[a] \in PlacesOf(a)

LockInv == PlacesOK /\ LocksOK /\ RegsOK /\ panicked = FALSE

-----------------------------------------------------------------------------
(* Facts about places *)

\* A lock is held only where interrupts are off, and an idle handler holds none.
LEMMA DepthFacts ==
  ASSUME NEW x
  PROVE  /\ Depth(x) \in 0..2 /\ Depth("off") = 0
         /\ \A l \in LockNames : x \in Holds(l) => Depth(x) > 0
BY DEF Depth, Once, Twice, Holds, LockNames

\* Actors and their harts.
LEMMA ActorFacts ==
  ASSUME NEW a \in Actors
  PROVE  /\ HartOf(a) \in Harts /\ HartOf(a) \in Actors /\ HartOf(a) + 2 \in Actors
         /\ HartOf(a) + 2 \in Handlers
         /\ a \in Handlers => a = HartOf(a) + 2
         /\ a \notin Handlers => a = HartOf(a)
         /\ HartOf(a) # HartOf(a) + 2
         /\ \A g \in Harts : g # HartOf(a) => a # g /\ a # g + 2
BY DEF HartOf, Harts, Actors, Handlers, Writer, Reader

LEMMA HartFacts ==
  ASSUME NEW h \in Harts
  PROVE  /\ h \in Actors /\ h + 2 \in Actors /\ HartOf(h) = h /\ HartOf(h + 2) = h
         /\ h \notin Handlers /\ h + 2 \in Handlers /\ Handler(h) = h + 2 /\ h # h + 2
BY DEF HartOf, Harts, Actors, Handlers, Writer, Reader, Handler

\* A step of an actor goes to another of its places and moves nobody else.
LEMMA PlacesKept ==
  ASSUME LockInv, NEW a \in Actors, NEW to \in PlacesOf(a), Goto(a, to)
  PROVE  /\ PlacesOK' /\ pc'[a] = to /\ \A b \in Actors : b # a => pc'[b] = pc[b]
<1>1. pc \in [Actors -> Pcs] /\ pc' = [pc EXCEPT ![a] = to]
  BY DEF LockInv, PlacesOK, Goto
<1>2. to \in Pcs
  BY DEF PlacesOf, Pcs
<1>3. pc' \in [Actors -> Pcs] /\ pc'[a] = to /\ \A b \in Actors : b # a => pc'[b] = pc[b]
  BY <1>1, <1>2
<1>4. \A b \in Actors : pc'[b] \in PlacesOf(b)
  BY <1>3 DEF LockInv, PlacesOK
<1> QED
  BY <1>3, <1>4 DEF PlacesOK

-----------------------------------------------------------------------------
(* What a step does to the locks *)

LEMMA LocksSame ==
  ASSUME LockInv, NEW a \in Actors, NEW to \in PlacesOf(a), Goto(a, to), lock' = lock,
         \A l \in LockNames : pc[a] \in Holds(l) <=> to \in Holds(l)
  PROVE  LocksOK'
<1>1. pc'[a] = to /\ \A b \in Actors : b # a => pc'[b] = pc[b]
  BY PlacesKept
<1>2. ASSUME NEW b \in Actors, NEW l \in LockNames PROVE pc'[b] \in Holds(l) <=> pc[b] \in Holds(l)
  BY <1>1
<1>3. LocksOK
  BY DEF LockInv
<1>4. ASSUME NEW h \in Harts, NEW l \in LockNames
      PROVE  lock'[l] = h <=> pc'[h] \in Holds(l) \/ pc'[h + 2] \in Holds(l)
  <2>1. h \in Actors /\ h + 2 \in Actors
    BY HartFacts
  <2>2. lock[l] = h <=> pc[h] \in Holds(l) \/ pc[h + 2] \in Holds(l)
    BY <1>3 DEF LocksOK
  <2> QED
    BY <1>2, <2>1, <2>2
<1> QED
  BY <1>3, <1>4 DEF LocksOK

\* The hart of an actor that is about to take lock l does not hold it.
LEMMA NotHeld ==
  ASSUME LockInv, NEW a \in Actors, NEW l \in LockNames, pc[a] \notin Holds(l),
         a \notin Handlers => pc[a + 2] = "off", a \in Handlers => pc[a] # "off"
  PROVE  lock[l] # HartOf(a)
<1> DEFINE h == HartOf(a)
<1>1. h \in Harts /\ (a \in Handlers => a = h + 2) /\ (a \notin Handlers => a = h)
  BY ActorFacts
<1>2. lock[l] = h <=> pc[h] \in Holds(l) \/ pc[h + 2] \in Holds(l)
  BY <1>1 DEF LockInv, LocksOK
<1>3. a \notin Handlers => pc[h + 2] \notin Holds(l)
  BY <1>1, DepthFacts
<1>4. a \in Handlers => pc[h] \notin Holds(l)
  <2>1. a \in Handlers => Depth(pc[h]) = 0
    BY <1>1 DEF LockInv, RegsOK, HartOK
  <2> QED
    BY <2>1, DepthFacts
<1> QED
  BY <1>1, <1>2, <1>3, <1>4

LEMMA LocksGain ==
  ASSUME LockInv, NEW a \in Actors, NEW to \in PlacesOf(a), Goto(a, to), NEW l \in LockNames,
         lock[l] = 0, lock' = [lock EXCEPT ![l] = HartOf(a)], to \in Holds(l),
         \A k \in LockNames : k # l => (pc[a] \in Holds(k) <=> to \in Holds(k))
  PROVE  LocksOK'
<1>1. pc'[a] = to /\ \A b \in Actors : b # a => pc'[b] = pc[b]
  BY PlacesKept
<1>2. lock \in [LockNames -> 0..2] /\ HartOf(a) \in Harts
  BY ActorFacts DEF LockInv, LocksOK
<1>3. /\ lock' \in [LockNames -> 0..2] /\ lock'[l] = HartOf(a)
      /\ \A k \in LockNames : k # l => lock'[k] = lock[k]
  BY <1>2 DEF Harts
<1>4. ASSUME NEW h \in Harts, NEW k \in LockNames
      PROVE  lock'[k] = h <=> pc'[h] \in Holds(k) \/ pc'[h + 2] \in Holds(k)
  <2>1. h \in Actors /\ h + 2 \in Actors /\ h # 0
    BY HartFacts DEF Harts
  <2>2. lock[k] = h <=> pc[h] \in Holds(k) \/ pc[h + 2] \in Holds(k)
    BY DEF LockInv, LocksOK
  <2>3. CASE k # l
    <3>1. \A b \in Actors : pc'[b] \in Holds(k) <=> pc[b] \in Holds(k)
      BY <1>1, <2>3
    <3> QED
      BY <1>3, <2>1, <2>2, <2>3, <3>1
  <2>4. CASE k = l /\ h = HartOf(a)
    <3>1. a = h \/ a = h + 2
      BY <2>4, ActorFacts
    <3> QED
      BY <1>1, <1>3, <2>4, <3>1
  <2>5. CASE k = l /\ h # HartOf(a)
    <3>1. a # h /\ a # h + 2
      BY <2>5, ActorFacts
    <3>2. pc'[h] = pc[h] /\ pc'[h + 2] = pc[h + 2]
      BY <1>1, <2>1, <3>1
    <3> QED
      BY <1>3, <2>1, <2>2, <2>5, <3>2
  <2> QED
    BY <2>3, <2>4, <2>5
<1> QED
  BY <1>3, <1>4 DEF LocksOK

LEMMA LocksLose ==
  ASSUME LockInv, NEW a \in Actors, NEW to \in PlacesOf(a), Goto(a, to), NEW l \in LockNames,
         lock' = [lock EXCEPT ![l] = 0], pc[a] \in Holds(l), to \notin Holds(l),
         \A k \in LockNames : k # l => (pc[a] \in Holds(k) <=> to \in Holds(k)),
         a \notin Handlers => pc[a + 2] = "off"
  PROVE  LocksOK' /\ lock[l] = HartOf(a)
<1> DEFINE h == HartOf(a)
<1>1. pc'[a] = to /\ \A b \in Actors : b # a => pc'[b] = pc[b]
  BY PlacesKept
<1>2. lock \in [LockNames -> 0..2] /\ h \in Harts /\ h \in Actors /\ h + 2 \in Actors
  BY ActorFacts DEF LockInv, LocksOK
<1>3. /\ lock' \in [LockNames -> 0..2] /\ lock'[l] = 0
      /\ \A k \in LockNames : k # l => lock'[k] = lock[k]
  BY <1>2
<1>4. (a \in Handlers => a = h + 2) /\ (a \notin Handlers => a = h) /\ h # h + 2
  BY ActorFacts
<1>5. lock[l] = h
  BY <1>2, <1>4 DEF LockInv, LocksOK
<1>6. pc'[h] \notin Holds(l) /\ pc'[h + 2] \notin Holds(l)
  <2>1. CASE a \in Handlers
    <3>1. pc[a] # "off"
      BY DepthFacts
    <3>2. Depth(pc[h]) = 0
      BY <1>2, <1>4, <2>1, <3>1 DEF LockInv, RegsOK, HartOK
    <3>3. pc[h] \notin Holds(l)
      BY <3>2, DepthFacts
    <3> QED
      BY <1>1, <1>2, <1>4, <2>1, <3>3
  <2>2. CASE a \notin Handlers
    <3>1. pc[h + 2] \notin Holds(l)
      BY <1>4, <2>2, DepthFacts
    <3> QED
      BY <1>1, <1>2, <1>4, <2>2, <3>1
  <2> QED
    BY <2>1, <2>2
<1>7. ASSUME NEW g \in Harts, NEW k \in LockNames
      PROVE  lock'[k] = g <=> pc'[g] \in Holds(k) \/ pc'[g + 2] \in Holds(k)
  <2>1. g \in Actors /\ g + 2 \in Actors /\ g # 0
    BY HartFacts DEF Harts
  <2>2. lock[k] = g <=> pc[g] \in Holds(k) \/ pc[g + 2] \in Holds(k)
    BY DEF LockInv, LocksOK
  <2>3. CASE k # l
    <3>1. \A b \in Actors : pc'[b] \in Holds(k) <=> pc[b] \in Holds(k)
      BY <1>1, <2>3
    <3> QED
      BY <1>3, <2>1, <2>2, <2>3, <3>1
  <2>4. CASE k = l /\ g = h
    BY <1>3, <1>6, <2>1, <2>4
  <2>5. CASE k = l /\ g # h
    <3>1. a # g /\ a # g + 2
      BY <2>5, ActorFacts
    <3>2. pc'[g] = pc[g] /\ pc'[g + 2] = pc[g + 2]
      BY <1>1, <2>1, <3>1
    <3> QED
      BY <1>3, <1>5, <2>1, <2>2, <2>5, <3>2
  <2> QED
    BY <2>3, <2>4, <2>5
<1> QED
  BY <1>3, <1>5, <1>7 DEF LocksOK

-----------------------------------------------------------------------------
(* What a step does to the registers *)

\* A step of actor a keeps the registers right if it does so on its own hart.
LEMMA OwnHart ==
  ASSUME LockInv, NEW a \in Actors, NEW to \in PlacesOf(a), Goto(a, to),
         ie' \in [Harts -> BOOLEAN], noff' \in [Harts -> Int], intena' \in [Harts -> BOOLEAN],
         \A g \in Harts : g # HartOf(a) =>
             ie'[g] = ie[g] /\ noff'[g] = noff[g] /\ intena'[g] = intena[g],
         HartOK(HartOf(a))'
  PROVE  RegsOK'
<1>1. ASSUME NEW g \in Harts, g # HartOf(a) PROVE HartOK(g)'
  <2>1. a # g /\ a # g + 2 /\ g \in Actors /\ g + 2 \in Actors
    BY <1>1, ActorFacts, HartFacts
  <2>2. pc'[g] = pc[g] /\ pc'[g + 2] = pc[g + 2]
    BY <2>1, PlacesKept
  <2>3. HartOK(g)
    BY DEF LockInv, RegsOK
  <2> QED
    BY <1>1, <2>2, <2>3 DEF HartOK
<1>2. \A g \in Harts : HartOK(g)'
  BY <1>1
<1> QED
  BY <1>2 DEF RegsOK

LEMMA RegsSame ==
  ASSUME LockInv, NEW a \in Actors, NEW to \in PlacesOf(a), Goto(a, to),
         UNCHANGED <<ie, noff, intena>>, Depth(to) = Depth(pc[a]), pc[a] = "off" <=> to = "off"
  PROVE  RegsOK'
<1> DEFINE h == HartOf(a)
<1>1. h \in Harts /\ h \in Actors /\ h + 2 \in Actors /\ (a = h \/ a = h + 2)
  BY ActorFacts
<1>2. pc'[a] = to /\ \A b \in Actors : b # a => pc'[b] = pc[b]
  BY PlacesKept
<1>3. \A b \in Actors : Depth(pc'[b]) = Depth(pc[b]) /\ (pc'[b] = "off" <=> pc[b] = "off")
  BY <1>2
<1>4. HartOK(h) /\ ie \in [Harts -> BOOLEAN] /\ noff \in [Harts -> Int] /\ intena \in [Harts -> BOOLEAN]
  BY <1>1 DEF LockInv, RegsOK
<1>5. HartOK(h)'
  BY <1>1, <1>3, <1>4 DEF HartOK
<1> QED
  BY <1>4, <1>5, OwnHart

\* How deep the hart of an actor is in push_offs: only the actor itself can be inside one,
\* as a handler interrupts a process only outside.
LEMMA OwnDepth ==
  ASSUME LockInv, NEW a \in Actors,
         a \notin Handlers => pc[a + 2] = "off", a \in Handlers => pc[a] # "off"
  PROVE  /\ noff[HartOf(a)] = Depth(pc[a])
         /\ a \in Handlers => /\ Depth(pc[HartOf(a)]) = 0 /\ ie[HartOf(a)] = FALSE
                              /\ Depth(pc[a]) > 0 => intena[HartOf(a)] = FALSE
         /\ a \notin Handlers => /\ Depth(pc[a]) > 0 => ie[a] = FALSE /\ intena[a] = TRUE
                                 /\ Depth(pc[a]) = 0 => ie[a] = TRUE
<1> DEFINE h == HartOf(a)
<1>1. h \in Harts /\ (a \in Handlers => a = h + 2) /\ (a \notin Handlers => a = h)
  BY ActorFacts
<1>2. HartOK(h)
  BY <1>1 DEF LockInv, RegsOK
<1>3. Depth("off") = 0 /\ Depth(pc[a]) \in Nat
  BY DepthFacts
<1> HIDE DEF h
<1>4. CASE a \in Handlers
  <2>1. /\ Depth(pc[h]) = 0 /\ ie[h] = FALSE /\ (Depth(pc[a]) > 0 => intena[h] = FALSE)
        /\ noff[h] = Depth(pc[h]) + Depth(pc[a])
    BY <1>1, <1>2, <1>4 DEF HartOK
  <2> QED
    BY <1>3, <1>4, <2>1 DEF h
<1>5. CASE a \notin Handlers
  <2>1. /\ Depth(pc[a]) > 0 => ie[a] = FALSE /\ intena[a] = TRUE
        /\ Depth(pc[a]) = 0 => ie[a] = TRUE
        /\ noff[h] = Depth(pc[a]) + Depth("off")
    BY <1>1, <1>2, <1>5 DEF HartOK
  <2> QED
    BY <1>3, <1>5, <2>1 DEF h
<1> QED
  BY <1>4, <1>5

\* push_off: the hart goes one deeper; the outermost one keeps whether interrupts were on.
LEMMA RegsPush ==
  ASSUME LockInv, NEW a \in Actors, NEW to \in PlacesOf(a), Goto(a, to), push_off(HartOf(a)),
         Depth(to) = Depth(pc[a]) + 1, to # "off",
         a \notin Handlers => pc[a + 2] = "off", a \in Handlers => pc[a] # "off"
  PROVE  RegsOK'
<1> DEFINE h == HartOf(a)
<1>1. /\ h \in Harts /\ h \in Actors /\ h + 2 \in Actors /\ h # h + 2
      /\ (a \in Handlers => a = h + 2) /\ (a \notin Handlers => a = h)
  BY ActorFacts
<1>2. pc'[a] = to /\ \A b \in Actors : b # a => pc'[b] = pc[b]
  BY PlacesKept
<1>3. ie \in [Harts -> BOOLEAN] /\ noff \in [Harts -> Int] /\ intena \in [Harts -> BOOLEAN]
  BY DEF LockInv, RegsOK
<1>4. /\ noff[h] = Depth(pc[a])
      /\ a \in Handlers => /\ Depth(pc[h]) = 0 /\ ie[h] = FALSE
                           /\ Depth(pc[a]) > 0 => intena[h] = FALSE
      /\ a \notin Handlers => /\ Depth(pc[a]) > 0 => ie[a] = FALSE /\ intena[a] = TRUE
                              /\ Depth(pc[a]) = 0 => ie[a] = TRUE
  BY OwnDepth
<1>5. Depth("off") = 0 /\ Depth(pc[a]) \in Nat
  BY DepthFacts
<1> HIDE DEF h
<1>6. /\ ie' = [ie EXCEPT ![h] = FALSE]
      /\ intena' = [intena EXCEPT ![h] = IF noff[h] = 0 THEN ie[h] ELSE intena[h]]
      /\ noff' = [noff EXCEPT ![h] = noff[h] + 1]
  BY DEF push_off, h
<1>7. (IF noff[h] = 0 THEN ie[h] ELSE intena[h]) = (a \notin Handlers)
  <2>1. CASE a \in Handlers
    <3>1. ie[h] = FALSE /\ (noff[h] # 0 => intena[h] = FALSE)
      BY <1>4, <1>5, <2>1
    <3> QED
      BY <2>1, <3>1, Zenon
  <2>2. CASE a \notin Handlers
    <3>1. (noff[h] = 0 => ie[h] = TRUE) /\ (noff[h] # 0 => intena[h] = TRUE)
      BY <1>1, <1>4, <1>5, <2>2
    <3> QED
      BY <2>2, <3>1, Zenon
  <2> QED
    BY <2>1, <2>2
<1>8. ie' \in [Harts -> BOOLEAN] /\ ie'[h] = FALSE /\ \A g \in Harts : g # h => ie'[g] = ie[g]
  BY <1>1, <1>3, <1>6, Zenon
<1>9. intena' = [intena EXCEPT ![h] = (a \notin Handlers)]
  BY <1>6, <1>7, Zenon
<1>10. /\ intena' \in [Harts -> BOOLEAN] /\ intena'[h] = (a \notin Handlers)
       /\ \A g \in Harts : g # h => intena'[g] = intena[g]
  BY <1>1, <1>3, <1>9, Zenon
<1>11. /\ noff' \in [Harts -> Int] /\ noff'[h] = Depth(to)
       /\ \A g \in Harts : g # h => noff'[g] = noff[g]
  BY <1>1, <1>3, <1>4, <1>6
<1>12. HartOK(h)'
  <2>1. CASE a \in Handlers
    <3>1. pc'[h + 2] = to /\ pc'[h] = pc[h] /\ Depth(pc[h]) = 0
      BY <1>1, <1>2, <1>4, <2>1
    <3>2. intena'[h] = FALSE
      BY <1>10, <2>1
    <3> QED
      BY <1>5, <1>8, <1>11, <3>1, <3>2 DEF HartOK
  <2>2. CASE a \notin Handlers
    <3>1. pc'[h] = to /\ pc'[h + 2] = "off"
      BY <1>1, <1>2, <2>2
    <3>2. intena'[h] = TRUE
      BY <1>10, <2>2
    <3> QED
      BY <1>5, <1>8, <1>11, <3>1, <3>2 DEF HartOK
  <2> QED
    BY <2>1, <2>2
<1> QED
  BY <1>8, <1>10, <1>11, <1>12, OwnHart DEF h

\* pop_off: its checks succeed, and only a process that leaves its last push_off turns
\* interrupts on.
LEMMA RegsPop ==
  ASSUME LockInv, NEW a \in Actors, NEW to \in PlacesOf(a), Goto(a, to), pop_off(HartOf(a)),
         Depth(pc[a]) = Depth(to) + 1, to # "off",
         a \notin Handlers => pc[a + 2] = "off"
  PROVE  RegsOK' /\ PopPanics(HartOf(a)) = FALSE
<1> DEFINE h == HartOf(a)
<1>1. /\ h \in Harts /\ h \in Actors /\ h + 2 \in Actors /\ h # h + 2
      /\ (a \in Handlers => a = h + 2) /\ (a \notin Handlers => a = h)
  BY ActorFacts
<1>2. pc'[a] = to /\ \A b \in Actors : b # a => pc'[b] = pc[b]
  BY PlacesKept
<1>3. ie \in [Harts -> BOOLEAN] /\ noff \in [Harts -> Int] /\ intena \in [Harts -> BOOLEAN]
  BY DEF LockInv, RegsOK
<1>4. Depth("off") = 0 /\ Depth(to) \in Nat /\ Depth(pc[a]) > 0 /\ pc[a] # "off"
  BY DepthFacts
<1>5. /\ noff[h] = Depth(pc[a])
      /\ a \in Handlers => Depth(pc[h]) = 0 /\ ie[h] = FALSE /\ intena[h] = FALSE
      /\ a \notin Handlers => ie[h] = FALSE /\ intena[h] = TRUE
  BY <1>1, <1>4, OwnDepth
<1> HIDE DEF h
<1>6. PopPanics(h) = FALSE
  <2>1. ~(noff[h] < 1)
    BY <1>4, <1>5
  <2>2. ie[h] = FALSE
    BY <1>5
  <2> QED
    BY <2>1, <2>2, Zenon DEF PopPanics
<1>7. /\ noff' = [noff EXCEPT ![h] = noff[h] - 1]
      /\ ie' = [ie EXCEPT ![h] = TurnsOn(h)] /\ intena' = intena
  BY DEF pop_off, h
<1>8. TurnsOn(h) = (a \notin Handlers /\ Depth(to) = 0)
  BY <1>4, <1>5 DEF TurnsOn
<1>9. ie' = [ie EXCEPT ![h] = (a \notin Handlers /\ Depth(to) = 0)]
  BY <1>7, <1>8, Zenon
<1>10. /\ ie' \in [Harts -> BOOLEAN] /\ ie'[h] = (a \notin Handlers /\ Depth(to) = 0)
       /\ \A g \in Harts : g # h => ie'[g] = ie[g]
  BY <1>1, <1>3, <1>9, Zenon
<1>11. /\ noff' \in [Harts -> Int] /\ noff'[h] = Depth(to)
       /\ \A g \in Harts : g # h => noff'[g] = noff[g]
  BY <1>1, <1>3, <1>4, <1>5, <1>7
<1>12. HartOK(h)'
  <2>1. CASE a \in Handlers
    <3>1. pc'[h + 2] = to /\ pc'[h] = pc[h] /\ Depth(pc[h]) = 0
      BY <1>1, <1>2, <1>5, <2>1
    <3>2. ie'[h] = FALSE /\ intena'[h] = FALSE
      BY <1>5, <1>7, <1>10, <2>1
    <3> QED
      BY <1>4, <1>11, <3>1, <3>2 DEF HartOK
  <2>2. CASE a \notin Handlers
    <3>1. pc'[h] = to /\ pc'[h + 2] = "off"
      BY <1>1, <1>2, <2>2
    <3>2. /\ Depth(to) = 0 => ie'[h] = TRUE
          /\ Depth(to) # 0 => ie'[h] = FALSE
          /\ intena'[h] = TRUE
      BY <1>5, <1>7, <1>10, <2>2
    <3> QED
      BY <1>4, <1>11, <3>1, <3>2 DEF HartOK
  <2> QED
    BY <2>1, <2>2
<1>13. \A g \in Harts : g # h => intena'[g] = intena[g]
  BY <1>7
<1>14. intena' \in [Harts -> BOOLEAN]
  BY <1>3, <1>7
<1> QED
  BY <1>6, <1>10, <1>11, <1>12, <1>13, <1>14, OwnHart DEF h

-----------------------------------------------------------------------------
(* What each kind of step does to the invariant *)

LEMMA MoveKeeps ==
  ASSUME LockInv, NEW a \in Actors, NEW to \in PlacesOf(a), Goto(a, to),
         UNCHANGED <<locks, panicked>>,
         \A l \in LockNames : pc[a] \in Holds(l) <=> to \in Holds(l),
         Depth(to) = Depth(pc[a]), pc[a] = "off" <=> to = "off"
  PROVE  LockInv'
<1>1. UNCHANGED <<lock, ie, noff, intena, panicked>>
  BY DEF locks
<1>2. LocksOK'
  BY <1>1, LocksSame
<1>3. RegsOK'
  BY <1>1, RegsSame
<1> QED
  BY <1>1, <1>2, <1>3, PlacesKept DEF LockInv

\* A process that is about to take its first lock turns interrupts off.
LEMMA OffKeeps ==
  ASSUME LockInv, NEW a \in Harts, NEW from, from \in {"idle", "sleep"},
         acquire_off(a, from, "spin")
  PROVE  LockInv'
<1>1. a \in Actors /\ a \notin Handlers /\ HartOf(a) = a /\ Handler(a) = a + 2
  BY HartFacts
<1>2. "spin" \in PlacesOf(a)
  BY DEF PlacesOf, Harts, WriterPcs, ReaderPcs
<1>3. /\ pc[a] = from /\ pc[a + 2] = "off" /\ Goto(a, "spin") /\ push_off(HartOf(a))
      /\ lock' = lock /\ panicked' = panicked
  BY <1>1 DEF acquire_off, At
<1>4. LocksOK'
  <2>1. \A l \in LockNames : pc[a] \in Holds(l) <=> "spin" \in Holds(l)
    BY <1>3 DEF Holds, LockNames
  <2> QED
    BY <1>1, <1>2, <1>3, <2>1, LocksSame
<1>5. RegsOK'
  <2>1. Depth("spin") = Depth(pc[a]) + 1
    BY <1>3 DEF Depth, Once, Twice
  <2> QED
    BY <1>1, <1>2, <1>3, <2>1, RegsPush
<1> QED
  BY <1>1, <1>2, <1>3, <1>4, <1>5, PlacesKept DEF LockInv

\* The swap that follows: the lock is not its hart's own.
LEMMA SwapKeeps ==
  ASSUME LockInv, NEW a \in Harts, NEW l \in LockNames, NEW to \in PlacesOf(a),
         acquire_swap(a, l, "spin", to), to \in Holds(l), Depth(to) = 1, to # "off",
         \A k \in LockNames : k # l => to \notin Holds(k)
  PROVE  LockInv'
<1>1. a \in Actors /\ a \notin Handlers /\ HartOf(a) = a /\ Handler(a) = a + 2
  BY HartFacts
<1>2. /\ pc[a] = "spin" /\ pc[a + 2] = "off" /\ Goto(a, to) /\ UNCHANGED <<ie, noff, intena>>
      /\ lock[l] \in {0, HartOf(a)} /\ lock' = [lock EXCEPT ![l] = HartOf(a)]
      /\ panicked' = (lock[l] = HartOf(a))
  BY <1>1 DEF acquire_swap, At
<1>3. \A k \in LockNames : pc[a] \notin Holds(k)
  BY <1>2 DEF Holds, LockNames
<1>4. lock[l] # HartOf(a)
  BY <1>1, <1>2, <1>3, NotHeld
<1>5. LocksOK'
  <2>1. lock[l] = 0
    BY <1>2, <1>4
  <2> QED
    BY <1>1, <1>2, <1>3, <2>1, LocksGain
<1>6. RegsOK'
  <2>1. Depth(to) = Depth(pc[a]) /\ pc[a] # "off"
    BY <1>2 DEF Depth, Once, Twice
  <2> QED
    BY <1>1, <1>2, <2>1, RegsSame
<1>7. panicked' = FALSE
  BY <1>2, <1>4
<1> QED
  BY <1>1, <1>2, <1>5, <1>6, <1>7, PlacesKept DEF LockInv

\* acquire in a handler or under another lock.
LEMMA NestedKeeps ==
  ASSUME LockInv, NEW a \in Actors, NEW l \in LockNames, NEW from, NEW to \in PlacesOf(a),
         acquire_nested(a, l, from, to), from \notin Holds(l), to \in Holds(l),
         \A k \in LockNames : k # l => (from \in Holds(k) <=> to \in Holds(k)),
         Depth(to) = Depth(from) + 1, from # "off", to # "off"
  PROVE  LockInv'
<1>1. /\ pc[a] = from /\ Goto(a, to) /\ push_off(HartOf(a))
      /\ lock[l] \in {0, HartOf(a)} /\ lock' = [lock EXCEPT ![l] = HartOf(a)]
      /\ panicked' = (lock[l] = HartOf(a))
  BY DEF acquire_nested, At
<1>2. a \notin Handlers => pc[a + 2] = "off"
  BY DEF acquire_nested, At, Handler
<1>3. lock[l] # HartOf(a)
  BY <1>1, <1>2, NotHeld
<1>4. LocksOK'
  <2>1. lock[l] = 0
    BY <1>1, <1>3
  <2> QED
    BY <1>1, <2>1, LocksGain
<1>5. RegsOK'
  BY <1>1, <1>2, RegsPush
<1>6. panicked' = FALSE
  BY <1>1, <1>3
<1> QED
  BY <1>1, <1>4, <1>5, <1>6, PlacesKept DEF LockInv

\* release: the lock is its hart's, and pop_off's checks succeed.
LEMMA ReleaseKeeps ==
  ASSUME LockInv, NEW a \in Actors, NEW l \in LockNames, NEW from, NEW to \in PlacesOf(a),
         At(a, from), release(a, l, to), from \in Holds(l), to \notin Holds(l),
         \A k \in LockNames : k # l => (from \in Holds(k) <=> to \in Holds(k)),
         Depth(from) = Depth(to) + 1, to # "off"
  PROVE  LockInv'
<1>1. /\ pc[a] = from /\ Goto(a, to) /\ pop_off(HartOf(a))
      /\ lock' = [lock EXCEPT ![l] = 0]
      /\ panicked' = (lock[l] # HartOf(a) \/ PopPanics(HartOf(a)))
  BY DEF release, At
<1>2. a \notin Handlers => pc[a + 2] = "off"
  BY DEF At, Handler
<1>3. LocksOK' /\ lock[l] = HartOf(a)
  BY <1>1, <1>2, LocksLose
<1>4. RegsOK' /\ PopPanics(HartOf(a)) = FALSE
  BY <1>1, <1>2, RegsPop
<1>5. panicked' = FALSE
  BY <1>1, <1>3, <1>4, Zenon
<1> QED
  BY <1>1, <1>3, <1>4, <1>5, PlacesKept DEF LockInv

\* uartputc_sync, whose push_off and pop_off take no lock.
LEMMA EchoKeeps ==
  ASSUME LockInv, NEW a \in Handlers, uartputc_sync(a)
  PROVE  LockInv'
<1>1. a \in Actors /\ PlacesOf(a) = HandlerPcs
  BY DEF Actors, Handlers, PlacesOf
<1>2. {"echo", "echo_wait", "echo_write"} \subseteq PlacesOf(a)
  BY <1>1 DEF HandlerPcs
<1>3. \A l \in LockNames : /\ "echo" \in Holds(l) <=> "echo_wait" \in Holds(l)
                           /\ "echo_wait" \in Holds(l) <=> "echo_write" \in Holds(l)
  BY DEF Holds, LockNames
<1>4. Depth("echo") = 1 /\ Depth("echo_wait") = 2 /\ Depth("echo_write") = 2
  BY DEF Depth, Once, Twice
<1>5. CASE /\ At(a, "echo") /\ push_off(HartOf(a)) /\ Goto(a, "echo_wait")
           /\ UNCHANGED <<lock, panicked>>
  <2>1. pc[a] = "echo"
    BY <1>5 DEF At
  <2>2. LocksOK'
    BY <1>1, <1>2, <1>3, <1>5, <2>1, LocksSame
  <2>3. RegsOK'
    BY <1>1, <1>2, <1>4, <1>5, <2>1, RegsPush
  <2> QED
    BY <1>1, <1>2, <1>5, <2>2, <2>3, PlacesKept DEF LockInv
<1>6. CASE At(a, "echo_wait") /\ Goto(a, "echo_write") /\ UNCHANGED <<locks, panicked>>
  <2>1. pc[a] = "echo_wait"
    BY <1>6 DEF At
  <2> QED
    BY <1>1, <1>2, <1>3, <1>4, <1>6, <2>1, MoveKeeps
<1>7. CASE /\ At(a, "echo_write") /\ pop_off(HartOf(a)) /\ Goto(a, "echo")
           /\ panicked' = PopPanics(HartOf(a)) /\ UNCHANGED lock
  <2>1. pc[a] = "echo_write"
    BY <1>7 DEF At
  <2>2. LocksOK'
    BY <1>1, <1>2, <1>3, <1>7, <2>1, LocksSame
  <2>3. RegsOK' /\ PopPanics(HartOf(a)) = FALSE
    <3>1. Depth(pc[a]) = Depth("echo") + 1 /\ "echo" \in PlacesOf(a)
      BY <1>2, <1>4, <2>1
    <3> QED
      BY <1>1, <1>7, <3>1, RegsPop, Zenon
  <2> QED
    BY <1>1, <1>2, <1>7, <2>2, <2>3, PlacesKept DEF LockInv
<1> QED
  BY <1>5, <1>6, <1>7 DEF uartputc_sync

\* The trap into the handler, which finds the process outside every push_off.
LEMMA TrapKeeps == ASSUME LockInv, NEW h \in Harts, trap(h) PROVE LockInv'
<1> DEFINE a == h + 2
<1>1. /\ a \in Actors /\ a \in Handlers /\ h \in Actors /\ HartOf(a) = h /\ Handler(h) = a /\ a # h
  BY HartFacts
<1>2. "getc" \in PlacesOf(a)
  BY <1>1 DEF PlacesOf, Handlers, HandlerPcs
<1>3. /\ ie[h] /\ pc[a] = "off" /\ Goto(a, "getc") /\ ie' = [ie EXCEPT ![h] = FALSE]
      /\ UNCHANGED <<lock, noff, intena, panicked>>
  BY <1>1 DEF trap
<1>4. pc'[a] = "getc" /\ pc'[h] = pc[h]
  BY <1>1, <1>2, <1>3, PlacesKept
<1>5. LocksOK'
  <2>1. \A l \in LockNames : "off" \in Holds(l) <=> "getc" \in Holds(l)
    BY DEF Holds, LockNames
  <2> QED
    BY <1>1, <1>2, <1>3, <2>1, LocksSame
<1>6. /\ ie \in [Harts -> BOOLEAN] /\ noff \in [Harts -> Int] /\ intena \in [Harts -> BOOLEAN]
      /\ HartOK(h)
  BY DEF LockInv, RegsOK
<1>7. ie' \in [Harts -> BOOLEAN] /\ ie'[h] = FALSE /\ \A g \in Harts : g # h => ie'[g] = ie[g]
  BY <1>3, <1>6, Zenon
<1>8. Depth(pc[h]) = 0 /\ noff[h] = 0 /\ Depth("getc") = 0
  <2>1. Depth(pc[h]) \in Nat /\ Depth("off") = 0
    BY DepthFacts
  <2>2. ~(Depth(pc[h]) > 0) /\ noff[h] = Depth(pc[h]) + Depth("off")
    BY <1>3, <1>6 DEF HartOK
  <2> QED
    BY <2>1, <2>2 DEF Depth, Once, Twice
<1>9. HartOK(h)'
  BY <1>3, <1>4, <1>7, <1>8 DEF HartOK
<1>10. RegsOK'
  BY <1>1, <1>2, <1>3, <1>6, <1>7, <1>9, OwnHart
<1> QED
  BY <1>1, <1>2, <1>3, <1>5, <1>10, PlacesKept DEF LockInv

\* The return from the handler, which turns interrupts on.
LEMMA CompleteKeeps == ASSUME LockInv, NEW h \in Harts, complete(h) PROVE LockInv'
<1> DEFINE a == h + 2
<1>1. /\ a \in Actors /\ a \in Handlers /\ h \in Actors /\ HartOf(a) = h /\ Handler(h) = a /\ a # h
  BY HartFacts
<1>2. "off" \in PlacesOf(a)
  BY <1>1 DEF PlacesOf, Handlers, HandlerPcs
<1>3. /\ pc[a] = "complete" /\ Goto(a, "off") /\ ie' = [ie EXCEPT ![h] = TRUE]
      /\ UNCHANGED <<lock, noff, intena, panicked>>
  BY <1>1 DEF complete, At
<1>4. pc'[a] = "off" /\ pc'[h] = pc[h]
  BY <1>1, <1>2, <1>3, PlacesKept
<1>5. LocksOK'
  <2>1. \A l \in LockNames : "complete" \in Holds(l) <=> "off" \in Holds(l)
    BY DEF Holds, LockNames
  <2> QED
    BY <1>1, <1>2, <1>3, <2>1, LocksSame
<1>6. /\ ie \in [Harts -> BOOLEAN] /\ noff \in [Harts -> Int] /\ intena \in [Harts -> BOOLEAN]
      /\ HartOK(h)
  BY DEF LockInv, RegsOK
<1>7. ie' \in [Harts -> BOOLEAN] /\ ie'[h] = TRUE /\ \A g \in Harts : g # h => ie'[g] = ie[g]
  BY <1>3, <1>6, Zenon
<1>8. Depth(pc[h]) = 0 /\ noff[h] = Depth("off") /\ Depth("off") = 0
  <2>1. Depth("complete") = 0 /\ Depth("off") = 0
    BY DEF Depth, Once, Twice
  <2> QED
    BY <1>3, <1>6, <2>1 DEF HartOK
<1>9. HartOK(h)'
  BY <1>3, <1>4, <1>7, <1>8 DEF HartOK
<1>10. RegsOK'
  BY <1>1, <1>2, <1>3, <1>6, <1>7, <1>9, OwnHart
<1> QED
  BY <1>1, <1>2, <1>3, <1>5, <1>10, PlacesKept DEF LockInv

-----------------------------------------------------------------------------
(* The steps *)

\* A step that moves nobody and touches no lock.
LEMMA IdleKeeps == ASSUME LockInv, UNCHANGED <<pc, locks, panicked>> PROVE LockInv'
<1>1. UNCHANGED <<pc, lock, ie, noff, intena, panicked>>
  BY DEF locks
<1> QED
  BY <1>1 DEF LockInv, PlacesOK, LocksOK, RegsOK, HartOK

LEMMA StartKeeps ==
  ASSUME LockInv, NEW a \in Actors, a # 2,
         \/ uartstart_look(a, "start", "send", "started")
         \/ uartstart_send(a, "send", "start")
  PROVE  LockInv'
<1>1. {"start", "send", "started", "waking"} \subseteq PlacesOf(a) /\ "writer" \in LockNames
  BY DEF PlacesOf, WriterPcs, HandlerPcs, LockNames
<1> USE DEF Holds, LockNames, Depth, Once, Twice
<1>2. CASE uartstart_look(a, "start", "send", "started")
  BY <1>1, <1>2, MoveKeeps DEF At, uartstart_look
<1>3. CASE At(a, "send") /\ Goto(a, "start") /\ UNCHANGED <<locks, panicked>>
  BY <1>1, <1>3, MoveKeeps DEF At
<1>4. CASE acquire_nested(a, "writer", "send", "waking")
  BY <1>1, <1>4, NestedKeeps
<1>5. CASE At(a, "waking") /\ release(a, "writer", "start")
  BY <1>1, <1>5, ReleaseKeeps
<1> QED
  BY <1>2, <1>3, <1>4, <1>5 DEF uartstart_send

LEMMA WriteKeeps == ASSUME LockInv, consolewrite PROVE LockInv'
<1>1. /\ Writer \in Harts /\ Writer \in Actors /\ Writer = 1 /\ PlacesOf(Writer) = WriterPcs
      /\ "tx" \in LockNames /\ "writer" \in LockNames
  BY DEF Writer, Harts, Actors, LockNames, PlacesOf
<1> USE DEF WriterPcs, Holds, LockNames, Depth, Once, Twice
<1>2. CASE acquire_off(Writer, "idle", "spin")
  BY <1>1, <1>2, OffKeeps
<1>3. CASE acquire_swap(Writer, "tx", "spin", "put")
  BY <1>1, <1>3, SwapKeeps
<1>4. CASE acquire_nested(Writer, "writer", "put", "tx_sleep")
  BY <1>1, <1>4, NestedKeeps
<1>5. CASE At(Writer, "tx_sleep") /\ release(Writer, "tx", "tx_sched")
  BY <1>1, <1>5, ReleaseKeeps
<1>6. CASE At(Writer, "tx_sched") /\ release(Writer, "writer", "idle")
  BY <1>1, <1>6, ReleaseKeeps
<1>7. CASE /\ At(Writer, "put")
           /\ Goto(Writer, IF TxIdle THEN "send" ELSE "started")
           /\ UNCHANGED <<locks, panicked>>
  BY <1>1, <1>7, MoveKeeps DEF At
<1>8. CASE \/ uartstart_look(Writer, "start", "send", "started")
           \/ uartstart_send(Writer, "send", "start")
  BY <1>1, <1>8, StartKeeps
<1>9. CASE At(Writer, "started") /\ release(Writer, "tx", "idle")
  BY <1>1, <1>9, ReleaseKeeps
<1> QED
  BY <1>2, <1>3, <1>4, <1>5, <1>6, <1>7, <1>8, <1>9 DEF consolewrite, uartputc

LEMMA ReadKeeps == ASSUME LockInv, consoleread PROVE LockInv'
<1>1. /\ Reader \in Harts /\ Reader \in Actors /\ Reader = 2 /\ PlacesOf(Reader) = ReaderPcs
      /\ "cons" \in LockNames /\ "reader" \in LockNames
  BY DEF Reader, Harts, Actors, LockNames, PlacesOf
<1> USE DEF ReaderPcs, Holds, LockNames, Depth, Once, Twice
<1>2. CASE acquire_off(Reader, "idle", "spin")
  BY <1>1, <1>2, OffKeeps
<1>3. CASE acquire_swap(Reader, "cons", "spin", "read")
  BY <1>1, <1>3, SwapKeeps
<1>4. CASE acquire_off(Reader, "sleep", "spin")
  BY <1>1, <1>4, OffKeeps
<1>5. CASE consoleread_wait
  <2>1. CASE acquire_nested(Reader, "reader", "read", "killed")
    BY <1>1, <2>1, NestedKeeps
  <2>2. CASE At(Reader, "killed") /\ release(Reader, "reader", IF rd.killed THEN "leave" ELSE "wait")
    <3>1. CASE rd.killed
      <4>1. release(Reader, "reader", "leave")
        BY <2>2, <3>1
      <4> QED
        BY <1>1, <2>2, <4>1, ReleaseKeeps
    <3>2. CASE ~rd.killed
      <4>1. release(Reader, "reader", "wait")
        BY <2>2, <3>2
      <4> QED
        BY <1>1, <2>2, <4>1, ReleaseKeeps
    <3> QED
      BY <3>1, <3>2
  <2>3. CASE At(Reader, "leave") /\ release(Reader, "cons", "exit")
    BY <1>1, <2>3, ReleaseKeeps
  <2>4. CASE acquire_nested(Reader, "reader", "wait", "cons_sleep")
    BY <1>1, <2>4, NestedKeeps
  <2>5. CASE At(Reader, "cons_sleep") /\ release(Reader, "cons", "cons_sched")
    BY <1>1, <2>5, ReleaseKeeps
  <2>6. CASE At(Reader, "cons_sched") /\ release(Reader, "reader", "sleep")
    BY <1>1, <2>6, ReleaseKeeps
  <2> QED
    BY <1>5, <2>1, <2>2, <2>3, <2>4, <2>5, <2>6 DEF consoleread_wait
<1>6. CASE consoleread_turn
  <2>1. CASE At(Reader, "read") /\ release(Reader, "cons", "return")
    BY <1>1, <2>1, ReleaseKeeps
  <2>2. CASE At(Reader, "read") /\ Goto(Reader, "read") /\ UNCHANGED <<locks, panicked>>
    BY <1>1, <2>2, MoveKeeps DEF At
  <2> QED
    BY <1>6, <2>1, <2>2 DEF consoleread_turn
<1>7. CASE At(Reader, "return") /\ Goto(Reader, "idle") /\ UNCHANGED <<locks, panicked>>
  BY <1>1, <1>7, MoveKeeps DEF At
<1> QED
  BY <1>2, <1>3, <1>4, <1>5, <1>6, <1>7 DEF consoleread

LEMMA HandlerKeeps == ASSUME LockInv, NEW h \in Harts, uartintr(h) PROVE LockInv'
<1> DEFINE a == Handler(h)
<1>1. /\ a \in Handlers /\ a \in Actors /\ a # 2 /\ PlacesOf(a) = HandlerPcs
      /\ "tx" \in LockNames /\ "cons" \in LockNames /\ "reader" \in LockNames
  BY HartFacts DEF Handlers, LockNames, PlacesOf
<1> HIDE DEF a
<1> USE DEF HandlerPcs, Holds, LockNames, Depth, Once, Twice
<1>2. CASE uartgetc(a)
  BY <1>1, <1>2, MoveKeeps DEF At, uartgetc
<1>3. CASE acquire_nested(a, "cons", "cons", "echo")
  BY <1>1, <1>3, NestedKeeps
<1>4. CASE uartputc_sync(a)
  BY <1>1, <1>4, EchoKeeps
<1>5. CASE acquire_nested(a, "reader", "echo", "wake")
  BY <1>1, <1>5, NestedKeeps
<1>6. CASE At(a, "wake") /\ release(a, "reader", "echo")
  BY <1>1, <1>6, ReleaseKeeps
<1>7. CASE At(a, "echo") /\ release(a, "cons", "getc")
  BY <1>1, <1>7, ReleaseKeeps
<1>8. CASE acquire_nested(a, "tx", "getc", "start")
  BY <1>1, <1>8, NestedKeeps
<1>9. CASE \/ uartstart_look(a, "start", "send", "started")
           \/ uartstart_send(a, "send", "start")
  BY <1>1, <1>9, StartKeeps
<1>10. CASE At(a, "started") /\ release(a, "tx", "complete")
  BY <1>1, <1>10, ReleaseKeeps
<1> QED
  BY <1>2, <1>3, <1>4, <1>5, <1>6, <1>7, <1>8, <1>9, <1>10 DEF uartintr, consoleintr, a

-----------------------------------------------------------------------------
(* The invariant *)

LEMMA InitInv == ConsoleInit => LockInv
<1> SUFFICES ASSUME ConsoleInit PROVE LockInv
  OBVIOUS
<1>1. /\ pc \in [Actors -> Pcs] /\ pc[1] = "idle" /\ pc[2] = "idle" /\ pc[3] = "off" /\ pc[4] = "off"
  <2>1. pc = [a \in Actors |-> IF a \in Handlers THEN "off" ELSE "idle"]
    BY DEF ConsoleInit
  <2> QED
    BY <2>1 DEF Actors, Handlers, Writer, Reader, Pcs, WriterPcs, HandlerPcs
<1>2. PlacesOK
  BY <1>1 DEF PlacesOK, PlacesOf, Actors, Handlers, Writer, Reader, WriterPcs, ReaderPcs, HandlerPcs
<1>3. lock \in [LockNames -> 0..2] /\ \A l \in LockNames : lock[l] = 0
  <2>1. lock = [l \in LockNames |-> 0]
    BY DEF ConsoleInit
  <2> QED
    BY <2>1
<1>4. \A l \in LockNames : "idle" \notin Holds(l) /\ "off" \notin Holds(l)
  BY DEF Holds, LockNames
<1>5. LocksOK
  BY <1>1, <1>3, <1>4 DEF LocksOK, Harts
<1>6. \A h \in Harts : ie[h] = TRUE /\ noff[h] = 0
  BY Zenon DEF ConsoleInit
<1>7. ie \in [Harts -> BOOLEAN] /\ intena \in [Harts -> BOOLEAN] /\ panicked = FALSE
  BY Zenon DEF ConsoleInit
<1>8. noff \in [Harts -> Int]
  <2>1. noff = [h \in Harts |-> 0]
    BY DEF ConsoleInit
  <2> QED
    BY <2>1
<1>9. Depth("idle") = 0 /\ Depth("off") = 0
  BY DEF Depth, Once, Twice
<1>10. ASSUME NEW h \in Harts PROVE HartOK(h)
  <2>1. pc[h] = "idle" /\ pc[h + 2] = "off"
    BY <1>1 DEF Harts
  <2> QED
    BY <1>6, <1>9, <2>1 DEF HartOK
<1> QED
  BY <1>2, <1>5, <1>7, <1>8, <1>10 DEF LockInv, RegsOK

LEMMA InvImplies == LockInv => LocksMaskInterrupts
<1> SUFFICES ASSUME LockInv PROVE LocksMaskInterrupts
  OBVIOUS
<1>1. ASSUME NEW h \in Harts, (\E l \in LockNames : lock[l] = h) \/ pc[h + 2] # "off"
      PROVE  ie[h] = FALSE
  <2>1. HartOK(h)
    BY DEF LockInv, RegsOK
  <2>2. CASE pc[h + 2] # "off"
    BY <2>1, <2>2 DEF HartOK
  <2>3. CASE pc[h + 2] = "off" /\ \E l \in LockNames : lock[l] = h
    <3>1. PICK l \in LockNames : lock[l] = h
      BY <2>3
    <3>2. pc[h] \in Holds(l) \/ pc[h + 2] \in Holds(l)
      BY <3>1 DEF LockInv, LocksOK
    <3>3. Depth(pc[h]) > 0
      <4>1. Depth("off") = 0 /\ ("off" \in Holds(l) => Depth("off") > 0)
        BY DepthFacts
      <4> QED
        BY <2>3, <3>2, <4>1, DepthFacts
    <3> QED
      BY <2>1, <3>3 DEF HartOK
  <2> QED
    BY <1>1, <2>2, <2>3
<1>2. \A h \in Harts : Handler(h) = h + 2
  BY DEF Handler
<1>3. panicked = FALSE
  BY DEF LockInv
<1> QED
  BY <1>1, <1>2, <1>3 DEF LocksMaskInterrupts

LEMMA NextKeeps == LockInv /\ [ConsoleNext]_vars => LockInv'
<1> SUFFICES ASSUME LockInv, [ConsoleNext]_vars PROVE LockInv'
  OBVIOUS
<1>1. CASE Kernel
  BY <1>1, WriteKeeps, ReadKeeps, TrapKeeps, HandlerKeeps, CompleteKeeps DEF Kernel
<1>2. CASE kill \/ UartReceives \/ UartSends
  BY <1>2, IdleKeeps DEF kill, UartReceives, UartSends
<1>3. CASE UNCHANGED vars
  BY <1>3, IdleKeeps DEF vars, locks
<1> QED
  BY <1>1, <1>2, <1>3 DEF ConsoleNext

\* Whatever is typed and written, and however long the buffers are: a hart that holds
\* cons.lock, uart_tx_lock or, nested in them or alone, the p->lock that sleep, wakeup and
\* killed take has interrupts off, through every nesting of push_off and pop_off, and so
\* has a hart that serves an interrupt; none of the checks of acquire, release and pop_off
\* (kernel/spinlock.c) fails.
THEOREM ConsoleLocksMaskInterrupts == ConsoleSpec => []LocksMaskInterrupts
<1>1. LockInv /\ [ConsoleNext]_vars => LockInv'
  BY NextKeeps
<1> QED
  BY <1>1, InitInv, InvImplies, PTL DEF ConsoleSpec

=============================================================================
