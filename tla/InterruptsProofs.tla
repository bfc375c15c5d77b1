-------------------------- MODULE InterruptsProofs --------------------------
(***************************************************************************)
(* Proofs about Interrupts, for controllers of any size, any masks and any *)
(* devices, in both builds.                                                *)
(***************************************************************************)
EXTENDS Interrupts, Facts

(***************************************************************************)
(* The inductive invariant.                                                *)
(***************************************************************************)

HandlerLabels == {"none", "lock", "check", "deref", "read", "call", "eoi"}
Dispatching == {"deref", "read", "call", "eoi"}
MainLabels ==
    {"init", "ready", "enabled", "listen", "initializing", "write", "push", "reload",
     "run", "sleep", "checked", "hlt", "halted"}

TypeInv ==
    /\ TypeOK
    /\ handler \in [pc : HandlerLabels, irq : Irqs]
    /\ main \in MainLabels

\* A handler runs with interrupts off; before `enable' there is none.
FlagInv ==
    /\ ~Idle => ~ifFlag
    /\ main \in {"init", "ready"} => Idle /\ ~ifFlag

\* The lines that a handler of an IRQ of its controller finds in service: its own and, on
\* the master, a cascade left behind. Only a spurious interrupt finds its own line missing,
\* and it is never dispatched.
ServiceInv ==
    /\ Idle => isr["slave"] = {} /\ isr["master"] \subseteq {Cascade}
    /\ ~Idle /\ destination(handler.irq) = "master" =>
         /\ isr["slave"] = {}
         /\ \/ /\ LocalIrq(handler.irq) # Cascade
               /\ isr["master"] \subseteq {LocalIrq(handler.irq), Cascade}
               /\ LocalIrq(handler.irq) \in isr["master"]
               /\ Cascade \in isr["master"] => LocalIrq(handler.irq) < Cascade
            \/ /\ handler.irq = SpuriousLine /\ handler.pc \notin Dispatching
               /\ isr["master"] \subseteq {Cascade}
    /\ ~Idle /\ destination(handler.irq) = "slave" =>
         /\ isr["master"] = {Cascade}
         /\ \/ isr["slave"] = {LocalIrq(handler.irq)}
            \/ isr["slave"] = {} /\ handler.pc \notin Dispatching

\* Only devices and the timer make requests, the masks are the BIOS's, and what is in service
\* other than the cascade was requested.
Served(p) == {l \in Lines : \E irq \in Devices \cup {PitIrq} :
                 destination(irq) = p /\ LocalIrq(irq) = l}
RequestInv ==
    /\ imr = BiosMask
    /\ \A p \in Pics : irr[p] \subseteq Served(p)
    /\ isr["master"] \ {Cascade} \subseteq Served("master") \ BiosMask["master"]
    /\ isr["slave"] \subseteq Served("slave") \ BiosMask["slave"]
    /\ OnlyRaisedIrqsDispatched

\* How far kmain has come with the timer, and the one listener it registers.
Unlistened == {"init", "ready", "enabled", "listen", "initializing", "write", "push"}
TimerInv ==
    /\ pit = "loaded" <=> Booted
    /\ listeners = [i \in Irqs |-> IF i = PitIrq /\ main \notin Unlistened THEN 1 ELSE 0]
    /\ ~Booted => pulses = 0
    /\ pulses \in Nat

\* No interrupt comes before the timer runs, unless devices raise IRQs while the kernel boots.
QuietInv ==
    ~DevicesWhileBooting =>
        /\ ~Booted => /\ Idle /\ counter = 0
                      /\ irr = [p \in Pics |-> {}] /\ glitch = [p \in Pics |-> FALSE]
        /\ EveryPulseCountedOnce

IInv == TypeInv /\ FlagInv /\ ServiceInv /\ RequestInv /\ TimerInv /\ QuietInv

(***************************************************************************)
(* Numbers of lines.                                                       *)
(***************************************************************************)

\* destination and the local line take an IRQ number apart.
LEMMA IrqSplit ==
  ASSUME NEW irq \in Irqs
  PROVE  /\ LocalIrq(irq) \in Lines
         /\ destination(irq) \in Pics
         /\ destination(irq) = "master" => LocalIrq(irq) = irq
         /\ destination(irq) = "slave" => irq = LinesPerPic + LocalIrq(irq)
<1>1. LinesPerPic \in Nat /\ LinesPerPic > 0 /\ irq \in Nat /\ irq < 2 * LinesPerPic
  BY LinesAssumption DEF Irqs, Lines, SpuriousLine
<1>2. CASE irq < LinesPerPic
  <2>1. irq % LinesPerPic = irq
    BY <1>1, <1>2
  <2> QED BY <2>1, <1>1, <1>2 DEF LocalIrq, destination, Lines, Pics
<1>3. CASE irq >= LinesPerPic
  <2>1. irq % LinesPerPic = irq - LinesPerPic
    BY <1>1, <1>3
  <2> QED BY <2>1, <1>1, <1>3 DEF LocalIrq, destination, Lines, Pics
<1> QED BY <1>1, <1>2, <1>3

\* The IRQ numbers that the controllers put on the bus are taken apart correctly.
LEMMA IrqBuild ==
  ASSUME NEW l \in Lines
  PROVE  /\ l \in Irqs /\ destination(l) = "master" /\ LocalIrq(l) = l
         /\ LinesPerPic + l \in Irqs /\ destination(LinesPerPic + l) = "slave"
         /\ LocalIrq(LinesPerPic + l) = l
<1>1. LinesPerPic \in Nat /\ LinesPerPic > 0 /\ l \in Nat /\ l < LinesPerPic
  BY LinesAssumption DEF Lines, SpuriousLine
<1>2. l % LinesPerPic = l /\ (LinesPerPic + l) % LinesPerPic = l
  BY <1>1
<1> QED BY <1>1, <1>2 DEF LocalIrq, destination, Irqs

\* The lines that kmain and the controllers use by number exist.
LEMMA Constants ==
  /\ LinesPerPic \in Nat /\ Lines \subseteq Nat /\ Irqs \subseteq Nat
  /\ Cascade \in Lines /\ SpuriousLine \in Lines /\ PitIrq \in Lines
  /\ PitIrq \in Irqs /\ PitIrq < Cascade /\ Cascade < SpuriousLine
  /\ Devices \subseteq Irqs /\ PitIrq \notin Devices /\ Cascade \notin Devices
  /\ Glitches \subseteq Devices
  BY LinesAssumption DEF Lines, Irqs, SpuriousLine, PitIrq

(***************************************************************************)
(* Initial states.                                                         *)
(***************************************************************************)

\* The state in which kmain calls interrupts::init.
LEMMA InitInv == Init => IInv
<1> SUFFICES ASSUME Init PROVE IInv
  OBVIOUS
<1> USE DEF Init
<1>1. TypeInv
  BY Constants, LinesAssumption DEF TypeInv, TypeOK, HandlerLabels, MainLabels, NoHandler, Pics
<1>2. FlagInv /\ ServiceInv /\ RequestInv
  BY Constants DEF FlagInv, ServiceInv, RequestInv, Idle, NoHandler, Pics, OnlyRaisedIrqsDispatched
<1>3. TimerInv /\ QuietInv
  BY Constants DEF TimerInv, QuietInv, Idle, NoHandler, Unlistened, Booted, Asleep,
     EveryPulseCountedOnce
<1> QED BY <1>1, <1>2, <1>3 DEF IInv

(***************************************************************************)
(* Steps.                                                                  *)
(***************************************************************************)

\* The line that a controller puts on the bus: one that may interrupt, and the lowest.
LEMMA Delivered ==
  ASSUME TypeInv, NEW p \in Pics, NEW requests \in SUBSET Lines, Ready(p, requests) # {}
  PROVE  LET l == Min(Ready(p, requests))
         IN  l \in Lines /\ l \in requests \ imr[p] /\ \A s \in isr[p] : l < s
<1>1. Ready(p, requests) \in SUBSET Nat
  BY Constants DEF Ready
<1> QED BY <1>1, LowestNumber DEF Ready

\* DeliverMaster and DeliverSlave, in terms of the line.
LEMMA DeliveredMaster ==
  ASSUME TypeInv, MasterReady # {}
  PROVE  LET l == Min(MasterReady)
         IN  /\ l \in Lines /\ l \in (irr["master"] \cup {Cascade}) \ imr["master"]
             /\ \A s \in isr["master"] : l < s
<1> DEFINE requests == irr["master"] \cup (IF SlaveInt THEN {Cascade} ELSE {})
<1>1. requests \in SUBSET Lines /\ "master" \in Pics
  BY Constants DEF TypeInv, TypeOK, Pics
<1>2. MasterReady = Ready("master", requests)
  BY DEF MasterReady
<1>3. requests \subseteq irr["master"] \cup {Cascade}
  OBVIOUS
<1> HIDE DEF requests
<1> QED BY <1>1, <1>2, <1>3, Delivered

\* The same for the slave, where nothing but its own requests counts.
LEMMA DeliveredSlave ==
  ASSUME TypeInv, SlaveReady # {}
  PROVE  LET l == Min(SlaveReady)
         IN  /\ l \in Lines /\ l \in irr["slave"] \ imr["slave"]
             /\ \A s \in isr["slave"] : l < s
<1>1. irr["slave"] \in SUBSET Lines /\ "slave" \in Pics
  BY DEF TypeInv, TypeOK, Pics
<1> QED BY <1>1, Delivered DEF SlaveReady

\* An end of interrupt clears the lowest line in service and no other.
LEMMA EndsLowest ==
  ASSUME TypeInv, NEW p \in Pics
  PROVE  /\ EndOfInterrupt(p) \in [Pics -> SUBSET Lines]
         /\ \A q \in Pics \ {p} : EndOfInterrupt(p)[q] = isr[q]
         /\ EndOfInterrupt(p)[p] \subseteq isr[p]
         /\ \A l \in isr[p] : (\A s \in isr[p] : l <= s) => EndOfInterrupt(p)[p] = isr[p] \ {l}
<1>1. isr[p] \in SUBSET Nat /\ isr \in [Pics -> SUBSET Lines]
  BY Constants DEF TypeInv, TypeOK
<1>2. CASE isr[p] = {}
  BY <1>1, <1>2 DEF EndOfInterrupt
<1>3. CASE isr[p] # {}
  <2>1. Min(isr[p]) \in isr[p] /\ \A s \in isr[p] : Min(isr[p]) <= s
    BY <1>1, <1>3, LowestNumber
  <2>2. \A l \in isr[p] : (\A s \in isr[p] : l <= s) => l = Min(isr[p])
    BY <2>1, <1>1
  <2> HIDE DEF Min
  <2> QED BY <1>1, <1>3, <2>1, <2>2 DEF EndOfInterrupt
<1> QED BY <1>2, <1>3

\* Every step keeps the registers, locks and program counters in their ranges.
LEMMA TypeStep == IInv /\ [Next]_vars => TypeInv'
<1> SUFFICES ASSUME IInv, [Next]_vars PROVE TypeInv'
  OBVIOUS
<1>0. CASE UNCHANGED vars
  BY <1>0 DEF vars, IInv, TypeInv, TypeOK
<1> USE DEF IInv, TypeInv, TypeOK, HandlerLabels, MainLabels, NoHandler, Pics, Enter, iret,
        controllers, locks, history, timer, machine, MainAt, HandlerAt
<1>1. CASE PitPulse
  BY <1>1, Constants DEF PitPulse
<1>2. ASSUME NEW irq \in Devices, RaiseDevice(irq) PROVE TypeInv'
  BY <1>2, Constants, IrqSplit DEF RaiseDevice
<1>3. ASSUME NEW irq \in Glitches, Withdraw(irq) PROVE TypeInv'
  BY <1>3, Constants, IrqSplit DEF Withdraw
<1>4. CASE DeliverMaster
  <2>1. Min(MasterReady) \in Lines /\ Min(MasterReady) \in Irqs
    BY <1>4, DeliveredMaster, IrqBuild DEF DeliverMaster
  <2> QED BY <1>4, <2>1 DEF DeliverMaster
<1>5. CASE DeliverSlave
  <2>1. Min(SlaveReady) \in Lines /\ LinesPerPic + Min(SlaveReady) \in Irqs
    BY <1>5, DeliveredSlave, IrqBuild DEF DeliverSlave
  <2> QED BY <1>5, <2>1, Constants DEF DeliverSlave
<1>6. ASSUME NEW p \in Pics, DeliverSpurious(p) PROVE TypeInv'
  <2>1. SpuriousLine \in Irqs /\ LinesPerPic + SpuriousLine \in Irqs /\ Cascade \in Lines
    BY Constants, IrqBuild
  <2>2. PICK i \in {SpuriousLine, LinesPerPic + SpuriousLine} : Enter(i)
    BY <1>6 DEF DeliverSpurious
  <2>3. isr' \in [Pics -> SUBSET Lines] /\ glitch' \in [Pics -> BOOLEAN] /\ irr' = irr
    BY <1>6, <2>1 DEF DeliverSpurious
  <2> QED BY <2>1, <2>2, <2>3
<1>7. CASE HandleLock
  BY <1>7 DEF HandleLock
<1>8. CASE HandlePanic
  BY <1>8 DEF HandlePanic
<1>9. CASE HandleSpurious
  <2>1. EndOfInterrupt("master") \in [Pics -> SUBSET Lines]
    BY EndsLowest
  <2> QED BY <1>9, <2>1, Constants DEF HandleSpurious
<1>10. CASE HandleReal
  BY <1>10 DEF HandleReal
<1>11. CASE DispatchDeref
  BY <1>11 DEF DispatchDeref
<1>12. CASE DispatchRead
  BY <1>12 DEF DispatchRead
<1>13. CASE dispatch_irq
  BY <1>13 DEF dispatch_irq
<1>14. CASE HandleEoi
  <2>1. EndOfInterrupt(destination(handler.irq)) \in [Pics -> SUBSET Lines]
    BY EndsLowest, IrqSplit
  <2> QED BY <1>14, <2>1, Constants DEF HandleEoi
<1>15. CASE init_and_remap
  BY <1>15 DEF init_and_remap
<1>16. CASE enable
  BY <1>16 DEF enable
<1>17. CASE configure
  BY <1>17 DEF configure
<1>18. CASE ListenDeref
  BY <1>18 DEF ListenDeref
<1>19. CASE ListenInitialized
  BY <1>19 DEF ListenInitialized
<1>20. CASE ListenWrite
  BY <1>20 DEF ListenWrite
<1>21. CASE ListenPush
  BY <1>21, Constants DEF ListenPush
<1>22. CASE set_reload_value
  BY <1>22 DEF set_reload_value
<1>23. ASSUME NEW ms \in SleepTimes, Sleep(ms) PROVE TypeInv'
  BY <1>23, LinesAssumption DEF Sleep
<1>24. CASE SleepCheck
  BY <1>24 DEF SleepCheck
<1>25. CASE SleepHlt
  BY <1>25 DEF SleepHlt
<1>26. CASE halt
  BY <1>26 DEF halt
<1> QED
  BY <1>0, <1>1, <1>2, <1>3, <1>4, <1>5, <1>6, <1>7, <1>8, <1>9, <1>10, <1>11, <1>12, <1>13,
     <1>14, <1>15, <1>16, <1>17, <1>18, <1>19, <1>20, <1>21, <1>22, <1>23, <1>24, <1>25,
     <1>26
     DEF Next, Hardware, Handler, Boot

\* Interrupts are off in a handler, and there is none before `enable'.
LEMMA FlagStep == IInv /\ [Next]_vars => FlagInv'
<1> SUFFICES ASSUME IInv, [Next]_vars PROVE FlagInv'
  OBVIOUS
<1>0. CASE UNCHANGED vars
  BY <1>0 DEF vars, IInv, FlagInv, Idle
<1> USE DEF IInv, FlagInv, TypeInv, HandlerLabels, MainLabels, Idle, NoHandler, Enter, iret,
        controllers, locks, history, timer, machine, MainAt, HandlerAt
<1>1. CASE PitPulse
  BY <1>1 DEF PitPulse
<1>2. ASSUME NEW irq \in Devices, RaiseDevice(irq) PROVE FlagInv'
  BY <1>2 DEF RaiseDevice
<1>3. ASSUME NEW irq \in Glitches, Withdraw(irq) PROVE FlagInv'
  BY <1>3 DEF Withdraw
<1>4. CASE DeliverMaster
  BY <1>4 DEF DeliverMaster
<1>5. CASE DeliverSlave
  BY <1>5 DEF DeliverSlave
<1>6. ASSUME NEW p \in Pics, DeliverSpurious(p) PROVE FlagInv'
  BY <1>6 DEF DeliverSpurious
<1>7. CASE HandleLock
  BY <1>7 DEF HandleLock
<1>8. CASE HandlePanic
  BY <1>8 DEF HandlePanic
<1>9. CASE HandleSpurious
  BY <1>9 DEF HandleSpurious
<1>10. CASE HandleReal
  BY <1>10 DEF HandleReal
<1>11. CASE DispatchDeref
  BY <1>11 DEF DispatchDeref
<1>12. CASE DispatchRead
  BY <1>12 DEF DispatchRead
<1>13. CASE dispatch_irq
  BY <1>13 DEF dispatch_irq
<1>14. CASE HandleEoi
  BY <1>14 DEF HandleEoi
<1>15. CASE init_and_remap
  BY <1>15 DEF init_and_remap
<1>16. CASE enable
  BY <1>16 DEF enable
<1>17. CASE configure
  BY <1>17 DEF configure
<1>18. CASE ListenDeref
  BY <1>18 DEF ListenDeref
<1>19. CASE ListenInitialized
  BY <1>19 DEF ListenInitialized
<1>20. CASE ListenWrite
  BY <1>20 DEF ListenWrite
<1>21. CASE ListenPush
  BY <1>21 DEF ListenPush
<1>22. CASE set_reload_value
  BY <1>22 DEF set_reload_value
<1>23. ASSUME NEW ms \in SleepTimes, Sleep(ms) PROVE FlagInv'
  BY <1>23 DEF Sleep
<1>24. CASE SleepCheck
  BY <1>24 DEF SleepCheck
<1>25. CASE SleepHlt
  BY <1>25 DEF SleepHlt
<1>26. CASE halt
  BY <1>26 DEF halt
<1> QED
  BY <1>0, <1>1, <1>2, <1>3, <1>4, <1>5, <1>6, <1>7, <1>8, <1>9, <1>10, <1>11, <1>12, <1>13,
     <1>14, <1>15, <1>16, <1>17, <1>18, <1>19, <1>20, <1>21, <1>22, <1>23, <1>24, <1>25,
     <1>26
     DEF Next, Hardware, Handler, Boot

\* What is in service stays what ServiceInv says: every delivery adds the line of its handler,
\* below what a cascade left behind, and the handler's end of interrupt removes just that line.
LEMMA ServiceStep == IInv /\ [Next]_vars => ServiceInv'
<1> SUFFICES ASSUME IInv, [Next]_vars PROVE ServiceInv'
  OBVIOUS
<1>0. CASE UNCHANGED vars
  BY <1>0 DEF vars, IInv, ServiceInv, Idle
<1> USE DEF IInv, ServiceInv, TypeInv, TypeOK, Idle, NoHandler, Pics, controllers, locks,
        history, timer, machine, MainAt, HandlerAt
<1>1. CASE PitPulse
  BY <1>1, Constants DEF PitPulse
<1>2. ASSUME NEW irq \in Devices, RaiseDevice(irq) PROVE ServiceInv'
  BY <1>2 DEF RaiseDevice
<1>3. ASSUME NEW irq \in Glitches, Withdraw(irq) PROVE ServiceInv'
  BY <1>3 DEF Withdraw
<1>4. CASE DeliverMaster
  <2> DEFINE l == Min(MasterReady)
  <2>1. l \in Lines /\ l \in (irr["master"] \cup {Cascade}) \ imr["master"]
        /\ \A s \in isr["master"] : l < s
    BY <1>4, DeliveredMaster DEF DeliverMaster
  <2>2. destination(l) = "master" /\ LocalIrq(l) = l
    BY <2>1, IrqBuild
  <2>3. /\ l # Cascade /\ Idle /\ handler' = [pc |-> "lock", irq |-> l]
        /\ isr' = [isr EXCEPT !["master"] = @ \cup {l}]
    BY <1>4 DEF DeliverMaster, Enter
  <2> HIDE DEF l
  <2> QED BY <2>1, <2>2, <2>3, Constants
<1>5. CASE DeliverSlave
  <2> DEFINE l == Min(SlaveReady)
  <2>1. l \in Lines /\ l \in irr["slave"] \ imr["slave"]
    BY <1>5, DeliveredSlave DEF DeliverSlave
  <2>2. destination(LinesPerPic + l) = "slave" /\ LocalIrq(LinesPerPic + l) = l
    BY <2>1, IrqBuild
  <2>3. /\ Idle /\ handler' = [pc |-> "lock", irq |-> LinesPerPic + l]
        /\ isr' = [isr EXCEPT !["master"] = @ \cup {Cascade}, !["slave"] = @ \cup {l}]
    BY <1>5 DEF DeliverSlave, Enter
  <2> HIDE DEF l
  <2> QED BY <2>1, <2>2, <2>3, Constants
<1>6. ASSUME NEW p \in Pics, DeliverSpurious(p) PROVE ServiceInv'
  <2>1. /\ destination(SpuriousLine) = "master"
        /\ destination(LinesPerPic + SpuriousLine) = "slave"
        /\ SpuriousLine # LinesPerPic + SpuriousLine
    BY Constants, IrqBuild
  <2>2. Idle /\ handler'.pc = "lock" /\ handler'.irq \in {SpuriousLine, LinesPerPic + SpuriousLine}
    BY <1>6 DEF DeliverSpurious, Enter
  <2>3. CASE handler'.irq = SpuriousLine
    <3>1. isr' = isr
      BY <1>6, <2>3, <2>1 DEF DeliverSpurious, Enter
    <3> QED BY <2>1, <2>2, <2>3, <3>1 DEF Dispatching
  <2>4. CASE handler'.irq = LinesPerPic + SpuriousLine
    <3>1. isr' = [isr EXCEPT !["master"] = @ \cup {Cascade}]
      BY <1>6, <2>4, <2>1 DEF DeliverSpurious, Enter
    <3> QED BY <2>1, <2>2, <2>4, <3>1 DEF Dispatching
  <2> QED BY <2>2, <2>3, <2>4
<1>7. CASE HandleLock
  BY <1>7 DEF HandleLock, Dispatching
<1>8. CASE HandlePanic
  BY <1>8 DEF HandlePanic
<1>9. CASE HandleSpurious
  <2>1. handler.irq \in Irqs /\ ~Idle /\ handler' = NoHandler
    BY <1>9 DEF HandleSpurious, iret
  <2>2. destination(handler.irq) \in {"master", "slave"}
    BY <2>1, IrqSplit
  <2>3. CASE destination(handler.irq) = "master"
    BY <1>9, <2>1, <2>3 DEF HandleSpurious, is_spurious
  <2>4. CASE destination(handler.irq) = "slave"
    <3>1. isr' = EndOfInterrupt("master") /\ isr["slave"] = {} /\ isr["master"] = {Cascade}
      BY <1>9, <2>1, <2>4 DEF HandleSpurious, is_spurious
    <3>2. isr'["slave"] = {} /\ isr'["master"] \subseteq {Cascade}
      BY <3>1, EndsLowest
    <3> QED BY <2>1, <3>2
  <2> QED BY <2>2, <2>3, <2>4
<1>10. CASE HandleReal
  <2> DEFINE d == destination(handler.irq)
             l == LocalIrq(handler.irq)
  <2>1. /\ handler.irq \in Irqs /\ ~Idle /\ ~Idle' /\ handler'.irq = handler.irq
        /\ handler'.pc = "deref" /\ isr' = isr
    BY <1>10 DEF HandleReal
  <2>2. l \in isr[d]
    BY <1>10 DEF HandleReal, is_spurious
  <2>3. d \in {"master", "slave"}
    BY <2>1, IrqSplit
  <2>4. LocalIrq(SpuriousLine) = SpuriousLine /\ SpuriousLine # Cascade
    BY IrqBuild, Constants
  <2>5. CASE d = "master"
    <3>1. /\ isr["slave"] = {} /\ l # Cascade /\ isr["master"] \subseteq {l, Cascade}
          /\ Cascade \in isr["master"] => l < Cascade
      BY <2>1, <2>2, <2>4, <2>5
    <3> QED BY <2>1, <2>2, <2>5, <3>1
  <2>6. CASE d = "slave"
    BY <2>1, <2>2, <2>6
  <2> QED BY <2>3, <2>5, <2>6
<1>11. CASE DispatchDeref
  BY <1>11 DEF DispatchDeref, Dispatching
<1>12. CASE DispatchRead
  BY <1>12 DEF DispatchRead, Dispatching
<1>13. CASE dispatch_irq
  BY <1>13 DEF dispatch_irq, Dispatching
<1>14. CASE HandleEoi
  <2> DEFINE d == destination(handler.irq)
             l == LocalIrq(handler.irq)
  <2>1. handler.irq \in Irqs /\ ~Idle /\ handler.pc \in Dispatching /\ handler' = NoHandler
    BY <1>14 DEF HandleEoi, iret, Dispatching
  <2>2. d \in {"master", "slave"} /\ l \in Nat /\ Cascade \in Nat
    BY <2>1, IrqSplit, Constants
  <2>3. l \in isr[d] /\ \A s \in isr[d] : l <= s
    BY <2>1, <2>2
  <2>4. isr' = EndOfInterrupt(d)
    BY <1>14 DEF HandleEoi
  <2>5. isr'[d] = isr[d] \ {l} /\ \A q \in Pics \ {d} : isr'[q] = isr[q]
    BY <2>2, <2>3, <2>4, EndsLowest
  <2> HIDE DEF d, l
  <2>6. isr'["slave"] = {} /\ isr'["master"] \subseteq {Cascade}
    BY <2>1, <2>2, <2>5 DEF d, l
  <2> QED BY <2>1, <2>6
<1>15. CASE init_and_remap
  BY <1>15 DEF init_and_remap, FlagInv
<1>16. CASE enable
  BY <1>16 DEF enable
<1>17. CASE configure
  BY <1>17 DEF configure
<1>18. CASE ListenDeref
  BY <1>18 DEF ListenDeref
<1>19. CASE ListenInitialized
  BY <1>19 DEF ListenInitialized
<1>20. CASE ListenWrite
  BY <1>20 DEF ListenWrite
<1>21. CASE ListenPush
  BY <1>21 DEF ListenPush
<1>22. CASE set_reload_value
  BY <1>22 DEF set_reload_value
<1>23. ASSUME NEW ms \in SleepTimes, Sleep(ms) PROVE ServiceInv'
  BY <1>23 DEF Sleep
<1>24. CASE SleepCheck
  BY <1>24 DEF SleepCheck
<1>25. CASE SleepHlt
  BY <1>25 DEF SleepHlt
<1>26. CASE halt
  BY <1>26 DEF halt
<1> QED
  BY <1>0, <1>1, <1>2, <1>3, <1>4, <1>5, <1>6, <1>7, <1>8, <1>9, <1>10, <1>11, <1>12, <1>13,
     <1>14, <1>15, <1>16, <1>17, <1>18, <1>19, <1>20, <1>21, <1>22, <1>23, <1>24, <1>25,
     <1>26
     DEF Next, Hardware, Handler, Boot

\* Requests come from devices and the timer alone, what is in service had been requested, and
\* so had what is dispatched: dispatch_irq is reached for a line in service and for no other.
LEMMA RequestStep == IInv /\ [Next]_vars => RequestInv'
<1> SUFFICES ASSUME IInv, [Next]_vars PROVE RequestInv'
  OBVIOUS
<1>0. CASE UNCHANGED vars
  BY <1>0 DEF vars, IInv, RequestInv, OnlyRaisedIrqsDispatched
<1> USE DEF IInv, RequestInv, TypeInv, TypeOK, Pics, OnlyRaisedIrqsDispatched, controllers,
        locks, history, timer, machine, MainAt, HandlerAt
<1>1. CASE PitPulse
  <2>1. PitIrq \in Served("master")
    BY Constants, IrqBuild DEF Served
  <2> QED BY <1>1, <2>1 DEF PitPulse
<1>2. ASSUME NEW irq \in Devices, RaiseDevice(irq) PROVE RequestInv'
  <2>1. LocalIrq(irq) \in Served(destination(irq))
    BY Constants, IrqSplit DEF Served
  <2> QED BY <1>2, <2>1 DEF RaiseDevice
<1>3. ASSUME NEW irq \in Glitches, Withdraw(irq) PROVE RequestInv'
  BY <1>3 DEF Withdraw
<1>4. CASE DeliverMaster
  <2> DEFINE l == Min(MasterReady)
  <2>1. l \in Lines /\ l \in (irr["master"] \cup {Cascade}) \ imr["master"]
        /\ \A s \in isr["master"] : l < s
    BY <1>4, DeliveredMaster DEF DeliverMaster
  <2>2. destination(l) = "master" /\ LocalIrq(l) = l
    BY <2>1, IrqBuild
  <2>3. /\ l # Cascade /\ Idle /\ handler' = [pc |-> "lock", irq |-> l]
        /\ isr' = [isr EXCEPT !["master"] = @ \cup {l}]
    BY <1>4 DEF DeliverMaster, Enter
  <2> HIDE DEF l
  <2>4. irr' = [irr EXCEPT !["master"] = @ \ {l}] /\ UNCHANGED <<imr, dispatched>>
    BY <1>4 DEF DeliverMaster, Enter, l
  <2> QED BY <2>1, <2>3, <2>4, Constants
<1>5. CASE DeliverSlave
  <2> DEFINE l == Min(SlaveReady)
  <2>1. l \in Lines /\ l \in irr["slave"] \ imr["slave"]
    BY <1>5, DeliveredSlave DEF DeliverSlave
  <2>2. destination(LinesPerPic + l) = "slave" /\ LocalIrq(LinesPerPic + l) = l
    BY <2>1, IrqBuild
  <2>3. /\ Idle /\ handler' = [pc |-> "lock", irq |-> LinesPerPic + l]
        /\ isr' = [isr EXCEPT !["master"] = @ \cup {Cascade}, !["slave"] = @ \cup {l}]
    BY <1>5 DEF DeliverSlave, Enter
  <2> HIDE DEF l
  <2>4. irr' = [irr EXCEPT !["slave"] = @ \ {l}] /\ UNCHANGED <<imr, dispatched>>
    BY <1>5 DEF DeliverSlave, Enter, l
  <2> QED BY <2>1, <2>3, <2>4, Constants
<1>6. ASSUME NEW p \in Pics, DeliverSpurious(p) PROVE RequestInv'
  <2>1. isr' \in {isr, [isr EXCEPT !["master"] = @ \cup {Cascade}]}
        /\ UNCHANGED <<imr, irr, dispatched>>
    BY <1>6 DEF DeliverSpurious, Enter
  <2> QED BY <2>1
<1>7. CASE HandleLock
  BY <1>7 DEF HandleLock
<1>8. CASE HandlePanic
  BY <1>8 DEF HandlePanic
<1>9. CASE HandleSpurious
  <2>1. handler.irq \in Irqs
        /\ isr' \in {isr, EndOfInterrupt(destination(handler.irq)), EndOfInterrupt("master")}
    BY <1>9 DEF HandleSpurious
  <2>2. \A p \in Pics : isr'[p] \subseteq isr[p]
    BY <2>1, IrqSplit, EndsLowest
  <2>3. UNCHANGED <<imr, irr, dispatched>>
    BY <1>9 DEF HandleSpurious
  <2> QED BY <2>2, <2>3
<1>10. CASE HandleReal
  BY <1>10 DEF HandleReal
<1>11. CASE DispatchDeref
  BY <1>11 DEF DispatchDeref
<1>12. CASE DispatchRead
  <2> DEFINE d == destination(handler.irq)
             l == LocalIrq(handler.irq)
  <2>1. handler.irq \in Irqs /\ ~Idle /\ handler.pc \in Dispatching
    BY <1>12 DEF DispatchRead, Dispatching, Idle
  <2>2. d \in {"master", "slave"}
    BY <2>1, IrqSplit
  <2>3. l \in isr[d] /\ (d = "master" => l # Cascade)
    BY <2>1, <2>2 DEF ServiceInv
  <2>4. l \in Served(d) \ BiosMask[d]
    BY <2>2, <2>3
  <2>5. PICK irq \in Devices \cup {PitIrq} : destination(irq) = d /\ LocalIrq(irq) = l
    BY <2>4 DEF Served
  <2>6. irq = handler.irq
    <3> DEFINE i == handler.irq
    <3>1. (d = "master" => l = i) /\ (d = "slave" => i = LinesPerPic + l)
      BY <2>1, IrqSplit
    <3>2. irq \in Irqs
      BY Constants
    <3>3. (destination(irq) = "master" => LocalIrq(irq) = irq)
          /\ (destination(irq) = "slave" => irq = LinesPerPic + LocalIrq(irq))
      BY <3>2, IrqSplit
    <3> QED BY <2>2, <2>5, <3>1, <3>3
  <2>7. dispatched' = dispatched \cup {handler.irq} /\ UNCHANGED <<imr, irr, isr>>
    BY <1>12 DEF DispatchRead
  <2> QED BY <2>4, <2>6, <2>7
<1>13. CASE dispatch_irq
  BY <1>13 DEF dispatch_irq
<1>14. CASE HandleEoi
  <2>1. handler.irq \in Irqs
        /\ isr' \in {isr, EndOfInterrupt(destination(handler.irq)), EndOfInterrupt("master")}
    BY <1>14 DEF HandleEoi
  <2>2. \A p \in Pics : isr'[p] \subseteq isr[p]
    BY <2>1, IrqSplit, EndsLowest
  <2>3. UNCHANGED <<imr, irr, dispatched>>
    BY <1>14 DEF HandleEoi
  <2> QED BY <2>2, <2>3
<1>15. CASE init_and_remap
  BY <1>15 DEF init_and_remap
<1>16. CASE enable
  BY <1>16 DEF enable
<1>17. CASE configure
  BY <1>17 DEF configure
<1>18. CASE ListenDeref
  BY <1>18 DEF ListenDeref
<1>19. CASE ListenInitialized
  BY <1>19 DEF ListenInitialized
<1>20. CASE ListenWrite
  BY <1>20 DEF ListenWrite
<1>21. CASE ListenPush
  BY <1>21 DEF ListenPush
<1>22. CASE set_reload_value
  BY <1>22 DEF set_reload_value
<1>23. ASSUME NEW ms \in SleepTimes, Sleep(ms) PROVE RequestInv'
  BY <1>23 DEF Sleep
<1>24. CASE SleepCheck
  BY <1>24 DEF SleepCheck
<1>25. CASE SleepHlt
  BY <1>25 DEF SleepHlt
<1>26. CASE halt
  BY <1>26 DEF halt
<1> QED
  BY <1>0, <1>1, <1>2, <1>3, <1>4, <1>5, <1>6, <1>7, <1>8, <1>9, <1>10, <1>11, <1>12, <1>13,
     <1>14, <1>15, <1>16, <1>17, <1>18, <1>19, <1>20, <1>21, <1>22, <1>23, <1>24, <1>25,
     <1>26
     DEF Next, Hardware, Handler, Boot

\* Exactly one listener is registered, before the timer is loaded, and no pulse counts before.
LEMMA TimerStep == IInv /\ [Next]_vars => TimerInv'
<1> SUFFICES ASSUME IInv, [Next]_vars PROVE TimerInv'
  OBVIOUS
<1>0. CASE UNCHANGED vars
  BY <1>0 DEF vars, IInv, TimerInv, Unlistened, Booted, Asleep
<1> USE DEF IInv, TimerInv, TypeInv, TypeOK, MainLabels, Unlistened, Booted, Asleep, Enter,
        iret, controllers, locks, history, timer, machine, MainAt, HandlerAt
<1>1. CASE PitPulse
  BY <1>1 DEF PitPulse
<1>2. ASSUME NEW irq \in Devices, RaiseDevice(irq) PROVE TimerInv'
  BY <1>2 DEF RaiseDevice
<1>3. ASSUME NEW irq \in Glitches, Withdraw(irq) PROVE TimerInv'
  BY <1>3 DEF Withdraw
<1>4. CASE DeliverMaster
  BY <1>4 DEF DeliverMaster
<1>5. CASE DeliverSlave
  BY <1>5 DEF DeliverSlave
<1>6. ASSUME NEW p \in Pics, DeliverSpurious(p) PROVE TimerInv'
  BY <1>6 DEF DeliverSpurious
<1>7. CASE HandleLock
  BY <1>7 DEF HandleLock
<1>8. CASE HandlePanic
  BY <1>8 DEF HandlePanic
<1>9. CASE HandleSpurious
  BY <1>9 DEF HandleSpurious
<1>10. CASE HandleReal
  BY <1>10 DEF HandleReal
<1>11. CASE DispatchDeref
  BY <1>11 DEF DispatchDeref
<1>12. CASE DispatchRead
  BY <1>12 DEF DispatchRead
<1>13. CASE dispatch_irq
  BY <1>13 DEF dispatch_irq
<1>14. CASE HandleEoi
  BY <1>14 DEF HandleEoi
<1>15. CASE init_and_remap
  BY <1>15 DEF init_and_remap
<1>16. CASE enable
  BY <1>16 DEF enable
<1>17. CASE configure
  BY <1>17 DEF configure
<1>18. CASE ListenDeref
  BY <1>18 DEF ListenDeref
<1>19. CASE ListenInitialized
  BY <1>19 DEF ListenInitialized
<1>20. CASE ListenWrite
  BY <1>20 DEF ListenWrite
<1>21. CASE ListenPush
  <2>1. listeners' = [listeners EXCEPT ![PitIrq] = @ + 1] /\ main = "push" /\ main' = "reload"
    BY <1>21 DEF ListenPush
  <2>2. \A i \in Irqs : listeners[i] = 0
    BY <2>1
  <2>3. listeners' = [i \in Irqs |-> IF i = PitIrq THEN 1 ELSE 0]
    <3>1. listeners \in [Irqs -> Nat] /\ PitIrq \in Irqs
      BY Constants
    <3>2. \A i \in Irqs : listeners'[i] = IF i = PitIrq THEN 1 ELSE 0
      BY <2>1, <2>2, <3>1
    <3>3. listeners' = [i \in Irqs |-> listeners'[i]]
      BY <2>1, <3>1
    <3> QED BY <3>2, <3>3, Zenon
  <2>4. UNCHANGED <<pit, pulses>>
    BY <1>21 DEF ListenPush
  <2> QED BY <2>1, <2>3, <2>4
<1>22. CASE set_reload_value
  BY <1>22 DEF set_reload_value
<1>23. ASSUME NEW ms \in SleepTimes, Sleep(ms) PROVE TimerInv'
  BY <1>23 DEF Sleep
<1>24. CASE SleepCheck
  BY <1>24 DEF SleepCheck
<1>25. CASE SleepHlt
  BY <1>25 DEF SleepHlt
<1>26. CASE halt
  BY <1>26 DEF halt
<1> QED
  BY <1>0, <1>1, <1>2, <1>3, <1>4, <1>5, <1>6, <1>7, <1>8, <1>9, <1>10, <1>11, <1>12, <1>13,
     <1>14, <1>15, <1>16, <1>17, <1>18, <1>19, <1>20, <1>21, <1>22, <1>23, <1>24, <1>25,
     <1>26
     DEF Next, Hardware, Handler, Boot

\* How many pulses the request register holds: one at most.
LEMMA PulsePending ==
  ASSUME NEW S
  PROVE  Cardinality(S \cap {PitIrq}) = IF PitIrq \in S THEN 1 ELSE 0
<1>1. CASE PitIrq \in S
  <2>1. S \cap {PitIrq} = {PitIrq}
    BY <1>1
  <2> QED BY <1>1, <2>1, FS_Singleton
<1>2. CASE PitIrq \notin S
  <2>1. S \cap {PitIrq} = {}
    BY <1>2
  <2> QED BY <1>2, <2>1, FS_EmptySet
<1> QED BY <1>1, <1>2

\* While kmain has not loaded the timer and no device interrupts either, no controller has
\* anything to deliver.
LEMMA NothingToDeliver ==
  ASSUME IInv, ~DevicesWhileBooting, ~Booted
  PROVE  SlaveReady = {} /\ MasterReady = {} /\ \A p \in Pics : ~glitch[p]
<1>1. irr = [p \in Pics |-> {}] /\ glitch = [p \in Pics |-> FALSE]
  BY DEF IInv, QuietInv
<1>2. SlaveReady = {} /\ ~SlaveInt
  BY <1>1 DEF SlaveReady, SlaveInt, Ready, Pics
<1>3. MasterReady = {}
  BY <1>1, <1>2 DEF MasterReady, Ready, Pics
<1> QED BY <1>1, <1>2, <1>3

\* The pulses that are on their way through a handler.
InHandler ==
    IF handler.pc \in {"lock", "check", "deref", "read", "call"} /\ handler.irq = PitIrq
    THEN 1 ELSE 0
Pending == IF PitIrq \in irr["master"] THEN 1 ELSE 0

\* EveryPulseCountedOnce without the cardinality.
Counted == pit = "loaded" => pulses = counter + Pending + InHandler

\* The two say the same, of the state before and after a step.
LEMMA CountedOnce ==
  (EveryPulseCountedOnce <=> Counted) /\ (EveryPulseCountedOnce <=> Counted)'
<1>1. \A S : Cardinality(S \cap {PitIrq}) = IF PitIrq \in S THEN 1 ELSE 0
  BY PulsePending
<1>2. EveryPulseCountedOnce <=> Counted
  BY <1>1 DEF EveryPulseCountedOnce, Counted, Pending, InHandler
<1>3. (EveryPulseCountedOnce <=> Counted)'
  BY <1>1 DEF EveryPulseCountedOnce, Counted, Pending, InHandler
<1> QED BY <1>2, <1>3

\* QuietInv for a machine whose devices are silent until the timer runs.
Quiet ==
    /\ ~Booted => /\ Idle /\ counter = 0
                  /\ irr = [p \in Pics |-> {}] /\ glitch = [p \in Pics |-> FALSE]
    /\ Counted

\* No step loses a pulse or counts it twice: a delivery moves it from the request register
\* into a handler, and that handler finds exactly one listener to call.
LEMMA QuietStep ==
  ASSUME IInv, ~DevicesWhileBooting, Quiet, [Next]_vars
  PROVE  Quiet'
<1>0. CASE UNCHANGED vars
  BY <1>0 DEF vars, Quiet, Counted, Pending, InHandler, Idle, Booted, Asleep
<1> USE DEF Counted, Pending, InHandler, Quiet, IInv, TimerInv, TypeInv, TypeOK, Pics, Idle,
        Booted, Asleep, Unlistened, controllers, locks, history, timer, machine, MainAt,
        HandlerAt
<1>1. CASE PitPulse
  BY <1>1 DEF PitPulse
<1>2. ASSUME NEW irq \in Devices, RaiseDevice(irq) PROVE Quiet'
  <2>1. irq # PitIrq /\ (destination(irq) = "master" => LocalIrq(irq) # PitIrq)
    BY Constants, IrqSplit
  <2>2. destination(irq) \in Pics /\ Booted
    BY <1>2, Constants, IrqSplit DEF RaiseDevice
  <2>3. irr' = [irr EXCEPT ![destination(irq)] = @ \cup {LocalIrq(irq)}]
    BY <1>2 DEF RaiseDevice
  <2>4. PitIrq \in irr'["master"] <=> PitIrq \in irr["master"]
    BY <2>1, <2>2, <2>3
  <2>5. UNCHANGED <<pit, counter, pulses, handler, main>>
    BY <1>2 DEF RaiseDevice
  <2> QED BY <2>2, <2>4, <2>5
<1>3. ASSUME NEW irq \in Glitches, Withdraw(irq) PROVE Quiet'
  <2>1. irq # PitIrq /\ (destination(irq) = "master" => LocalIrq(irq) # PitIrq)
    BY Constants, IrqSplit
  <2>2. destination(irq) \in Pics /\ Booted
    BY <1>3, Constants, IrqSplit DEF Withdraw
  <2>3. irr' = [irr EXCEPT ![destination(irq)] = @ \ {LocalIrq(irq)}]
    BY <1>3 DEF Withdraw
  <2>4. PitIrq \in irr'["master"] <=> PitIrq \in irr["master"]
    BY <2>1, <2>2, <2>3
  <2>5. UNCHANGED <<pit, counter, pulses, handler, main>>
    BY <1>3 DEF Withdraw
  <2> QED BY <2>2, <2>4, <2>5
<1>4. CASE DeliverMaster
  <2> DEFINE l == Min(MasterReady)
  <2>1. l \in Lines /\ Booted
    BY <1>4, DeliveredMaster, NothingToDeliver DEF DeliverMaster
  <2>2. /\ Idle /\ handler' = [pc |-> "lock", irq |-> l] /\ UNCHANGED <<pit, counter, pulses>>
        /\ irr' = [irr EXCEPT !["master"] = @ \ {l}]
    BY <1>4 DEF DeliverMaster, Enter
  <2>3. l = PitIrq => PitIrq \in irr["master"]
    BY <1>4, DeliveredMaster, Constants DEF DeliverMaster
  <2>4. Booted'
    BY <1>4, <2>1 DEF DeliverMaster, Enter
  <2> HIDE DEF l
  <2>5. PitIrq \in irr'["master"] <=> PitIrq \in irr["master"] /\ l # PitIrq
    BY <2>2
  <2> QED BY <2>1, <2>2, <2>3, <2>4, <2>5
<1>5. CASE DeliverSlave
  <2> DEFINE l == Min(SlaveReady)
  <2>1. l \in Lines /\ Booted
    BY <1>5, DeliveredSlave, NothingToDeliver DEF DeliverSlave
  <2>2. /\ Idle /\ handler' = [pc |-> "lock", irq |-> LinesPerPic + l]
        /\ UNCHANGED <<pit, counter, pulses>> /\ irr' = [irr EXCEPT !["slave"] = @ \ {l}]
    BY <1>5 DEF DeliverSlave, Enter
  <2>3. LinesPerPic + l # PitIrq
    BY <2>1, Constants, IrqBuild
  <2>4. Booted'
    BY <1>5, <2>1 DEF DeliverSlave, Enter
  <2> HIDE DEF l
  <2> QED BY <2>1, <2>2, <2>3, <2>4
<1>6. ASSUME NEW p \in Pics, DeliverSpurious(p) PROVE Quiet'
  <2>1. SpuriousLine # PitIrq /\ LinesPerPic + SpuriousLine # PitIrq
    BY Constants, IrqBuild
  <2>2. Booted
    BY <1>6, NothingToDeliver DEF DeliverSpurious
  <2>3. PICK i \in {SpuriousLine, LinesPerPic + SpuriousLine} : Enter(i)
    BY <1>6 DEF DeliverSpurious
  <2>4. irr' = irr
    BY <1>6 DEF DeliverSpurious
  <2>5. Idle /\ handler' = [pc |-> "lock", irq |-> i] /\ UNCHANGED <<pit, counter, pulses>>
    BY <2>3 DEF Enter
  <2>6. Booted'
    BY <2>2, <2>3 DEF Enter
  <2> QED BY <2>1, <2>2, <2>4, <2>5, <2>6
<1>7. CASE HandleLock
  BY <1>7 DEF HandleLock
<1>8. CASE HandlePanic
  BY <1>8 DEF HandlePanic
<1>9. CASE HandleSpurious
  <2>1. handler.irq # PitIrq
    <3>1. destination(PitIrq) = "master" /\ PitIrq # SpuriousLine /\ ~Idle
      BY <1>9, IrqBuild, Constants DEF HandleSpurious
    <3> QED BY <1>9, <3>1 DEF HandleSpurious, is_spurious, ServiceInv
  <2> QED BY <1>9, <2>1 DEF HandleSpurious, iret, NoHandler
<1>10. CASE HandleReal
  BY <1>10 DEF HandleReal
<1>11. CASE DispatchDeref
  BY <1>11 DEF DispatchDeref
<1>12. CASE DispatchRead
  BY <1>12 DEF DispatchRead
<1>13. CASE dispatch_irq
  <2>1. Booted /\ handler.irq \in Irqs
    BY <1>13 DEF dispatch_irq
  <2>2. listeners[handler.irq] = IF handler.irq = PitIrq THEN 1 ELSE 0
    BY <2>1
  <2>3. counter' = counter + listeners[handler.irq] /\ handler' = [handler EXCEPT !.pc = "eoi"]
    BY <1>13 DEF dispatch_irq
  <2>4. UNCHANGED <<irr, glitch, main, pit, pulses>> /\ handler.pc = "call"
    BY <1>13 DEF dispatch_irq
  <2> QED BY <2>1, <2>2, <2>3, <2>4
<1>14. CASE HandleEoi
  BY <1>14 DEF HandleEoi, iret, NoHandler
<1>15. CASE init_and_remap
  BY <1>15 DEF init_and_remap
<1>16. CASE enable
  BY <1>16 DEF enable
<1>17. CASE configure
  BY <1>17 DEF configure
<1>18. CASE ListenDeref
  BY <1>18 DEF ListenDeref
<1>19. CASE ListenInitialized
  BY <1>19 DEF ListenInitialized
<1>20. CASE ListenWrite
  BY <1>20 DEF ListenWrite
<1>21. CASE ListenPush
  BY <1>21 DEF ListenPush
<1>22. CASE set_reload_value
  BY <1>22 DEF set_reload_value
<1>23. ASSUME NEW ms \in SleepTimes, Sleep(ms) PROVE Quiet'
  BY <1>23 DEF Sleep
<1>24. CASE SleepCheck
  BY <1>24 DEF SleepCheck
<1>25. CASE SleepHlt
  BY <1>25 DEF SleepHlt
<1>26. CASE halt
  BY <1>26 DEF halt
<1> QED
  BY <1>0, <1>1, <1>2, <1>3, <1>4, <1>5, <1>6, <1>7, <1>8, <1>9, <1>10, <1>11, <1>12, <1>13,
     <1>14, <1>15, <1>16, <1>17, <1>18, <1>19, <1>20, <1>21, <1>22, <1>23, <1>24, <1>25,
     <1>26
     DEF Next, Hardware, Handler, Boot

\* The inductive invariant holds in every reachable state.
THEOREM Invariance == Spec => []IInv
<1>1. IInv /\ [Next]_vars => IInv'
  <2> SUFFICES ASSUME IInv, [Next]_vars PROVE IInv'
    OBVIOUS
  <2>1. TypeInv' /\ FlagInv' /\ ServiceInv' /\ RequestInv' /\ TimerInv'
    BY TypeStep, FlagStep, ServiceStep, RequestStep, TimerStep
  <2>2. QuietInv'
    <3> SUFFICES ASSUME ~DevicesWhileBooting PROVE Quiet'
      BY CountedOnce DEF QuietInv, Quiet
    <3>1. Quiet
      BY CountedOnce DEF IInv, QuietInv, Quiet
    <3> QED BY <3>1, QuietStep
  <2> QED BY <2>1, <2>2 DEF IInv
<1> QED BY <1>1, InitInv, PTL DEF Spec

\* No handler and no step of the start-up addresses a line that a controller does not have.
THEOREM TypeCorrect == Spec => []TypeOK
<1>1. IInv => TypeOK
  BY DEF IInv, TypeInv
<1> QED BY <1>1, Invariance, PTL

\* Whatever is interrupted and however the requests glitch, the end of interrupt of pic.rs
\* handle_interrupt leaves nothing in service but the master's cascade line.
THEOREM NothingElseInService == Spec => []OnlyCascadeLeftInService
<1>1. IInv => OnlyCascadeLeftInService
  BY DEF IInv, ServiceInv, OnlyCascadeLeftInService
<1> QED BY <1>1, Invariance, PTL

\* dispatch_irq runs for unmasked IRQs that a device or the timer raised, and for no other:
\* is_spurious catches every interrupt that the controllers made up.
THEOREM NoneMadeUp == Spec => []OnlyRaisedIrqsDispatched
<1>1. IInv => OnlyRaisedIrqsDispatched
  BY DEF IInv, RequestInv
<1> QED BY <1>1, Invariance, PTL

\* Where devices are silent until the timer runs, tick counts every latched pulse once. (An
\* earlier pulse of the BIOS's timer, which `configure' leaves in the request register, would
\* be counted in addition.)
THEOREM PulsesCounted ==
  ASSUME ~DevicesWhileBooting
  PROVE  Spec => []EveryPulseCountedOnce
<1>1. IInv => EveryPulseCountedOnce
  BY DEF IInv, QuietInv
<1> QED BY <1>1, Invariance, PTL

=============================================================================
