----------------------------- MODULE Interrupts ------------------------------
(***************************************************************************)
(* Interrupts: the InterruptManager and handleInterrupt                    *)
(* (Kernel/src/Hardware/IDT.cpp), the entry points they are reached by     *)
(* (IDT.asm), and, outside the kernel, the processor that takes interrupts *)
(* and the two 8259 controllers that send them.                            *)
(*                                                                         *)
(* Lines 0 to 7 lead to the master, 8 to 15 to the slave, whose output is  *)
(* input 2 of the master.  Inputs are edge-triggered: a rising line sets a *)
(* request, which is gone when the line falls before the processor has     *)
(* acknowledged it.                                                        *)
(***************************************************************************)
EXTENDS Integers, Sequences

VARIABLES
  writes,         \* what the constructor still has to write to the controllers
  lines,          \* the interrupt lines that are high
  pics,           \* each controller: [icw, base, imr, irr, isr]
  idt,            \* vector |-> interrupt number its entry point pushes
  interruptFlag,  \* IF of the processor
  cpu             \* what the processor does about interrupts: [at, vector]

interruptVars == <<writes, lines, pics, idt, interruptFlag, cpu>>

Controllers == {"master", "slave"}
Inputs      == 0 .. 7
Cascade     == 2     \* the master's input for the slave

ControllerOf(line) == IF line < 8 THEN "master" ELSE "slave"

Least(S) == CHOOSE i \in S : \A k \in S : i <= k

-----------------------------------------------------------------------------
(* The controllers. *)

(* The requests of a controller that are neither masked nor kept back by   *)
(* one in service of the same or of higher priority.                       *)
Eligible(requests, pic) ==
  {i \in requests \ pic.imr : \A k \in pic.isr : i < k}

Winners(pic) ==
  IF pic = "slave" THEN Eligible(pics.slave.irr, pics.slave)
  ELSE Eligible(pics.master.irr \cup
                  (IF Eligible(pics.slave.irr, pics.slave) # {} THEN {Cascade} ELSE {}),
                pics.master)

EndOfInterrupt(pic) ==
  IF pic.isr = {} THEN pic ELSE [pic EXCEPT !.isr = @ \ {Least(@)}]

(* What a controller makes of a write: 0x11 at its command port starts an  *)
(* initialisation, whose words the next three writes to its data port are; *)
(* after that the data port is the mask.                                   *)
Written(state, write) ==
  LET pic == state[write.pic]
  IN  [state EXCEPT ![write.pic] =
         CASE write.port = "command" /\ write.data = 17 ->
                [pic EXCEPT !.icw = 2, !.imr = {}, !.irr = {}, !.isr = {}]
           [] write.port = "command" /\ write.data = 32 -> EndOfInterrupt(pic)
           [] write.port = "data" /\ pic.icw = 2 -> [pic EXCEPT !.icw = 3, !.base = write.data]
           [] write.port = "data" /\ pic.icw = 3 -> [pic EXCEPT !.icw = 4]
           [] write.port = "data" /\ pic.icw = 4 -> [pic EXCEPT !.icw = 0]
           [] write.port = "data" /\ pic.icw = 0 ->
                [pic EXCEPT !.imr = {i \in Inputs : (write.data \div 2 ^ i) % 2 = 1}]]

(* Devices have changed their lines. *)
SetLines(new) ==
  /\ lines' = new
  /\ pics' = [c \in Controllers |->
                LET of(S) == {l % 8 : l \in {k \in S : ControllerOf(k) = c}}
                IN  [pics[c] EXCEPT !.irr = (@ \ of(lines \ new)) \cup of(new \ lines)]]

-----------------------------------------------------------------------------
(* InterruptManager. *)

To(pic, port, data) == [pic |-> pic, port |-> port, data |-> data]

(* Faulty: the slave keeps its vectors. *)
Initialisation_NoSlave ==
  << To("master", "command", 17),
     To("master", "data", 32),
     To("master", "data", 4),
     To("master", "data", 1),
     To("master", "data", 0),
     To("slave", "data", 0) >>

(* The writes of the constructor, which interrupts cannot come between:    *)
(* they are off.                                                           *)
Initialisation ==
  << To("master", "command", 17), To("slave", "command", 17),
     To("master", "data", 32),    To("slave", "data", 40),
     To("master", "data", 4),     To("slave", "data", 2),
     To("master", "data", 1),     To("slave", "data", 1),
     To("master", "data", 0),     To("slave", "data", 0) >>

InterruptManager ==
  /\ writes # <<>>
  /\ pics' = Written(pics, Head(writes))
  /\ writes' = Tail(writes)
  /\ UNCHANGED <<lines, idt, interruptFlag, cpu>>

(* The number that an entry point pushes: isr0 to isr31 their own, irq0 to *)
(* irq15 theirs after those.                                               *)
isr(n) == n
irq(n) == n + 32

(* setEntry for the 32 exceptions and the 16 interrupts, and IDTFlush.     *)
init ==
  /\ writes = <<>>
  /\ idt' = [vector \in 0 .. 47 |-> IF vector < 32 THEN isr(vector) ELSE irq(vector - 32)]
  /\ UNCHANGED <<writes, lines, pics, interruptFlag, cpu>>

enable ==
  /\ interruptFlag' = TRUE
  /\ UNCHANGED <<writes, lines, pics, idt, cpu>>

-----------------------------------------------------------------------------
(* The processor. *)

(* Between two instructions the processor notices that the master asks for *)
(* an interrupt ...                                                        *)
Notice ==
  /\ cpu.at = "kernel" /\ interruptFlag
  /\ Winners("master") # {}
  /\ cpu' = [cpu EXCEPT !.at = "acknowledge"]
  /\ UNCHANGED <<writes, lines, pics, idt, interruptFlag>>

(* ... acknowledges it, upon which the request becomes one in service and  *)
(* its vector is sent, by the slave if it is the slave's.  When the        *)
(* request is gone by then, the vector is that of input 7, and nothing is  *)
(* in service.                                                             *)
Acknowledge(pic) ==
  /\ cpu.at = (IF pic = "master" THEN "acknowledge" ELSE "acknowledge slave")
  /\ LET winners == Winners(pic)
         input   == IF winners = {} THEN 7 ELSE Least(winners)
     IN  /\ pics' = IF winners = {} THEN pics
                    ELSE [pics EXCEPT ![pic].isr = @ \cup {input}, ![pic].irr = @ \ {input}]
         /\ cpu' = IF pic = "master" /\ winners # {} /\ input = Cascade
                   THEN [cpu EXCEPT !.at = "acknowledge slave"]
                   ELSE [at |-> "entry", vector |-> pics[pic].base + input]
  /\ UNCHANGED <<writes, lines, idt, interruptFlag>>

(* A memory or bus error reaches the processor as vector 2 at any time. *)
NonMaskable ==
  /\ cpu.at # "panic" /\ 2 \in DOMAIN idt
  /\ cpu' = [at |-> "entry", vector |-> 2]
  /\ UNCHANGED <<writes, lines, pics, idt, interruptFlag>>

-----------------------------------------------------------------------------
(* handleInterrupt. *)

(* An exception is the end: panic halts the processor. *)
IsException(number) == number < 32

(* The processor enters the gate with interrupts off, and the entry point  *)
(* pushes its number.  A vector without a gate is exception 13.  Of one    *)
(* the handler prints the number before panic prints the registers; Log    *)
(* has what panic prints.                                                  *)
Enter ==
  /\ cpu.at = "entry"
  /\ interruptFlag' = FALSE
  /\ cpu' = IF cpu.vector \in DOMAIN idt /\ ~ IsException(idt[cpu.vector])
            THEN [at |-> "handler", vector |-> idt[cpu.vector]]
            ELSE [cpu EXCEPT !.at = "panic"]
  /\ UNCHANGED <<writes, lines, pics, idt>>

(* Faulty: only one of the controllers is told. *)
AcknowledgeMaster_OnlyOwn ==
  /\ cpu.at = "handler"
  /\ pics' = IF cpu.vector >= 40 THEN pics ELSE Written(pics, To("master", "command", 32))
  /\ cpu' = [cpu EXCEPT !.at = IF cpu.vector >= 40 THEN "slave" ELSE "return"]
  /\ UNCHANGED <<writes, lines, idt, interruptFlag>>

(* Faulty: the master is told of the slave's interrupts only. *)
AcknowledgeMaster_Swapped ==
  /\ cpu.at = "handler"
  /\ pics' = IF cpu.vector >= 40 THEN Written(pics, To("master", "command", 32)) ELSE pics
  /\ cpu' = [cpu EXCEPT !.at = IF cpu.vector >= 40 THEN "slave" ELSE "return"]
  /\ UNCHANGED <<writes, lines, idt, interruptFlag>>

(* outb(0x20, 0x20) *)
AcknowledgeMaster ==
  /\ cpu.at = "handler"
  /\ pics' = Written(pics, To("master", "command", 32))
  /\ cpu' = [cpu EXCEPT !.at = IF cpu.vector >= 40 THEN "slave" ELSE "return"]
  /\ UNCHANGED <<writes, lines, idt, interruptFlag>>

(* outb(0xA0, 0x20) *)
AcknowledgeSlave ==
  /\ cpu.at = "slave"
  /\ pics' = Written(pics, To("slave", "command", 32))
  /\ cpu' = [cpu EXCEPT !.at = "return"]
  /\ UNCHANGED <<writes, lines, idt, interruptFlag>>

(* iret restores the flags, and the kernel goes on. *)
Return ==
  /\ cpu.at = "return"
  /\ interruptFlag' = TRUE
  /\ cpu' = [cpu EXCEPT !.at = "kernel"]
  /\ UNCHANGED <<writes, lines, pics, idt>>

InterruptStep ==
  \/ Notice
  \/ \E pic \in Controllers : Acknowledge(pic)
  \/ Enter \/ AcknowledgeMaster \/ AcknowledgeSlave \/ Return

-----------------------------------------------------------------------------
(* Properties. *)

PIC == [icw : {0, 2, 3, 4}, base : {8 * n : n \in 0 .. 31},
        imr : SUBSET Inputs, irr : SUBSET Inputs, isr : SUBSET Inputs]

InterruptsTypeOK ==
  /\ writes \in Seq([pic : Controllers, port : {"command", "data"}, data : 0 .. 255])
  /\ lines \subseteq 0 .. 15
  /\ pics \in [Controllers -> PIC]
  /\ idt = <<>> \/ idt \in [0 .. 47 -> 0 .. 47]
  /\ interruptFlag \in BOOLEAN
  /\ cpu \in [at : {"kernel", "acknowledge", "acknowledge slave", "entry", "handler",
                    "slave", "return", "panic"}, vector : 0 .. 255]

(* What the handler still has to tell the controllers about is what they   *)
(* have in service, and when it returns nothing is: an interrupt that      *)
(* stays in service keeps back all others of its priority for good.        *)
(* Spurious interrupts (vectors 39 and 47 with nothing in service) end     *)
(* nobody else's service.                                                  *)
InServiceIsHandled ==
  LET master == pics.master.isr
      slave  == pics.slave.isr
      own(base) == {cpu.vector - base} \cap Inputs
  IN  /\ cpu.at \in {"kernel", "acknowledge", "return"} => master = {} /\ slave = {}
      /\ cpu.at = "acknowledge slave" => master = {Cascade} /\ slave = {}
      /\ cpu.at = "handler" =>
           IF cpu.vector >= 40
             THEN master = {Cascade} /\ slave \in {own(40)} \cup (IF cpu.vector = 47 THEN {{}} ELSE {})
             ELSE slave = {} /\ master \in {own(32)} \cup (IF cpu.vector = 39 THEN {{}} ELSE {})
      /\ cpu.at = "slave" => master = {} /\ slave \subseteq own(40)

(* A request of the line of highest priority does not wait for ever. *)
TimerServed ==
  (cpu.at # "panic" /\ 0 \in pics.master.irr) ~> (cpu.at = "panic" \/ 0 \notin pics.master.irr)
=============================================================================
