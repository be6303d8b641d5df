------------------------------ MODULE Keyboard ------------------------------
(***************************************************************************)
(* The path of a key press: the keyboard raises an interrupt, the handler  *)
(* keyboard_handler (kernel/idt.cc) pushes the scan code into the response *)
(* ring of Ps2Keyboard, and the loop of shell_main pops the ring and edits *)
(* a line, halting the CPU when it finds the ring empty. The handlers run  *)
(* to their end between two steps of the shell, once kernel_main has set   *)
(* up the interrupt controller and the descriptor table.                   *)
(***************************************************************************)
EXTENDS Integers, Sequences, FiniteSets

CONSTANTS
  Printable,   \* scan codes with a character in key_table
  Keys,        \* the scan codes the user may produce
  RingSize,    \* the template argument of m_response_buffer
  LineSize,    \* the length of the shell's input buffer
  MaxKeys,     \* bound: scan codes the user produces
  MaxPending   \* bound: scan codes produced and not yet taken by the shell

\* The codes the handler or the shell tells apart.
Special == {"CommandAcknowledged", "PS2SelfTestPassed", "F1Down", "EnterDown",
            "BackspaceDown", "LeftShiftDown", "LeftShiftUp", "RightShiftDown",
            "RightShiftUp", "NextIsExtended", "ExCursorUpDown", "Echo"}
Codes == Printable \union Special

Commands == {"ResetAndSelfTest", "Echo"}

\* The lines of the master controller that count here.
Timer == 0
Irqs  == {Timer, 1}
KeyboardIrq == 1

Handlers == {"timer_handler", "keyboard_handler", "exception_handler"}
Vectors  == 0..63

ASSUME CodesAssumption == Printable \intersect Special = {} /\ Keys \subseteq Codes
ASSUME SizesAssumption == RingSize \in Nat \ {0, 1} /\ LineSize \in Nat \ {0}
ASSUME BoundAssumption == MaxKeys \in Nat /\ MaxPending \in Nat

VARIABLES
  \* the keyboard and its controller (external)
  wire,          \* codes sent and not yet read from the data port
  inputLatch,    \* the command in the controller's input buffer, or "none"
  pressed,       \* how many codes the user has produced
  \* Ps2Keyboard
  m_buffer, m_read_end, m_write_end,   \* m_response_buffer
  m_cmd_queue,
  \* the interrupt controller (external) and the CPU's interrupts
  offset,         \* the vector of the controller's first line
  mask,           \* the lines masked
  in_service,     \* the lines whose interrupt has not been ended
  idt,            \* the handler of each vector
  interrupts_on,
  \* the CPU and the shell
  pc, key_code,
  left_shift_pressed, right_shift_pressed, extended,
  line,          \* input_buffer up to buf_ptr
  \* history
  accepted,      \* the codes the ring took, in order
  handled,       \* how many of them the shell has handled
  overfilled     \* whether a push went into a full ring that full() missed

ring     == <<m_buffer, m_read_end, m_write_end>>
keyboard == <<wire, inputLatch, pressed>>
interrupts == <<offset, mask, in_service, idt, interrupts_on>>
modifiers == <<left_shift_pressed, right_shift_pressed, extended>>
history  == <<accepted, handled, overfilled>>
vars     == <<keyboard, ring, m_cmd_queue, interrupts, pc, key_code, modifiers, line,
              history>>

Responses == INSTANCE CircularBuffer WITH
  S <- RingSize, Elements <- Codes, Zero <- "zero"

Init ==
  /\ wire = << >> /\ inputLatch = "none" /\ pressed = 0
  /\ Responses!Init
  /\ m_cmd_queue = << >>
  /\ offset = 8 /\ mask \in SUBSET Irqs /\ in_service = {}
  /\ idt = [v \in Vectors |-> "none"] /\ interrupts_on = FALSE
  /\ pc = "remap"
  /\ key_code = "zero"
  /\ left_shift_pressed = FALSE /\ right_shift_pressed = FALSE /\ extended = FALSE
  /\ line = << >>
  /\ accepted = << >> /\ handled = 0 /\ overfilled = FALSE

-----------------------------------------------------------------------------
\* The user and the keyboard (external).

Pending == Len(wire) + (Len(accepted) - handled)

Press(c) ==
  /\ pressed < MaxKeys /\ Pending < MaxPending
  /\ pressed' = pressed + 1
  /\ wire' = Append(wire, c)
  /\ UNCHANGED <<inputLatch, ring, m_cmd_queue, interrupts, pc, key_code,
                 modifiers, line, history>>

\* A reset is acknowledged and reports 0xAA, which is also the code of the
\* left shift key going up; an echo is answered by 0xEE alone.
Answer ==
  /\ inputLatch # "none"
  /\ inputLatch' = "none"
  /\ wire' = wire \o IF inputLatch = "Echo"
                       THEN <<"Echo">>
                       ELSE <<"CommandAcknowledged", "LeftShiftUp">>
  /\ UNCHANGED <<pressed, ring, m_cmd_queue, interrupts, pc, key_code,
                 modifiers, line, history>>

-----------------------------------------------------------------------------
\* polling_write: the byte is given up, and the error ignored by both
\* callers, when the input buffer stays full for three polls.
PollingWrite(command) ==
  inputLatch' = IF inputLatch = "none" THEN command ELSE inputLatch

\* enqueue_command: with nothing queued the command is written at once, and
\* not queued.
EnqueueCommand(command, from, to) ==
  /\ pc = from
  /\ pc' = to
  /\ IF m_cmd_queue = << >>
       THEN PollingWrite(command) /\ m_cmd_queue' = m_cmd_queue
       ELSE m_cmd_queue' = Append(m_cmd_queue, command) /\ UNCHANGED inputLatch
  /\ UNCHANGED <<wire, pressed, ring, interrupts, key_code, modifiers, line, history>>

\* kernel_main, as far as interrupts go. Remapping keeps the masks, and the
\* vectors of the two lines lie behind those of the processor's exceptions.
Remap ==
  /\ pc = "remap"
  /\ pc' = "unmask"
  /\ offset' = 32
  /\ UNCHANGED <<keyboard, ring, m_cmd_queue, mask, in_service, idt, interrupts_on,
                 key_code, modifiers, line, history>>

\* Mutant: the lines stay masked as firmware left them.
MasksKept ==
  /\ pc = "unmask"
  /\ pc' = "install"
  /\ UNCHANGED <<keyboard, ring, m_cmd_queue, interrupts, key_code, modifiers, line,
                 history>>

ClearMasks ==
  /\ pc = "unmask"
  /\ pc' = "install"
  /\ mask' = {}
  /\ UNCHANGED <<keyboard, ring, m_cmd_queue, offset, in_service, idt, interrupts_on,
                 key_code, modifiers, line, history>>

\* isr_stub_table: the handler that the stub of a vector calls.
Stub(v) ==
  CASE v = 32 -> "timer_handler"
    [] v = 33 -> "keyboard_handler"
    [] OTHER -> "exception_handler"

InitIdt ==
  /\ pc = "install"
  /\ pc' = "sti"
  /\ idt' = [v \in Vectors |-> Stub(v)]
  /\ UNCHANGED <<keyboard, ring, m_cmd_queue, offset, mask, in_service, interrupts_on,
                 key_code, modifiers, line, history>>

EnableInterrupts ==
  /\ pc = "sti"
  /\ pc' = "reset"
  /\ interrupts_on' = TRUE
  /\ UNCHANGED <<keyboard, ring, m_cmd_queue, offset, mask, in_service, idt, key_code,
                 modifiers, line, history>>

\* The two commands, then shell_main.
Reset == EnqueueCommand("ResetAndSelfTest", "reset", "echo")
Echo  == EnqueueCommand("Echo", "echo", "check")

\* A line's interrupt reaches the handler that the table has for its vector: the
\* line is not masked and no interrupt of its or of higher priority is being
\* served (external).
Deliverable(irq, handler) ==
  /\ interrupts_on /\ irq \notin mask
  /\ \A s \in in_service : irq < s
  /\ idt[offset + irq] = handler

\* The end of interrupt that is written last in a handler ends the one of the
\* highest priority.
EndOfInterrupt(serving) == {s \in serving : \E higher \in serving : higher < s}

Served(irq) ==
  /\ in_service' = EndOfInterrupt(in_service \union {irq})
  /\ UNCHANGED <<offset, mask, idt, interrupts_on>>

\* An interrupt ends the CPU's halt.
Wake == pc' = IF pc = "halted" THEN "check" ELSE pc

\* push_response: a code that finds the ring full is dropped. A push that
\* makes a ring with codes in it look empty has overfilled it.
Respond(code) ==
  \/ /\ Responses!Push(code)
     /\ accepted' = Append(accepted, code)
     /\ overfilled' = (overfilled \/ Responses!Length = RingSize - 1)
  \/ Responses!PushRefused /\ UNCHANGED <<accepted, overfilled>>

ReadByte == Head(wire)

PopCommand == IF m_cmd_queue = << >> THEN m_cmd_queue ELSE Tail(m_cmd_queue)

KeyboardHandler ==
  /\ pc # "off" /\ wire # << >> /\ Deliverable(KeyboardIrq, "keyboard_handler")
  /\ wire' = Tail(wire)
  /\ LET scan_code == ReadByte
     IN /\ IF scan_code \in {"PS2SelfTestPassed", "CommandAcknowledged", "F1Down"}
             THEN UNCHANGED <<ring, accepted, overfilled>>
             ELSE Respond(scan_code)
        /\ m_cmd_queue' = IF scan_code = "CommandAcknowledged"
                            THEN PopCommand ELSE m_cmd_queue
        /\ IF scan_code = "F1Down" THEN pc' = "off" ELSE Wake
  /\ IF m_cmd_queue' = << >> THEN UNCHANGED inputLatch ELSE PollingWrite(Head(m_cmd_queue'))
  /\ Served(KeyboardIrq)
  /\ UNCHANGED <<pressed, key_code, modifiers, line, handled>>

\* timer_handler counts and returns; what matters here is that it came.
TimerHandler ==
  /\ pc # "off" /\ Deliverable(Timer, "timer_handler")
  /\ Wake
  /\ Served(Timer)
  /\ UNCHANGED <<keyboard, ring, m_cmd_queue, key_code, modifiers, line, history>>

-----------------------------------------------------------------------------
\* The shell. pop_response is three steps, between which the handler may run.

CheckEmpty ==
  /\ pc = "check"
  /\ pc' = IF Responses!Empty THEN "halt" ELSE "take"
  /\ UNCHANGED <<keyboard, ring, m_cmd_queue, interrupts, key_code, modifiers,
                 line, history>>

Take ==
  /\ pc = "take"
  /\ pc' = "advance"
  /\ key_code' = Responses!Front
  /\ UNCHANGED <<keyboard, ring, m_cmd_queue, interrupts, modifiers, line, history>>

\* Mutant: the ring is emptied instead of moved on by one.
AdvanceToEnd == m_read_end' = m_write_end /\ UNCHANGED <<m_buffer, m_write_end>>

\* What pop() does after it has read the element.
AdvanceRead == m_read_end' = Responses!Advance(m_read_end) /\ UNCHANGED <<m_buffer, m_write_end>>

Advance ==
  /\ pc = "advance"
  /\ pc' = "handle"
  /\ AdvanceRead
  /\ handled' = handled + 1
  /\ UNCHANGED <<keyboard, m_cmd_queue, interrupts, key_code, modifiers, line,
                 accepted, overfilled>>

RoomLeft == Len(line) < LineSize

Shifted == left_shift_pressed \/ right_shift_pressed

\* response_to_char and response_to_shifted_char.
Character == [code |-> key_code, shifted |-> Shifted]

\* A code with a character: it is added while there is room.
HandleCharacter ==
  /\ pc = "handle" /\ key_code \in Printable
  /\ pc' = "check"
  /\ line' = IF RoomLeft THEN Append(line, Character) ELSE line
  /\ UNCHANGED <<keyboard, ring, m_cmd_queue, interrupts, key_code, modifiers,
                 history>>

HandleEnter ==
  /\ pc = "handle" /\ key_code = "EnterDown"
  /\ pc' = "parse"
  /\ UNCHANGED <<keyboard, ring, m_cmd_queue, interrupts, key_code, modifiers,
                 line, history>>

\* parse_input has returned, after as many disk requests as it took.
ParseDone ==
  /\ pc = "parse"
  /\ pc' = "check"
  /\ line' = << >>
  /\ UNCHANGED <<keyboard, ring, m_cmd_queue, interrupts, key_code, modifiers,
                 history>>

NewLine ==
  IF key_code = "BackspaceDown" /\ line # << >> THEN SubSeq(line, 1, Len(line) - 1) ELSE line

Held(held, down, up) ==
  IF key_code = down THEN TRUE ELSE IF key_code = up THEN FALSE ELSE held

HandlePlain ==
  /\ pc = "handle" /\ key_code \notin Printable \union {"EnterDown"} /\ ~extended
  /\ pc' = "check"
  /\ line' = NewLine
  /\ left_shift_pressed'  = Held(left_shift_pressed, "LeftShiftDown", "LeftShiftUp")
  /\ right_shift_pressed' = Held(right_shift_pressed, "RightShiftDown", "RightShiftUp")
  /\ extended' = (key_code = "NextIsExtended")
  /\ UNCHANGED <<keyboard, ring, m_cmd_queue, interrupts, key_code, history>>

\* The cursor keys move the cursor (see Console); the other keys do nothing.
HandleExtended ==
  /\ pc = "handle" /\ key_code \notin Printable \union {"EnterDown"} /\ extended
  /\ pc' = "check"
  /\ extended' = FALSE
  /\ UNCHANGED <<keyboard, ring, m_cmd_queue, interrupts, key_code,
                 left_shift_pressed, right_shift_pressed, line, history>>

\* An interrupt between the check and hlt does not end the halt to come.
Halt ==
  /\ pc = "halt"
  /\ pc' = "halted"
  /\ UNCHANGED <<keyboard, ring, m_cmd_queue, interrupts, key_code, modifiers,
                 line, history>>

KernelRuns ==
  \/ Remap \/ ClearMasks \/ InitIdt \/ EnableInterrupts
  \/ Reset \/ Echo
  \/ CheckEmpty \/ Take \/ Advance
  \/ HandleCharacter \/ HandleEnter \/ ParseDone \/ HandlePlain \/ HandleExtended
  \/ Halt

Next ==
  \/ \E c \in Keys : Press(c)
  \/ Answer
  \/ KeyboardHandler \/ TimerHandler
  \/ KernelRuns

SafeSpec == Init /\ [][Next]_vars

\* The CPU runs, the keyboard and its interrupts are served, and the timer
\* ticks; the user may stop typing at any time.
Fairness ==
  /\ WF_vars(KernelRuns)
  /\ WF_vars(Answer)
  /\ WF_vars(KeyboardHandler)
  /\ WF_vars(TimerHandler)

Spec == SafeSpec /\ Fairness

-----------------------------------------------------------------------------
\* Types of the state; the shell's line stays within its buffer.
TypeOK ==
  /\ wire \in Seq(Codes)
  /\ inputLatch \in Commands \union {"none"}
  /\ pressed \in 0..MaxKeys
  /\ Responses!TypeOK
  /\ m_cmd_queue \in Seq(Commands)
  /\ offset \in {8, 32} /\ mask \in SUBSET Irqs /\ in_service \in SUBSET Irqs
  /\ idt \in [Vectors -> Handlers \union {"none"}] /\ interrupts_on \in BOOLEAN
  /\ pc \in {"remap", "unmask", "install", "sti", "reset", "echo",
             "check", "take", "advance", "handle", "parse", "halt", "halted", "off"}
  /\ key_code \in Codes \union {"zero"}
  /\ left_shift_pressed \in BOOLEAN /\ right_shift_pressed \in BOOLEAN
  /\ extended \in BOOLEAN
  /\ line \in Seq([code : Printable, shifted : BOOLEAN]) /\ Len(line) <= LineSize
  /\ accepted \in Seq(Codes)
  /\ handled \in 0..Len(accepted)
  /\ overfilled \in BOOLEAN

\* The shell's pop and the handler's push share the ring without a lock:
\* wherever in the pop the interrupt comes, the ring holds the latest of the
\* codes it took, in their order, and those gone before them were handled, but
\* for whole rounds of the ring that a push into the full ring took away (see
\* CircularBuffer.tla). The code in the shell's hands is the next one, however
\* many rounds were lost before or behind it.
TakenInOrder ==
  LET gone == Len(accepted) - Responses!Length
  IN /\ Responses!Contents = SubSeq(accepted, gone + 1, Len(accepted))
     /\ \E lost \in 0..Len(accepted) :
          /\ gone = handled + lost * RingSize
          /\ ~overfilled => lost = 0
          /\ pc = "advance" =>
               \E k \in 0..lost :
                 /\ handled + 1 + k * RingSize <= Len(accepted)
                 /\ key_code = accepted[handled + 1 + k * RingSize]
          /\ pc = "handle" =>
               \E k \in 0..lost : key_code = accepted[handled + k * RingSize]

\* A code the ring took is eventually handled by the shell: the check and the
\* hlt that follows are not atomic, so a key may arrive unseen before the
\* halt, and it is the timer that ends it.
EveryKeyHandled ==
  \A n \in 1..MaxKeys :
    Len(accepted) >= n ~> (handled >= n \/ pc = "off" \/ overfilled)
=============================================================================
