------------------------------ MODULE Keyboard -------------------------------
(***************************************************************************)
(* device/keyboard.c and the stdin branch of sys_read in fs/fs.c: keys are *)
(* pressed and released at any time, each byte of a scan code interrupts   *)
(* the running thread when interrupts are on, and processes read what was  *)
(* typed from kbd_buf.                                                     *)
(*                                                                         *)
(* A byte from the keyboard is "e0" or a make or break byte of a base key. *)
(* The right ctrl and alt keys send e0 and then the byte of the left one.  *)
(***************************************************************************)
EXTENDS IoQueue

CONSTANT Keys   \* the keys of the keyboard

VARIABLES kb,     \* ctrl_status, shift_status, alt_status, caps_lock_status,
                  \* ext_scancode
          held,   \* the keys that are down
          wire    \* the byte the keyboard has still to send

kvars == <<kb, held, wire>>
keyboardVars == <<k, pc, q, side, left, kb, held, wire>>

ShiftKeys == {"shift_l", "shift_r"}
CtrlKeys == {"ctrl_l", "ctrl_r"}
AltKeys == {"alt_l", "alt_r"}

\* The bytes of a key: with the prefix or without, and the base byte.
Extended(key) == key \in {"ctrl_r", "alt_r", "up"}
Base(key) == CASE key = "ctrl_r" -> "ctrl_l" [] key = "alt_r" -> "alt_l" [] OTHER -> key

\* keymap[index][shift]; 0 (char_invisible) is NULL.
keymap(base, shift) ==
  CASE base = "1" -> IF shift THEN "!" ELSE "1"
    [] base = "l" -> IF shift THEN "L" ELSE "l"
    [] base = "a" -> IF shift THEN "A" ELSE "a"
    [] OTHER -> NULL

\* The chars of the keymap and of the short cuts are bytes, the prefix is not a
\* key, and a byte on the wire differs from none.
ASSUME KeyboardAssumption ==
  /\ {"1", "!", "l", "L", "a", "A", "^l"} \subseteq Bytes
  /\ "e0" \notin Keys
  /\ \A key \in Keys, b \in BOOLEAN : [base |-> Base(key), break |-> b] # NULL

\* Keys below 0x3b, the ones the keymap has an entry for.
InKeymap(base) == base \notin {"f1", "up"}

KeyboardInit ==
  /\ QueueInit
  /\ kb = [ctrl |-> FALSE, shift |-> FALSE, alt |-> FALSE, caps |-> FALSE, ext |-> FALSE]
  /\ held = {}
  /\ wire = NULL

-----------------------------------------------------------------------------

\* With ext_scancode set a byte means the right-hand key, or an unknown one.
Scancode(base) ==
  IF ~kb.ext THEN base
  ELSE CASE base = "ctrl_l" -> "ctrl_r" [] base = "alt_l" -> "alt_r" [] OTHER -> "unknown"

SetStatus(code, down) ==
  [kb EXCEPT !.ext = FALSE,
             !.ctrl = IF code \in CtrlKeys THEN down ELSE @,
             !.shift = IF code \in ShiftKeys THEN down ELSE @,
             !.alt = IF code \in AltKeys THEN down ELSE @]

\* Keys with a double meaning take shift, letters shift or caps lock.
Shifted(base) == IF base = "1" THEN kb.shift ELSE kb.shift # kb.caps

\* ctrl+l and ctrl+u become the shell's short cuts.
CurChar(base) ==
  LET c == keymap(base, Shifted(base)) IN IF kb.ctrl /\ c = "l" THEN "^l" ELSE c

\* Mutant: the handler does not ask whether the buffer is full.
Type_NoTest(c) == PutByte(c)

\* The char goes into the buffer, unless that is full.
Type(c) ==
  IF ioq_full(q) THEN UNCHANGED <<k, q>> ELSE PutByte(c)

\* A byte without the prefix that the keymap has, or the right ctrl or alt.
Handled(base) == InKeymap(base) /\ Scancode(base) # "unknown"

\* Mutant: a break code is taken for the left key whatever the prefix said,
\* and leaves the prefix in force.
BreakCode_KeepsPrefix(byte) ==
  /\ byte.break
  /\ kb' = [SetStatus(byte.base, FALSE) EXCEPT !.ext = kb.ext]
  /\ UNCHANGED <<k, q>>

\* The ways through intr_keyboard_handler, which reads one byte: the prefix,
\* a key going up, a visible char, a control key, and any other key.
Prefix(byte) ==
  /\ byte.base = "e0"
  /\ kb' = [kb EXCEPT !.ext = TRUE]
  /\ UNCHANGED <<k, q>>

BreakCode(byte) ==
  /\ byte.break
  /\ kb' = SetStatus(Scancode(byte.base), FALSE)
  /\ UNCHANGED <<k, q>>

MakeCode(byte) ==
  /\ byte.base # "e0" /\ ~byte.break
  /\ \/ /\ Handled(byte.base) /\ CurChar(byte.base) # NULL
        /\ Type(CurChar(byte.base))
        /\ kb' = [kb EXCEPT !.ext = FALSE]
     \/ /\ Handled(byte.base) /\ CurChar(byte.base) = NULL
        /\ kb' = [SetStatus(Scancode(byte.base), TRUE)
                    EXCEPT !.caps = IF byte.base = "caps" THEN ~@ ELSE @]
        /\ UNCHANGED <<k, q>>
     \/ /\ ~Handled(byte.base)
        /\ kb' = [kb EXCEPT !.ext = FALSE]
        /\ UNCHANGED <<k, q>>

intr_keyboard_handler(byte) == Prefix(byte) \/ BreakCode(byte) \/ MakeCode(byte)

\* The keyboard sends a byte and the CPU takes the interrupt.
Interrupt(byte) ==
  /\ k.panic = FALSE /\ InterruptsOn
  /\ intr_keyboard_handler(byte)
  /\ EndHalt
  /\ UNCHANGED <<side, left>>

\* A key goes down or up: the only byte, or the first of two, is sent.
Key(key) ==
  LET byte == [base |-> Base(key), break |-> key \in held] IN
  /\ wire = NULL
  /\ held' = IF key \in held THEN held \ {key} ELSE held \cup {key}
  /\ IF Extended(key) THEN Interrupt([base |-> "e0", break |-> FALSE]) /\ wire' = byte
                      ELSE Interrupt(byte) /\ wire' = NULL

SecondByte ==
  /\ wire # NULL
  /\ Interrupt(wire)
  /\ wire' = NULL
  /\ UNCHANGED held

-----------------------------------------------------------------------------

\* sys_read(stdin_no, buf, count)
sys_read(t, count) ==
  /\ Running(t, "user")
  /\ left' = [left EXCEPT ![t] = count]
  /\ Goto(t, "test")
  /\ UNCHANGED <<k, q, side>> /\ UNCHANGED kvars

\* A byte is there; after the last one the system call returns.
ReadKey(t) ==
  /\ Ready(t, "consumer")
  /\ GetByte
  /\ left' = [left EXCEPT ![t] = @ - 1]
  /\ Goto(t, IF left[t] = 1 THEN "user" ELSE "test")
  /\ UNCHANGED side /\ UNCHANGED kvars

ReaderStep(t) ==
  \/ \E count \in 1 .. MaxCount : sys_read(t, count)
  \/ ReadKey(t)
  \/ Wait(t) /\ UNCHANGED left /\ UNCHANGED kvars

KeyboardNext ==
  \/ \E t \in Clients : ReaderStep(t)
  \/ \E key \in Keys : Key(key)
  \/ SecondByte
  \/ (IdleStep \/ Timer) /\ UNCHANGED kvars

KeyboardSpec == KeyboardInit /\ [][KeyboardNext]_keyboardVars

-----------------------------------------------------------------------------
\* Properties.

KeyboardTypeOK ==
  /\ QueueTypeOK
  /\ left \in [Threads -> 0 .. MaxCount]
  /\ \A t \in Clients : pc[t] = "user" <=> left[t] = 0

\* A status bit is set only while one of its keys is down, and the prefix
\* only between the two bytes of one key: no order of key events leaves
\* shift, ctrl or alt stuck, or makes one key out of two.  And the handler,
\* which takes no lock, disturbs no reader that sleeps on the ring.
HandlerSound ==
  /\ KeyboardTypeOK /\ SleeperHoldsLock
  /\ kb.ext <=> wire # NULL
  /\ wire = NULL => /\ kb.shift => held \cap ShiftKeys # {}
                    /\ kb.ctrl => held \cap CtrlKeys # {}
                    /\ kb.alt => held \cap AltKeys # {}

=============================================================================
