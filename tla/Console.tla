------------------------------ MODULE Console ------------------------------
(***************************************************************************)
(* The line of the shell: the keyboard handler, con_putch and del of       *)
(* src/src/console/console.cc and keyboard.cc.                             *)
(*                                                                         *)
(* A key's handler starts with interrupts off, but every character that is *)
(* put on the screen turns them on again (set_cursor), so the next key is  *)
(* handled in the middle of the last.  What is printed goes into the same  *)
(* buffer as what is typed, and a command ends by clearing it.  `frames'   *)
(* is the stack of handlers, the start-up at the bottom; only the last     *)
(* makes steps.                                                            *)
(***************************************************************************)
EXTENDS Integers, Sequences, FiniteSets

CONSTANTS
  Key,            \* characters of keys: Blank for slash too, NUL for none
  BUFFER,         \* bytes of cmd_buffer, 2000
  WIDTH, HEIGHT,  \* of the screen, 80 and 25
  MaxPrinted,     \* bound on the characters that a command prints
  MaxDepth        \* bound on handlers in handlers

NUL == ""
Blank == " "
Output == "output"            \* any character that the kernel prints

ASSUME ConsoleAssumption ==
  /\ Blank \in Key /\ Output \notin Key
  /\ BUFFER \in Nat \ {0} /\ WIDTH \in Nat \ {0} /\ HEIGHT \in Nat \ {0}
  /\ MaxPrinted \in Nat /\ MaxDepth \in Nat \ {0}

Char == Key \union {NUL, Output}
Cell == 0 .. (BUFFER - 1)
Cells == WIDTH * HEIGHT

VARIABLES
  cmd_buffer, cmd_buffer_index, cmd_input,
  pos,        \* of the cursor, in characters
  frames,     \* the handlers: kind, character, where it is, characters left
              \* to print, the prompt next or not, interrupts on
  running,    \* FALSE after _panic
  typed,      \* history: the keys since the buffer was cleared, if since = {}
  since,      \* history: what came between since then
  spilled     \* history: something was stored outside the buffer

buffer == <<cmd_buffer, cmd_buffer_index, cmd_input>>
history == <<typed, since, spilled>>
vars == <<buffer, pos, frames, running, history>>

Kinds == {"key", "del", "ctrl", "enter", "boot"}
Places == {"scroll", "put", "store", "inc", "delete", "erase", "blank", "dec", "enter",
           "nextline", "clear", "reset"}
Frame == [kind : Kinds, ch : Char, at : Places, left : Nat,
          prompt : BOOLEAN, on : BOOLEAN]

TypeOK ==
  /\ cmd_buffer \in [Cell -> Char]
  /\ cmd_buffer_index \in Int
  /\ cmd_input \in BOOLEAN
  /\ pos \in 0 .. (Cells + WIDTH + MaxDepth - 1) \* beyond the screen by a line,
                                 \* and one more for each handler that waits
  /\ frames \in Seq(Frame)
  /\ running \in BOOLEAN
  /\ typed \in Seq(Key)
  /\ since \subseteq {"ahead", "backspace", "ctrl"}
  /\ spilled \in BOOLEAN

-----------------------------------------------------------------------------
(* Each definition named ...Mutant is a plausible bug in the definition    *)
(* that follows it; no specification uses it.                              *)

Handler(kind, ch, at, left, on) ==
  [kind |-> kind, ch |-> ch, at |-> at, left |-> left,
   prompt |-> FALSE, on |-> on]

Empty == [c \in Cell |-> NUL]

(* init_Rishell has cleared the buffer and turned interrupts on; then most *)
(* of the start-up prints its messages, and RiOS_main clears the buffer,   *)
(* but not cmd_input, when it is done.                                     *)
Init ==
  /\ cmd_buffer = Empty /\ cmd_buffer_index = 0 /\ cmd_input = FALSE
  /\ pos \in 0 .. Cells
  /\ frames = <<Handler("boot", Output, "scroll", 1, TRUE)>>
  /\ running = TRUE
  /\ typed = <<>> /\ since = {} /\ spilled = FALSE

Depth == Len(frames)
Top == frames[Depth]
At(place) == running /\ Depth > 0 /\ Top.at = place
GoesOn(frame) == [frames EXCEPT ![Depth] = frame]
GoesTo(place) == [frames EXCEPT ![Depth].at = place]
Returns == SubSeq(frames, 1, Depth - 1)

(* A key is handled when interrupts are on; nothing has to be acknowledged.*)
Interruptible == running /\ Depth < MaxDepth /\ (Depth > 0 => Top.on)
Pressed(frame, note) ==
  /\ Interruptible
  /\ frames' = Append(frames, frame)
  /\ since' = since \union note \union (IF Depth > 0 THEN {"ahead"} ELSE {})
  /\ typed' = IF since' # {} THEN <<>>
              ELSE IF frame.kind = "key" THEN Append(typed, frame.ch)
              ELSE typed
  /\ UNCHANGED <<buffer, pos, running, spilled>>

do_keyboard(ch) == Pressed(Handler("key", ch, "scroll", 1, FALSE), {})
Backspace == Pressed(Handler("del", NUL, "scroll", 0, FALSE), {"backspace"})
RightCtrl == Pressed(Handler("ctrl", Output, "scroll", 1, FALSE), {"ctrl"})
Enter == Pressed(Handler("enter", Output, "scroll", 0, FALSE), {})

-----------------------------------------------------------------------------
(* con_putch begins with scroll, which prints blanks if it scrolls.        *)
scrolledMutant == pos
scrolled == IF pos >= Cells THEN Cells - WIDTH ELSE pos
Scroll ==
  /\ At("scroll")
  /\ pos' = scrolled
  /\ frames' = GoesOn([Top EXCEPT !.on = @ \/ pos >= Cells,
                                  !.at = CASE Top.left > 0 -> "put"
                                           [] Top.kind = "del" -> "delete"
                                           [] OTHER -> "enter"])
  /\ UNCHANGED <<buffer, running, history>>

(* Interrupts are off from here to set_cursor, which turns them on.        *)
Put ==
  /\ At("put")
  /\ cmd_input' = TRUE
  /\ pos' = pos + 1
  /\ frames' = GoesOn([Top EXCEPT !.on = TRUE, !.at = "store"])
  /\ UNCHANGED <<cmd_buffer, cmd_buffer_index, running, history>>

Stored(ch) ==
  /\ cmd_buffer' = IF cmd_buffer_index \in Cell
                   THEN [cmd_buffer EXCEPT ![cmd_buffer_index] = ch]
                   ELSE cmd_buffer
  /\ spilled' = (spilled \/ cmd_buffer_index \notin Cell)

(* What follows a printed character.                                       *)
FollowMutant(frame) ==
  [frame EXCEPT !.left = 0, !.at = IF cmd_input THEN "clear" ELSE "store"]
Follow(frame) ==
  IF frame.left > 1 THEN [frame EXCEPT !.left = @ - 1, !.at = "scroll"]
  ELSE [frame EXCEPT !.left = 0,
                     !.at = IF frame.kind = "enter" /\ ~frame.prompt
                            THEN "nextline" ELSE "clear"]
AfterChar ==
  IF Top.kind \in {"key", "ctrl"} THEN Returns ELSE GoesOn(Follow(Top))

(* ch2cmd_buffer; a command that has ended meanwhile has set cmd_input to 0.*)
Store ==
  /\ At("store")
  /\ \/ /\ cmd_input
        /\ Stored(Top.ch)
        /\ frames' = GoesTo("inc")
     \/ /\ ~cmd_input
        /\ frames' = AfterChar
        /\ UNCHANGED <<cmd_buffer, spilled>>
  /\ UNCHANGED <<cmd_buffer_index, cmd_input, pos, running, typed, since>>

Inc ==
  /\ At("inc")
  /\ cmd_buffer_index' = cmd_buffer_index + 1
  /\ frames' = AfterChar
  /\ UNCHANGED <<cmd_buffer, cmd_input, pos, running, history>>

(* del: set_cursor turns interrupts on; the cursor goes back, unless its   *)
(* column was the prompt's before a key came between; a blank is stored    *)
(* behind the line, and the index goes back whatever it was.               *)
Delete ==
  /\ At("delete")
  /\ frames' = GoesOn([Top EXCEPT !.on = TRUE, !.at = "erase"])
  /\ UNCHANGED <<buffer, pos, running, history>>

Erase ==
  /\ At("erase")
  /\ pos' \in {pos} \union (IF pos > 0 THEN {pos - 1} ELSE {})
  /\ frames' = GoesTo("blank")
  /\ UNCHANGED <<buffer, running, history>>

DelBlank ==
  /\ At("blank")
  /\ Stored(Blank)
  /\ frames' = GoesTo("dec")
  /\ UNCHANGED <<cmd_buffer_index, cmd_input, pos, running, typed, since>>

DelDec ==
  /\ At("dec")
  /\ cmd_buffer_index' = cmd_buffer_index - 1
  /\ frames' = Returns
  /\ UNCHANGED <<cmd_buffer, cmd_input, pos, running, history>>

-----------------------------------------------------------------------------
(* Enter: the line is copied with interrupts off, and run.                 *)
Line == LET ends == {c \in Cell : cmd_buffer[c] = NUL}
            end == IF ends = {} THEN BUFFER
                   ELSE CHOOSE c \in ends : \A d \in ends : c <= d
        IN  [k \in 1 .. end |-> cmd_buffer[k - 1]]

RunCommand ==
  /\ At("enter")
  /\ \E n \in 0 .. MaxPrinted :
       frames' = GoesOn([Top EXCEPT !.left = n,
                           !.at = IF n = 0 THEN "nextline" ELSE "scroll"])
  /\ UNCHANGED <<buffer, pos, running, history>>

(* "clear" clears buffer and screen at once.  The line may be empty: what  *)
(* strtok then returns is the word that eatcmd has left at address 0.      *)
RunClear ==
  /\ At("enter")
  /\ cmd_buffer' = Empty /\ cmd_buffer_index' = 0
  /\ pos' = 0
  /\ frames' = GoesTo("nextline")
  /\ UNCHANGED <<cmd_input, running, history>>

(* mkdir, cd and the like, the last one again when the line is empty, halt *)
(* when nothing follows the last blank or slash; Blank stands for both.    *)
RunPanics ==
  /\ At("enter")
  /\ Line # <<>> => Line[Len(Line)] = Blank
  /\ running' = FALSE
  /\ UNCHANGED <<buffer, pos, frames, history>>

(* The prompt is printed, and only then the buffer is cleared: in a loop,  *)
(* one step here, and the index after it.                                  *)
nextline == IF pos > 0 THEN (pos \div WIDTH + 1) * WIDTH ELSE pos
Nextline ==
  /\ At("nextline")
  /\ pos' = nextline
  /\ frames' = GoesOn([Top EXCEPT !.left = 1, !.prompt = TRUE, !.at = "scroll"])
  /\ UNCHANGED <<buffer, running, history>>

ClearedCellsMutant == cmd_buffer
ClearedCells == Empty
Clear ==
  /\ At("clear")
  /\ cmd_input' = (cmd_input /\ Top.kind = "boot")
  /\ cmd_buffer' = ClearedCells
  /\ frames' = GoesTo("reset")
  /\ typed' = IF Depth = 1 THEN <<>> ELSE typed
  /\ since' = IF Depth = 1 THEN {} ELSE since
  /\ UNCHANGED <<cmd_buffer_index, pos, running, spilled>>

Reset ==
  /\ At("reset")
  /\ cmd_buffer_index' = 0
  /\ frames' = Returns
  /\ UNCHANGED <<cmd_buffer, cmd_input, pos, running, history>>

Restart ==
  /\ cmd_buffer' = Empty /\ cmd_buffer_index' = 0 /\ cmd_input' = FALSE
  /\ pos' \in 0 .. Cells
  /\ frames' = <<Handler("boot", Output, "scroll", 1, TRUE)>>
  /\ running' = TRUE
  /\ typed' = <<>> /\ since' = {} /\ spilled' = FALSE

Press == \/ \E ch \in Key : do_keyboard(ch)
         \/ Backspace \/ RightCtrl \/ Enter
Step == \/ Scroll \/ Put \/ Store \/ Inc \/ Delete \/ Erase \/ DelBlank \/ DelDec
        \/ RunCommand \/ RunClear \/ RunPanics \/ Nextline \/ Clear \/ Reset
Next == Press \/ Step \/ Restart

Spec == Init /\ [][Next]_vars /\ WF_vars(Step)

-----------------------------------------------------------------------------
(* When no handler runs, and since the buffer was cleared each key came    *)
(* after the last was done, and no backspace: the buffer is what was typed *)
(* and nothing else, whatever was typed while earlier commands printed.    *)
BufferIsTyped ==
  (running /\ frames = <<>> /\ since = {} /\ ~spilled) =>
    /\ cmd_buffer_index = Len(typed)
    /\ \A c \in Cell :
         cmd_buffer[c] = IF c < Len(typed) THEN typed[c + 1] ELSE NUL

(* However keys and commands have overlapped, what the kernel has printed  *)
(* is not left in the line when the last of them is done, except for the   *)
(* index that the debug key prints.                                        *)
OutputStaysOut ==
  (running /\ frames = <<>> /\ "ctrl" \notin since) =>
    \A c \in Cell : cmd_buffer[c] # Output

(* Once the keys rest, every handler returns.                              *)
HandlersReturn ==
  []<><<Press \/ Restart>>_vars \/ []<>(frames = <<>> \/ ~running)
=============================================================================
