---------------------------- MODULE ConsoleProofs ----------------------------
(***************************************************************************)
(* Proofs about the console: for every set of keys, every screen and       *)
(* buffer, and any number of handlers in handlers, the line that a command *)
(* sees is what was typed, and what was printed does not stay in it.       *)
(***************************************************************************)
EXTENDS Console, SequenceTheorems, TLAPS

-----------------------------------------------------------------------------
(* The inductive invariant.                                                *)

(* Where a handler of each kind can be, and what it has left to print.     *)
FrameOK(f) ==
  /\ f.kind \in {"key", "ctrl"} =>
       f.at \in {"scroll", "put", "store", "inc"} /\ f.left = 1
  /\ f.kind = "key" => f.ch \in Key
  /\ f.kind = "del" =>
       f.at \in {"scroll", "delete", "erase", "blank", "dec"} /\ f.left = 0
  /\ f.kind = "boot" =>
       /\ f.at \in {"scroll", "put", "store", "inc", "clear", "reset"}
       /\ f.at = "scroll" => f.left > 0
  /\ f.kind = "enter" => f.at \notin {"delete", "erase", "blank", "dec"}

FramesOK == Depth <= MaxDepth /\ \A i \in 1 .. Depth : FrameOK(frames[i])

(* A handler scrolls before it prints, but those that it interrupts print  *)
(* after it without looking again: one character each.                     *)
CursorOK ==
  /\ Depth = 0 => pos < Cells + MaxDepth
  /\ Depth > 0 => /\ Top.at # "scroll" => pos <= Cells + MaxDepth - Depth
                  /\ Top.at = "put" => pos < Cells + MaxDepth - Depth

(* The first n characters of a line are all that is in the buffer.         *)
Holds(n, line) ==
  \A c \in Cell : cmd_buffer[c] = IF c < n THEN line[c + 1] ELSE NUL

(* A key is on its way into the buffer.                                    *)
KeyUnderWay ==
  /\ Len(typed) > 0
  /\ Top.ch = typed[Len(typed)]
  /\ cmd_buffer_index = Len(typed) - 1
  /\ Top.at = "store" => cmd_input
  /\ Top.at = "inc" => Holds(Len(typed), typed)
  /\ Top.at # "inc" => Holds(Len(typed) - 1, typed)

(* While nothing has overlapped there is one handler at most, and it is    *)
(* known how far it has come.                                              *)
QuietLine ==
  since = {} =>
    /\ Depth <= 1
    /\ Depth = 1 => Top.kind \in {"key", "enter", "boot"}
    /\ ~spilled =>
         /\ Depth = 0 =>
              cmd_buffer_index = Len(typed) /\ Holds(Len(typed), typed)
         /\ Depth = 1 /\ Top.at = "reset" =>
              cmd_buffer = Empty /\ typed = <<>>
         /\ Depth = 1 /\ Top.kind = "key" => KeyUnderWay

CtrlKnown == \A i \in 1 .. Depth : frames[i].kind = "ctrl" => "ctrl" \in since

(* A handler that prints into the buffer and has not yet cleared it.       *)
WillClear(f) == f.kind \in {"enter", "boot"} /\ f.at # "reset"

OutputCleared ==
  "ctrl" \notin since =>
    \A c \in Cell : cmd_buffer[c] = Output =>
      \E i \in 1 .. Depth : WillClear(frames[i])

ConsoleInv ==
  /\ TypeOK
  /\ FramesOK /\ CursorOK
  /\ QuietLine
  /\ CtrlKnown /\ OutputCleared

-----------------------------------------------------------------------------
(* The screen and the stack.                                               *)

LEMMA Screen ==
  /\ WIDTH \in Nat /\ WIDTH >= 1
  /\ Cells \in Nat /\ Cells >= WIDTH
  /\ MaxDepth \in Nat /\ MaxDepth >= 1
<1>1. /\ WIDTH \in Nat /\ WIDTH >= 1 /\ HEIGHT \in Nat /\ HEIGHT >= 1
      /\ MaxDepth \in Nat /\ MaxDepth >= 1
  BY ConsoleAssumption
<1>2. ASSUME NEW w \in Nat, NEW h \in Nat, w >= 1, h >= 1
      PROVE  w * h \in Nat /\ w * h >= w
  <2>1. w * h = w * (h - 1) + w
    OBVIOUS
  <2>2. w * (h - 1) \in Nat
    BY <1>2
  <2> QED
    BY <2>1, <2>2
<1>3. WIDTH * HEIGHT \in Nat /\ WIDTH * HEIGHT >= WIDTH
  BY <1>1, <1>2, Zenon
<1> QED
  BY <1>1, <1>3, Zenon DEF Cells

(* Stepping down to the start of the next line is one line at most.        *)
LEMMA NextLine ==
  ASSUME NEW p \in Nat, NEW w \in Nat, w >= 1
  PROVE  /\ (p \div w + 1) * w \in Nat
         /\ (p \div w + 1) * w <= p + w
<1>1. PICK q \in Nat, r \in 0 .. (w - 1) : p = q * w + r /\ q = p \div w
  <2>1. p \div w \in Nat /\ p % w \in 0 .. (w - 1)
    OBVIOUS
  <2>2. p = (p \div w) * w + (p % w)
    OBVIOUS
  <2> QED
    BY <2>1, <2>2
<1>2. (q + 1) * w = q * w + w /\ q * w \in Nat
  OBVIOUS
<1> QED
  BY <1>1, <1>2

LEMMA TopReplaced ==
  ASSUME NEW S, NEW s \in Seq(S), NEW n \in Nat, n = Len(s), n > 0,
         NEW f \in S
  PROVE  /\ [s EXCEPT ![n] = f] \in Seq(S)
         /\ Len([s EXCEPT ![n] = f]) = n
         /\ [s EXCEPT ![n] = f][n] = f
         /\ \A i \in 1 .. (n - 1) : [s EXCEPT ![n] = f][i] = s[i]
<1>1. n \in 1 .. Len(s) /\ \A i \in 1 .. (n - 1) : i \in 1 .. Len(s) /\ i # n
  OBVIOUS
<1> QED
  BY <1>1, ExceptSeq

LEMMA TopReturned ==
  ASSUME NEW S, NEW s \in Seq(S), NEW n \in Nat, n = Len(s), n > 0
  PROVE  /\ SubSeq(s, 1, n - 1) \in Seq(S)
         /\ Len(SubSeq(s, 1, n - 1)) = n - 1
         /\ \A i \in 1 .. (n - 1) : SubSeq(s, 1, n - 1)[i] = s[i]
<1>1. \A i \in 1 .. (n - 1) : s[i] \in S
  BY ElementOfSeq
<1>2. 1 \in Int /\ n - 1 \in Int /\ (n - 1) - 1 + 1 = n - 1
      /\ \A i \in 1 .. (n - 1) : 1 + i - 1 = i
  OBVIOUS
<1>3. /\ SubSeq(s, 1, n - 1) \in Seq(S)
      /\ Len(SubSeq(s, 1, n - 1)) = IF 1 <= n - 1 THEN (n - 1) - 1 + 1 ELSE 0
      /\ \A i \in 1 .. (n - 1) - 1 + 1 : SubSeq(s, 1, n - 1)[i] = s[1 + i - 1]
  BY <1>1, <1>2, SubSeqProperties
<1> QED
  BY <1>2, <1>3

LEMMA TopPushed ==
  ASSUME NEW S, NEW s \in Seq(S), NEW n \in Nat, n = Len(s), NEW f \in S
  PROVE  /\ Append(s, f) \in Seq(S)
         /\ Len(Append(s, f)) = n + 1
         /\ Append(s, f)[n + 1] = f
         /\ \A i \in 1 .. n : Append(s, f)[i] = s[i]
BY AppendProperties

-----------------------------------------------------------------------------
(* What the steps have in common.                                          *)

LEMMA StackFacts ==
  ASSUME ConsoleInv
  PROVE  /\ frames \in Seq(Frame)
         /\ Depth \in Nat /\ Depth = Len(frames) /\ Depth <= MaxDepth
         /\ \A i \in 1 .. Depth : frames[i] \in Frame /\ FrameOK(frames[i])
         /\ Depth > 0 => Top \in Frame /\ FrameOK(Top)
<1>1. frames \in Seq(Frame) /\ Depth = Len(frames) /\ Depth \in Nat
  BY LenProperties DEF ConsoleInv, TypeOK, Depth
<1>2. /\ Depth <= MaxDepth
      /\ \A i \in 1 .. Depth : frames[i] \in Frame /\ FrameOK(frames[i])
  BY <1>1, ElementOfSeq DEF ConsoleInv, FramesOK
<1>3. Depth > 0 => Depth \in 1 .. Depth
  BY <1>1
<1> QED
  BY <1>1, <1>2, <1>3 DEF Top

(* No character that the kernel prints gets into the buffer, unless the    *)
(* handler at the top will clear it, or the debug key is known.            *)
NothingPrinted ==
  \A c \in Cell : cmd_buffer'[c] = Output =>
    \/ cmd_buffer[c] = Output
    \/ Top.kind \in {"ctrl", "enter", "boot"}

(* The handler at the top goes on, before its buffer is reset.             *)
LEMMA GoesOnStep ==
  ASSUME ConsoleInv, Depth > 0, NEW f \in Frame, FrameOK(f),
         f.kind = Top.kind, f.at # "reset", frames' = GoesOn(f),
         typed' = typed, since' = since, NothingPrinted
  PROVE  /\ frames' \in Seq(Frame) /\ Depth' = Depth /\ Top' = f
         /\ FramesOK' /\ CtrlKnown' /\ OutputCleared'
         /\ f.kind # "key" => QuietLine'
<1> DEFINE n == Depth
<1>1. /\ frames \in Seq(Frame) /\ n \in Nat /\ n = Len(frames) /\ n > 0
      /\ n <= MaxDepth
      /\ \A i \in 1 .. n : FrameOK(frames[i])
      /\ Top = frames[n]
  BY StackFacts DEF Top
<1>2. frames' = [frames EXCEPT ![n] = f]
  BY DEF GoesOn
<1>3. /\ frames' \in Seq(Frame) /\ Len(frames') = n
      /\ frames'[n] = f
      /\ \A i \in 1 .. (n - 1) : frames'[i] = frames[i]
  BY <1>1, <1>2, TopReplaced
<1>4. Depth' = n /\ Top' = f
  BY <1>3 DEF Depth, Top
<1>5. \A i \in 1 .. n : i # n => i \in 1 .. (n - 1) /\ frames'[i] = frames[i]
  BY <1>1, <1>3
<1>6. n \in 1 .. n
  BY <1>1
<1> HIDE DEF n
<1>7. FramesOK'
  <2>1. \A i \in 1 .. n : FrameOK(frames'[i])
    BY <1>1, <1>3, <1>5
  <2>2. \A i \in 1 .. n : FrameOK(frames[i])'
    BY <2>1 DEF FrameOK
  <2>3. MaxDepth' = MaxDepth
    OBVIOUS
  <2> QED
    BY <2>2, <1>1, <1>4 DEF FramesOK
<1>8. CtrlKnown'
  <2>1. \A i \in 1 .. n : frames[i].kind = "ctrl" => "ctrl" \in since
    BY DEF n, ConsoleInv, CtrlKnown
  <2>2. \A i \in 1 .. n : frames'[i].kind = "ctrl" => "ctrl" \in since
    BY <2>1, <1>1, <1>3, <1>5, <1>6
  <2> QED
    BY <2>2, <1>4 DEF CtrlKnown
<1>9. OutputCleared'
  <2> SUFFICES ASSUME "ctrl" \notin since, NEW c \in Cell,
                      cmd_buffer'[c] = Output
               PROVE  \E i \in 1 .. n : WillClear(frames'[i])
    BY <1>4 DEF OutputCleared, WillClear
  <2>1. Top.kind # "ctrl"
    BY <1>1, <1>6 DEF n, ConsoleInv, CtrlKnown
  <2>2. CASE f.kind \in {"enter", "boot"}
    BY <2>2, <1>3, <1>6 DEF WillClear
  <2>3. CASE f.kind \notin {"enter", "boot"}
    <3>1. cmd_buffer[c] = Output
      BY <2>1, <2>3 DEF NothingPrinted
    <3>2. PICK i \in 1 .. n : WillClear(frames[i])
      BY <3>1 DEF n, ConsoleInv, OutputCleared
    <3>3. i # n
      BY <3>2, <2>3, <1>1 DEF WillClear
    <3> QED
      BY <3>2, <3>3, <1>5
  <2> QED
    BY <2>2, <2>3
<1>10. ASSUME f.kind # "key"
       PROVE  QuietLine'
  <2> SUFFICES ASSUME since = {}
               PROVE  /\ n <= 1
                      /\ n = 1 => f.kind \in {"key", "enter", "boot"}
    BY <1>1, <1>4, <1>10 DEF QuietLine
  <2> QED
    BY <1>1 DEF n, ConsoleInv, QuietLine
<1> QED
  BY <1>3, <1>4, <1>7, <1>8, <1>9, <1>10 DEF n

(* The handler at the top returns.                                         *)
LEMMA ReturnStep ==
  ASSUME ConsoleInv, Depth > 0, Top.at # "scroll",
         Top.kind \in {"key", "ctrl", "del"} \/ Top.at = "reset",
         frames' = Returns, since' = since, cmd_buffer' = cmd_buffer,
         pos' = pos
  PROVE  /\ frames' \in Seq(Frame) /\ Depth' = Depth - 1
         /\ FramesOK' /\ CursorOK' /\ CtrlKnown' /\ OutputCleared'
<1> DEFINE n == Depth
<1>1. /\ frames \in Seq(Frame) /\ n \in Nat /\ n = Len(frames) /\ n > 0
      /\ n <= MaxDepth
      /\ \A i \in 1 .. n : FrameOK(frames[i])
      /\ Top = frames[n]
  BY StackFacts DEF Top
<1>2. frames' = SubSeq(frames, 1, n - 1)
  BY DEF Returns
<1>3. /\ frames' \in Seq(Frame) /\ Len(frames') = n - 1
      /\ \A i \in 1 .. (n - 1) : frames'[i] = frames[i]
  BY <1>1, <1>2, TopReturned
<1>4. Depth' = n - 1
  BY <1>3 DEF Depth
<1>5. \A i \in 1 .. (n - 1) : i \in 1 .. n /\ frames'[i] = frames[i]
  BY <1>1, <1>3
<1>6. CursorOK'
  <2>1. pos <= Cells + MaxDepth - n
    BY DEF n, ConsoleInv, CursorOK
  <2>2. pos \in Int
    BY Screen DEF ConsoleInv, TypeOK
  <2>3. MaxDepth' = MaxDepth /\ Cells' = Cells
    BY DEF Cells
  <2>4. Depth' = 0 => pos < Cells + MaxDepth
    BY <2>1, <2>2, <1>1, <1>4, Screen
  <2>5. pos < Cells + MaxDepth - Depth'
    BY <2>1, <2>2, <1>1, <1>4, Screen
  <2>6. pos <= Cells + MaxDepth - Depth'
    BY <2>2, <2>5, <1>1, <1>4, Screen
  <2> QED
    BY <2>3, <2>4, <2>5, <2>6 DEF CursorOK
<1> HIDE DEF n
<1>7. FramesOK'
  <2>1. \A i \in 1 .. (n - 1) : FrameOK(frames[i])'
    BY <1>1, <1>5 DEF FrameOK
  <2>2. n - 1 <= MaxDepth
    BY <1>1, Screen
  <2> QED
    BY <2>1, <2>2, <1>4 DEF FramesOK
<1>8. CtrlKnown'
  BY <1>4, <1>5 DEF n, ConsoleInv, CtrlKnown
<1>9. OutputCleared'
  <2> SUFFICES ASSUME "ctrl" \notin since, NEW c \in Cell,
                      cmd_buffer[c] = Output
               PROVE  \E i \in 1 .. (n - 1) : WillClear(frames'[i])
    BY <1>4 DEF OutputCleared, WillClear
  <2>1. PICK i \in 1 .. n : WillClear(frames[i])
    BY DEF n, ConsoleInv, OutputCleared
  <2>2. i # n
    BY <2>1, <1>1 DEF WillClear
  <2>3. i \in 1 .. (n - 1)
    BY <2>2, <1>1
  <2> QED
    BY <2>1, <2>3, <1>5
<1> QED
  BY <1>3, <1>4, <1>6, <1>7, <1>8, <1>9 DEF n

LEMMA Characters ==
  /\ Blank \in Key /\ Blank \in Char /\ NUL \in Char /\ Output \in Char
  /\ Key \subseteq Char /\ Output \notin Key
  /\ Blank # Output /\ NUL # Output
BY ConsoleAssumption DEF Char, NUL, Output

LEMMA EmptyFacts ==
  /\ Empty \in [Cell -> Char]
  /\ \A c \in Cell : Empty[c] = NUL /\ Empty[c] # Output
BY Characters DEF Empty

-----------------------------------------------------------------------------
(* The start, at first and after a reset.                                  *)
LEMMA ConsoleInitially == Init => ConsoleInv
<1> SUFFICES ASSUME Init
             PROVE  ConsoleInv
  OBVIOUS
<1> DEFINE f == Handler("boot", Output, "scroll", 1, TRUE)
<1>1. /\ f \in Frame /\ FrameOK(f)
      /\ f.kind = "boot" /\ f.at = "scroll"
  BY Characters DEF f, Handler, Frame, Kinds, Places, FrameOK
<1> HIDE DEF f
<1>2. frames = <<f>> /\ since = {} /\ spilled = FALSE
  BY DEF Init, f
<1>3. /\ frames \in Seq(Frame) /\ Depth = 1 /\ Top = f /\ frames[1] = f
  BY <1>1, <1>2 DEF Depth, Top
<1>4. TypeOK
  <2>1. pos \in 0 .. (Cells + WIDTH + MaxDepth - 1)
    BY Screen DEF Init
  <2>2. cmd_buffer \in [Cell -> Char] /\ typed \in Seq(Key)
    BY EmptyFacts, EmptySeq, Zenon DEF Init
  <2>3. cmd_input \in BOOLEAN /\ running \in BOOLEAN /\ spilled \in BOOLEAN
    BY Zenon DEF Init
  <2>4. cmd_buffer_index \in Int
    BY DEF Init
  <2> QED
    BY <2>1, <2>2, <2>3, <2>4, <1>2, <1>3 DEF TypeOK
<1>5. FramesOK
  BY <1>1, <1>3, Screen DEF FramesOK
<1>6. CursorOK
  BY <1>1, <1>3 DEF CursorOK
<1>7. QuietLine
  BY <1>1, <1>3 DEF QuietLine
<1>8. CtrlKnown
  BY <1>1, <1>3 DEF CtrlKnown
<1>9. OutputCleared
  BY EmptyFacts DEF OutputCleared, Init
<1> QED
  BY <1>4, <1>5, <1>6, <1>7, <1>8, <1>9 DEF ConsoleInv

(* A reset leaves the machine as it was switched on.                       *)
LEMMA RestartStep ==
  ASSUME Restart
  PROVE  ConsoleInv'
<1>1. (Init)'
  BY DEF Restart, Init, Empty, Cells, Handler, Cell
<1> QED
  BY <1>1, ConsoleInitially, PTL

-----------------------------------------------------------------------------
(* A key: its handler starts on top of the others.                         *)
LEMMA PressedStep ==
  ASSUME ConsoleInv,
         NEW f \in Frame, FrameOK(f), f.at = "scroll",
         NEW note \in SUBSET {"backspace", "ctrl"},
         f.kind \in {"key", "enter"} \/ note # {},
         f.kind = "ctrl" => "ctrl" \in note,
         f.kind # "boot",
         Pressed(f, note)
  PROVE  ConsoleInv'
<1> DEFINE n == Depth
           ahead == IF n > 0 THEN {"ahead"} ELSE {}
<1>1. /\ frames \in Seq(Frame) /\ n \in Nat /\ n = Len(frames)
      /\ n < MaxDepth
      /\ \A i \in 1 .. n : FrameOK(frames[i])
  BY StackFacts DEF Pressed, Interruptible
<1>2. /\ frames' = Append(frames, f)
      /\ since' = since \union note \union ahead
      /\ cmd_buffer' = cmd_buffer /\ cmd_buffer_index' = cmd_buffer_index
      /\ cmd_input' = cmd_input /\ pos' = pos
      /\ running' = running /\ spilled' = spilled
  BY DEF Pressed, buffer
<1>3. /\ frames' \in Seq(Frame) /\ Len(frames') = n + 1
      /\ frames'[n + 1] = f
      /\ \A i \in 1 .. n : frames'[i] = frames[i]
  BY <1>1, <1>2, TopPushed
<1>4. Depth' = n + 1 /\ Top' = f
  BY <1>3 DEF Depth, Top
<1>5. /\ \A i \in 1 .. (n + 1) : i # n + 1 => i \in 1 .. n
      /\ \A i \in 1 .. n : i \in 1 .. (n + 1)
  BY <1>1
<1>6. typed \in Seq(Key)
  BY DEF ConsoleInv, TypeOK
<1>7. ASSUME since' = {}
      PROVE  since = {} /\ note = {} /\ n = 0 /\ f.kind \in {"key", "enter"}
  <2>1. since = {} /\ note = {} /\ ahead = {}
    BY <1>2, <1>7
  <2>2. n = 0
    BY <2>1, <1>1
  <2> QED
    BY <2>1, <2>2
<1>8. typed' \in Seq(Key)
  <2>1. CASE since' # {}
    BY <2>1, EmptySeq DEF Pressed
  <2>2. CASE since' = {} /\ f.kind = "key"
    <3>1. f.ch \in Key /\ typed' = Append(typed, f.ch)
      BY <2>2 DEF FrameOK, Pressed
    <3> QED
      BY <3>1, <1>6, AppendProperties
  <2>3. CASE since' = {} /\ f.kind # "key"
    BY <2>3, <1>6 DEF Pressed
  <2> QED
    BY <2>1, <2>2, <2>3
<1>9. since' \subseteq {"ahead", "backspace", "ctrl"}
  BY <1>2 DEF ConsoleInv, TypeOK
<1>10. TypeOK'
  BY <1>2, <1>3, <1>8, <1>9 DEF ConsoleInv, TypeOK, Cell, Cells, Char, Frame
<1> HIDE DEF n, ahead
<1>11. FramesOK'
  <2>1. \A i \in 1 .. (n + 1) : FrameOK(frames'[i])
    BY <1>1, <1>3, <1>5
  <2>2. \A i \in 1 .. (n + 1) : FrameOK(frames[i])'
    BY <2>1 DEF FrameOK
  <2>3. n + 1 <= MaxDepth
    BY <1>1, Screen
  <2> QED
    BY <2>2, <2>3, <1>4 DEF FramesOK
<1>12. CursorOK'
  BY <1>1, <1>4 DEF CursorOK
<1>13. CtrlKnown'
  <2>1. \A i \in 1 .. n : frames[i].kind = "ctrl" => "ctrl" \in since
    BY DEF n, ConsoleInv, CtrlKnown
  <2>2. \A i \in 1 .. (n + 1) : frames'[i].kind = "ctrl" => "ctrl" \in since'
    BY <2>1, <1>2, <1>3, <1>5
  <2> QED
    BY <2>2, <1>4 DEF CtrlKnown
<1>14. OutputCleared'
  <2> SUFFICES ASSUME "ctrl" \notin since', NEW c \in Cell,
                      cmd_buffer[c] = Output
               PROVE  \E i \in 1 .. (n + 1) : WillClear(frames'[i])
    BY <1>2, <1>4 DEF OutputCleared, WillClear
  <2>1. "ctrl" \notin since
    BY <1>2
  <2>2. PICK i \in 1 .. n : WillClear(frames[i])
    BY <2>1 DEF n, ConsoleInv, OutputCleared
  <2> QED
    BY <2>2, <1>3, <1>5
<1>15. QuietLine'
  <2>1. CASE since' # {}
    BY <2>1 DEF QuietLine
  <2>2. CASE since' = {}
    <3>1. Depth' = 1 /\ f.kind \in {"key", "enter"} /\ n = 0
      BY <1>4, <1>7, <2>2
    <3>2. ASSUME ~spilled, f.kind = "key"
          PROVE  KeyUnderWay'
      <4>1. cmd_buffer_index = Len(typed) /\ Holds(Len(typed), typed)
        BY <1>7, <2>2, <3>2 DEF n, ConsoleInv, QuietLine
      <4>2. typed' = Append(typed, f.ch) /\ f.ch \in Key
        BY <2>2, <3>2 DEF Pressed, FrameOK
      <4>3. /\ Len(typed) \in Nat
            /\ Len(typed') = Len(typed) + 1
            /\ \A i \in 1 .. Len(typed) : typed'[i] = typed[i]
            /\ typed'[Len(typed) + 1] = f.ch
        BY <4>2, <1>6, AppendProperties, LenProperties
      <4>4. Len(typed') - 1 = Len(typed) /\ Len(typed') > 0
        BY <4>3
      <4>5. \A c \in Cell : cmd_buffer'[c] =
              IF c < Len(typed') - 1 THEN typed'[c + 1] ELSE NUL
        <5>1. \A c \in Cell : c < Len(typed) => c + 1 \in 1 .. Len(typed)
          BY <4>3 DEF Cell
        <5>2. \A c \in Cell : cmd_buffer[c] =
                IF c < Len(typed) THEN typed'[c + 1] ELSE NUL
          BY <5>1, <4>1, <4>3 DEF Holds
        <5> QED
          BY <5>2, <4>4, <1>2
      <4>6. f.at # "store" /\ f.at # "inc"
        OBVIOUS
      <4> QED
        BY <4>1, <4>3, <4>4, <4>5, <4>6, <1>2, <1>4
        DEF KeyUnderWay, Holds, Cell, NUL
    <3> QED
      BY <3>1, <3>2, <1>2, <1>4 DEF QuietLine
  <2> QED
    BY <2>1, <2>2
<1> QED
  BY <1>10, <1>11, <1>12, <1>13, <1>14, <1>15 DEF ConsoleInv

LEMMA PressStep ==
  ASSUME ConsoleInv, Press
  PROVE  ConsoleInv'
<1>1. ASSUME NEW ch \in Key, do_keyboard(ch)
      PROVE  ConsoleInv'
  <2> DEFINE f == Handler("key", ch, "scroll", 1, FALSE)
  <2>1. f \in Frame /\ FrameOK(f) /\ f.at = "scroll" /\ f.kind = "key"
    BY Characters DEF Handler, Frame, Kinds, Places, FrameOK
  <2>2. Pressed(f, {})
    BY <1>1 DEF do_keyboard
  <2> HIDE DEF f
  <2> QED
    BY <2>1, <2>2, PressedStep
<1>2. ASSUME Backspace
      PROVE  ConsoleInv'
  <2> DEFINE f == Handler("del", NUL, "scroll", 0, FALSE)
  <2>1. f \in Frame /\ FrameOK(f) /\ f.at = "scroll" /\ f.kind = "del"
    BY Characters DEF Handler, Frame, Kinds, Places, FrameOK
  <2>2. Pressed(f, {"backspace"})
    BY <1>2 DEF Backspace
  <2> HIDE DEF f
  <2> QED
    BY <2>1, <2>2, PressedStep
<1>3. ASSUME RightCtrl
      PROVE  ConsoleInv'
  <2> DEFINE f == Handler("ctrl", Output, "scroll", 1, FALSE)
  <2>1. f \in Frame /\ FrameOK(f) /\ f.at = "scroll" /\ f.kind = "ctrl"
    BY Characters DEF Handler, Frame, Kinds, Places, FrameOK
  <2>2. Pressed(f, {"ctrl"})
    BY <1>3 DEF RightCtrl
  <2> HIDE DEF f
  <2> QED
    BY <2>1, <2>2, PressedStep
<1>4. ASSUME Enter
      PROVE  ConsoleInv'
  <2> DEFINE f == Handler("enter", Output, "scroll", 0, FALSE)
  <2>1. f \in Frame /\ FrameOK(f) /\ f.at = "scroll" /\ f.kind = "enter"
    BY Characters DEF Handler, Frame, Kinds, Places, FrameOK
  <2>2. Pressed(f, {})
    BY <1>4 DEF Enter
  <2> HIDE DEF f
  <2> QED
    BY <2>1, <2>2, PressedStep
<1> QED
  BY <1>1, <1>2, <1>3, <1>4 DEF Press

-----------------------------------------------------------------------------
(* A step of the handler at the top.                                       *)
LEMMA AtFacts ==
  ASSUME ConsoleInv, NEW place \in Places, At(place)
  PROVE  /\ running /\ Depth \in Nat /\ Depth > 0 /\ Depth <= MaxDepth
         /\ Top \in Frame /\ FrameOK(Top) /\ Top.at = place
         /\ pos \in Nat
         /\ place # "scroll" => pos <= Cells + MaxDepth - Depth
         /\ place = "put" => pos < Cells + MaxDepth - Depth
<1>1. /\ running /\ Depth \in Nat /\ Depth > 0 /\ Depth <= MaxDepth
      /\ Top \in Frame /\ FrameOK(Top) /\ Top.at = place
  BY StackFacts DEF At
<1>2. pos \in Nat
  BY Screen DEF ConsoleInv, TypeOK
<1> QED
  BY <1>1, <1>2 DEF ConsoleInv, CursorOK

LEMMA GoesToIsGoesOn ==
  ASSUME NEW place
  PROVE  GoesTo(place) = GoesOn([Top EXCEPT !.at = place])
BY DEF GoesTo, GoesOn, Top

LEMMA CursorStep ==
  ASSUME ConsoleInv, Depth > 0, Depth' = Depth,
         pos' \in Nat,
         Top'.at # "scroll" => pos' <= Cells + MaxDepth - Depth,
         Top'.at = "put" => pos' < Cells + MaxDepth - Depth
  PROVE  CursorOK'
<1>1. Cells' = Cells
  BY DEF Cells
<1> QED
  BY <1>1 DEF CursorOK

LEMMA ScrollStep ==
  ASSUME ConsoleInv, Scroll
  PROVE  ConsoleInv'
<1> DEFINE place == CASE Top.left > 0 -> "put"
                      [] Top.kind = "del" -> "delete"
                      [] OTHER -> "enter"
           f == [Top EXCEPT !.on = @ \/ pos >= Cells, !.at = place]
<1>1. /\ Depth \in Nat /\ Depth > 0 /\ Depth <= MaxDepth
      /\ Top \in Frame /\ FrameOK(Top) /\ Top.at = "scroll" /\ pos \in Nat
  BY AtFacts DEF Scroll, Places
<1>2. /\ frames' = GoesOn(f) /\ pos' = scrolled
      /\ cmd_buffer' = cmd_buffer /\ cmd_buffer_index' = cmd_buffer_index
      /\ cmd_input' = cmd_input /\ running' = running /\ typed' = typed
      /\ since' = since /\ spilled' = spilled
  BY DEF Scroll, buffer, history
<1>3. place \in {"put", "delete", "enter"} /\ place \in Places
  BY DEF Places
<1>4. /\ f \in Frame /\ f.kind = Top.kind /\ f.ch = Top.ch
      /\ f.left = Top.left /\ f.at = place
  BY <1>1, <1>3 DEF Frame
<1>5. FrameOK(f)
  <2>1. Top.kind \in {"key", "ctrl", "boot"} => place = "put"
    BY <1>1 DEF FrameOK
  <2>2. Top.kind = "del" => place = "delete"
    BY <1>1 DEF FrameOK
  <2>3. Top.kind = "enter" => place # "delete"
    OBVIOUS
  <2> HIDE DEF place, f
  <2> QED
    BY <2>1, <2>2, <2>3, <1>1, <1>3, <1>4 DEF FrameOK
<1> HIDE DEF place, f
<1>6. /\ frames' \in Seq(Frame) /\ Depth' = Depth /\ Top' = f
      /\ FramesOK' /\ CtrlKnown' /\ OutputCleared'
      /\ f.kind # "key" => QuietLine'
  <2>1. NothingPrinted
    BY <1>2 DEF NothingPrinted
  <2> QED
    BY <2>1, <1>1, <1>2, <1>3, <1>4, <1>5, GoesOnStep
<1>7. pos' \in Nat /\ pos' < Cells
  BY <1>1, <1>2, Screen DEF scrolled
<1>8. TypeOK'
  BY <1>2, <1>6, <1>7, Screen
  DEF ConsoleInv, TypeOK, Cell, Cells, Char, Frame
<1>9. CursorOK'
  BY <1>1, <1>6, <1>7, Screen, CursorStep
<1>10. QuietLine'
  <2> SUFFICES ASSUME f.kind = "key", since = {}
               PROVE  QuietLine'
    BY <1>2, <1>6 DEF QuietLine
  <2>1. Depth = 1 /\ (~spilled => KeyUnderWay)
    BY <1>1, <1>4 DEF ConsoleInv, QuietLine
  <2>2. ~spilled => KeyUnderWay'
    BY <2>1, <1>1, <1>2, <1>3, <1>4, <1>6 DEF KeyUnderWay, Holds, Cell, NUL
  <2> QED
    BY <2>1, <2>2, <1>2, <1>3, <1>4, <1>6 DEF QuietLine
<1> QED
  BY <1>6, <1>8, <1>9, <1>10 DEF ConsoleInv

LEMMA PutStep ==
  ASSUME ConsoleInv, Put
  PROVE  ConsoleInv'
<1> DEFINE f == [Top EXCEPT !.on = TRUE, !.at = "store"]
<1>1. /\ Depth \in Nat /\ Depth > 0 /\ Depth <= MaxDepth
      /\ Top \in Frame /\ FrameOK(Top) /\ Top.at = "put" /\ pos \in Nat
      /\ pos < Cells + MaxDepth - Depth
  BY AtFacts DEF Put, Places
<1>2. /\ frames' = GoesOn(f) /\ pos' = pos + 1
      /\ cmd_buffer' = cmd_buffer /\ cmd_buffer_index' = cmd_buffer_index
      /\ cmd_input' = TRUE /\ running' = running /\ typed' = typed
      /\ since' = since /\ spilled' = spilled
  BY DEF Put, history
<1>3. /\ f \in Frame /\ f.kind = Top.kind /\ f.ch = Top.ch
      /\ f.left = Top.left /\ f.at = "store"
  BY <1>1 DEF Frame, Places
<1> HIDE DEF f
<1>4. FrameOK(f)
  BY <1>1, <1>3 DEF FrameOK
<1>5. /\ frames' \in Seq(Frame) /\ Depth' = Depth /\ Top' = f
      /\ FramesOK' /\ CtrlKnown' /\ OutputCleared'
      /\ f.kind # "key" => QuietLine'
  <2>1. NothingPrinted
    BY <1>2 DEF NothingPrinted
  <2> QED
    BY <2>1, <1>1, <1>2, <1>3, <1>4, GoesOnStep
<1>6. /\ pos' \in Nat /\ pos' <= Cells + MaxDepth - Depth
      /\ pos' \in 0 .. (Cells + WIDTH + MaxDepth - 1)
  BY <1>1, <1>2, Screen
<1>7. TypeOK'
  BY <1>2, <1>5, <1>6 DEF ConsoleInv, TypeOK, Cell, Cells, Char, Frame
<1>8. CursorOK'
  BY <1>1, <1>3, <1>5, <1>6, CursorStep
<1>9. QuietLine'
  <2> SUFFICES ASSUME f.kind = "key", since = {}
               PROVE  QuietLine'
    BY <1>2, <1>5 DEF QuietLine
  <2>1. Depth = 1 /\ (~spilled => KeyUnderWay)
    BY <1>1, <1>3 DEF ConsoleInv, QuietLine
  <2>2. ~spilled => KeyUnderWay'
    BY <2>1, <1>1, <1>2, <1>3, <1>5 DEF KeyUnderWay, Holds, Cell, NUL
  <2> QED
    BY <2>1, <2>2, <1>2, <1>3, <1>5 DEF QuietLine
<1> QED
  BY <1>5, <1>7, <1>8, <1>9 DEF ConsoleInv

(* A character goes into the buffer, or is lost outside it.                *)
LEMMA StoredFacts ==
  ASSUME ConsoleInv, NEW ch \in Char, Stored(ch)
  PROVE  /\ cmd_buffer' \in [Cell -> Char]
         /\ spilled' \in BOOLEAN /\ (spilled => spilled')
         /\ ~spilled' => cmd_buffer_index \in Cell
         /\ \A c \in Cell : c # cmd_buffer_index => cmd_buffer'[c] = cmd_buffer[c]
         /\ cmd_buffer_index \in Cell => cmd_buffer'[cmd_buffer_index] = ch
<1>1. cmd_buffer \in [Cell -> Char] /\ spilled \in BOOLEAN
  BY DEF ConsoleInv, TypeOK
<1>2. CASE cmd_buffer_index \in Cell
  <2>1. cmd_buffer' = [cmd_buffer EXCEPT ![cmd_buffer_index] = ch]
        /\ spilled' = spilled
    BY <1>1, <1>2 DEF Stored
  <2> QED
    BY <1>1, <1>2, <2>1
<1>3. CASE cmd_buffer_index \notin Cell
  <2>1. cmd_buffer' = cmd_buffer /\ spilled'
    BY <1>3 DEF Stored
  <2>2. spilled' = TRUE
    BY <1>3 DEF Stored
  <2> QED
    BY <1>1, <1>3, <2>1, <2>2
<1> QED
  BY <1>2, <1>3

(* What comes after a printed character.                                   *)
LEMMA FollowFacts ==
  ASSUME NEW t \in Frame, FrameOK(t), t.kind \in {"enter", "boot"}
  PROVE  /\ Follow(t) \in Frame /\ Follow(t).kind = t.kind
         /\ FrameOK(Follow(t))
         /\ Follow(t).at \in {"scroll", "nextline", "clear"}
<1> DEFINE f == Follow(t)
<1>1. t.left \in Nat
  BY DEF Frame
<1>2. CASE t.left > 1
  <2>1. f = [t EXCEPT !.left = t.left - 1, !.at = "scroll"]
    BY <1>2 DEF Follow
  <2>2. /\ t.left - 1 \in Nat /\ t.left - 1 > 0
    BY <1>1, <1>2
  <2>3. /\ f \in Frame /\ f.kind = t.kind /\ f.ch = t.ch
        /\ f.at = "scroll" /\ f.left = t.left - 1
    BY <2>1, <2>2 DEF Frame, Places
  <2> HIDE DEF f
  <2> QED
    BY <2>2, <2>3 DEF f, FrameOK
<1>3. CASE ~(t.left > 1)
  <2> DEFINE place == IF t.kind = "enter" /\ ~t.prompt
                      THEN "nextline" ELSE "clear"
  <2>1. f = [t EXCEPT !.left = 0, !.at = place]
    BY <1>3 DEF Follow
  <2>2. /\ place \in {"nextline", "clear"} /\ place \in Places
        /\ t.kind = "boot" => place = "clear"
    BY DEF Places
  <2> HIDE DEF place, f
  <2>3. /\ f \in Frame /\ f.kind = t.kind /\ f.ch = t.ch /\ f.at = place
    BY <2>1, <2>2 DEF Frame
  <2> QED
    BY <2>2, <2>3 DEF f, FrameOK
<1> QED
  BY <1>2, <1>3

(* The end of con_putch: a key's handler returns, the others go on.        *)
LEMMA AfterCharStep ==
  ASSUME ConsoleInv, At("store") \/ At("inc"),
         frames' = AfterChar,
         cmd_buffer' = cmd_buffer, cmd_input' = cmd_input, pos' = pos,
         running' = running, typed' = typed, since' = since,
         spilled' = spilled,
         cmd_buffer_index' \in Int,
         At("store") => ~cmd_input,
         At("inc") => cmd_buffer_index' = cmd_buffer_index + 1
  PROVE  ConsoleInv'
<1>1. /\ Depth \in Nat /\ Depth > 0 /\ Depth <= MaxDepth
      /\ Top \in Frame /\ FrameOK(Top) /\ Top.at \in {"store", "inc"}
      /\ pos \in Nat /\ pos <= Cells + MaxDepth - Depth
      /\ Top.at = "store" => ~cmd_input
      /\ Top.at = "inc" => cmd_buffer_index' = cmd_buffer_index + 1
  BY AtFacts DEF Places, At
<1>2. Top.kind \in {"key", "ctrl", "enter", "boot"}
  BY <1>1 DEF FrameOK, Frame, Kinds
<1>3. ASSUME frames' \in Seq(Frame)
      PROVE  TypeOK'
  BY <1>3 DEF ConsoleInv, TypeOK, Cell, Cells, Char, Frame
<1>4. CASE Top.kind \in {"key", "ctrl"}
  <2>1. frames' = Returns
    BY <1>4 DEF AfterChar
  <2>2. /\ frames' \in Seq(Frame) /\ Depth' = Depth - 1
        /\ FramesOK' /\ CursorOK' /\ CtrlKnown' /\ OutputCleared'
    BY <1>1, <1>4, <2>1, ReturnStep
  <2>3. QuietLine'
    <3> SUFFICES ASSUME since = {}
                 PROVE  QuietLine'
      BY DEF QuietLine
    <3>1. Depth = 1 /\ Top.kind = "key" /\ (~spilled => KeyUnderWay)
      BY <1>1, <1>4 DEF ConsoleInv, QuietLine
    <3>2. Depth' = 0
      BY <3>1, <2>2
    <3>3. ASSUME ~spilled
          PROVE  cmd_buffer_index' = Len(typed) /\ Holds(Len(typed), typed)
      <4>1. Top.at = "inc"
        BY <3>1, <3>3, <1>1 DEF KeyUnderWay
      <4>2. Len(typed) \in Nat
        BY LenProperties DEF ConsoleInv, TypeOK
      <4> QED
        BY <4>1, <4>2, <3>1, <3>3, <1>1 DEF KeyUnderWay
    <3>4. ~spilled => Holds(Len(typed), typed)'
      BY <3>3 DEF Holds, Cell, NUL
    <3> QED
      BY <3>2, <3>3, <3>4 DEF QuietLine
  <2> QED
    BY <2>2, <2>3, <1>3 DEF ConsoleInv
<1>5. CASE Top.kind \in {"enter", "boot"}
  <2> DEFINE f == Follow(Top)
  <2>1. frames' = GoesOn(f)
    BY <1>5 DEF AfterChar
  <2>2. /\ f \in Frame /\ f.kind = Top.kind /\ FrameOK(f)
        /\ f.at \in {"scroll", "nextline", "clear"}
    BY <1>1, <1>5, FollowFacts
  <2> HIDE DEF f
  <2>3. NothingPrinted
    BY DEF NothingPrinted
  <2>4. /\ frames' \in Seq(Frame) /\ Depth' = Depth /\ Top' = f
        /\ FramesOK' /\ CtrlKnown' /\ OutputCleared'
        /\ f.kind # "key" => QuietLine'
    BY <2>1, <2>2, <2>3, <1>1, GoesOnStep
  <2>5. CursorOK'
    BY <2>2, <2>4, <1>1, CursorStep
  <2> QED
    BY <2>2, <2>4, <2>5, <1>3, <1>5 DEF ConsoleInv
<1> QED
  BY <1>2, <1>4, <1>5

LEMMA StoreStep ==
  ASSUME ConsoleInv, Store
  PROVE  ConsoleInv'
<1>1. /\ At("store")
      /\ cmd_buffer_index' = cmd_buffer_index /\ cmd_input' = cmd_input
      /\ pos' = pos /\ running' = running /\ typed' = typed /\ since' = since
  BY DEF Store
<1>2. /\ Depth \in Nat /\ Depth > 0 /\ Depth <= MaxDepth
      /\ Top \in Frame /\ FrameOK(Top) /\ Top.at = "store" /\ pos \in Nat
      /\ pos <= Cells + MaxDepth - Depth
  BY <1>1, AtFacts DEF Places
<1>3. cmd_buffer_index \in Int
  BY DEF ConsoleInv, TypeOK
<1>4. CASE ~cmd_input
  <2>1. frames' = AfterChar /\ cmd_buffer' = cmd_buffer /\ spilled' = spilled
    BY <1>4 DEF Store
  <2>2. ~At("inc")
    BY <1>2 DEF At
  <2> QED
    BY <2>1, <2>2, <1>1, <1>3, <1>4, AfterCharStep
<1>5. CASE cmd_input
  <2> DEFINE f == [Top EXCEPT !.at = "inc"]
  <2>1. frames' = GoesOn(f) /\ Stored(Top.ch)
    BY <1>5, GoesToIsGoesOn DEF Store
  <2>2. /\ f \in Frame /\ f.kind = Top.kind /\ f.ch = Top.ch
        /\ f.left = Top.left /\ f.at = "inc"
    BY <1>2 DEF Frame, Places
  <2> HIDE DEF f
  <2>3. FrameOK(f)
    BY <1>2, <2>2 DEF FrameOK
  <2>4. Top.ch \in Char
    BY <1>2 DEF Frame
  <2>5. /\ cmd_buffer' \in [Cell -> Char]
        /\ spilled' \in BOOLEAN /\ (spilled => spilled')
        /\ ~spilled' => cmd_buffer_index \in Cell
        /\ \A c \in Cell : c # cmd_buffer_index => cmd_buffer'[c] = cmd_buffer[c]
        /\ cmd_buffer_index \in Cell => cmd_buffer'[cmd_buffer_index] = Top.ch
    BY <2>1, <2>4, StoredFacts
  <2>6. NothingPrinted
    <3>1. Top.kind = "key" => Top.ch # Output
      BY <1>2, Characters DEF FrameOK
    <3>2. Top.kind \in {"key", "ctrl", "enter", "boot"}
      BY <1>2 DEF FrameOK, Frame, Kinds
    <3> QED
      BY <3>1, <3>2, <2>5 DEF NothingPrinted
  <2>7. /\ frames' \in Seq(Frame) /\ Depth' = Depth /\ Top' = f
        /\ FramesOK' /\ CtrlKnown' /\ OutputCleared'
        /\ f.kind # "key" => QuietLine'
    BY <2>1, <2>2, <2>3, <2>6, <1>1, <1>2, GoesOnStep
  <2>8. TypeOK'
    BY <1>1, <2>5, <2>7 DEF ConsoleInv, TypeOK, Cell, Cells, Char, Frame
  <2>9. CursorOK'
    BY <2>2, <2>7, <1>1, <1>2, CursorStep
  <2>10. QuietLine'
    <3> SUFFICES ASSUME f.kind = "key", since = {}
                 PROVE  QuietLine'
      BY <1>1, <2>7 DEF QuietLine
    <3>1. Depth = 1 /\ (~spilled => KeyUnderWay)
      BY <1>2, <2>2 DEF ConsoleInv, QuietLine
    <3>2. ASSUME ~spilled'
          PROVE  KeyUnderWay'
      <4> DEFINE k == Len(typed)
      <4>1. /\ k \in Nat /\ k > 0 /\ Top.ch = typed[k]
            /\ cmd_buffer_index = k - 1 /\ Holds(k - 1, typed)
        BY <3>1, <3>2, <2>5, <1>2, LenProperties
        DEF ConsoleInv, TypeOK, KeyUnderWay
      <4>2. k - 1 \in Cell /\ cmd_buffer'[k - 1] = typed[k]
        BY <3>2, <4>1, <2>5
      <4>3. (k - 1) + 1 = k /\ k - 1 < k
        BY <4>1
      <4>4. \A c \in Cell : c # k - 1 => (c < k <=> c < k - 1)
        BY <4>1 DEF Cell
      <4> HIDE DEF k
      <4>5. \A c \in Cell : cmd_buffer'[c] = IF c < k THEN typed[c + 1] ELSE NUL
        <5> SUFFICES ASSUME NEW c \in Cell
                     PROVE  cmd_buffer'[c] = IF c < k THEN typed[c + 1] ELSE NUL
          OBVIOUS
        <5>1. CASE c = k - 1
          BY <5>1, <4>2, <4>3
        <5>2. CASE c # k - 1
          <6>1. cmd_buffer'[c] = IF c < k - 1 THEN typed[c + 1] ELSE NUL
            BY <5>2, <4>1, <2>5 DEF Holds
          <6> QED
            BY <5>2, <6>1, <4>4
        <5> QED
          BY <5>1, <5>2
      <4> QED
        BY <4>1, <4>5, <2>2, <2>7, <1>1
        DEF k, KeyUnderWay, Holds, Cell, NUL
    <3> QED
      BY <3>1, <3>2, <1>1, <2>2, <2>7 DEF QuietLine
  <2> QED
    BY <2>7, <2>8, <2>9, <2>10 DEF ConsoleInv
<1> QED
  BY <1>4, <1>5

LEMMA IncStep ==
  ASSUME ConsoleInv, Inc
  PROVE  ConsoleInv'
<1>1. /\ At("inc") /\ cmd_buffer_index' = cmd_buffer_index + 1
      /\ frames' = AfterChar
      /\ cmd_buffer' = cmd_buffer /\ cmd_input' = cmd_input /\ pos' = pos
      /\ running' = running /\ typed' = typed /\ since' = since
      /\ spilled' = spilled
  BY DEF Inc, history
<1>2. cmd_buffer_index' \in Int
  BY <1>1 DEF ConsoleInv, TypeOK
<1>3. ~At("store")
  BY <1>1 DEF At
<1> QED
  BY <1>1, <1>2, <1>3, AfterCharStep

-----------------------------------------------------------------------------
(* The handler of backspace.                                               *)
LEMMA DeleteStep ==
  ASSUME ConsoleInv, Delete
  PROVE  ConsoleInv'
<1> DEFINE f == [Top EXCEPT !.on = TRUE, !.at = "erase"]
<1>1. /\ Depth \in Nat /\ Depth > 0 /\ Depth <= MaxDepth
      /\ Top \in Frame /\ FrameOK(Top) /\ Top.at = "delete" /\ pos \in Nat
      /\ pos <= Cells + MaxDepth - Depth
  BY AtFacts DEF Delete, Places
<1>2. /\ frames' = GoesOn(f) /\ pos' = pos
      /\ cmd_buffer' = cmd_buffer /\ cmd_buffer_index' = cmd_buffer_index
      /\ cmd_input' = cmd_input /\ running' = running /\ typed' = typed
      /\ since' = since /\ spilled' = spilled
  BY DEF Delete, buffer, history
<1>3. /\ f \in Frame /\ f.kind = Top.kind /\ f.left = Top.left
      /\ f.at = "erase"
  BY <1>1 DEF Frame, Places
<1> HIDE DEF f
<1>4. Top.kind = "del" /\ FrameOK(f)
  BY <1>1, <1>3 DEF FrameOK, Frame, Kinds
<1>5. /\ frames' \in Seq(Frame) /\ Depth' = Depth /\ Top' = f
      /\ FramesOK' /\ CtrlKnown' /\ OutputCleared'
      /\ f.kind # "key" => QuietLine'
  <2>1. NothingPrinted
    BY <1>2 DEF NothingPrinted
  <2> QED
    BY <2>1, <1>1, <1>2, <1>3, <1>4, GoesOnStep
<1>6. /\ pos' \in Nat /\ pos' <= Cells + MaxDepth - Depth
      /\ pos' \in 0 .. (Cells + WIDTH + MaxDepth - 1)
  BY <1>1, <1>2, Screen
<1>7. TypeOK'
  BY <1>2, <1>5, <1>6 DEF ConsoleInv, TypeOK, Cell, Cells, Char, Frame
<1>8. CursorOK'
  BY <1>1, <1>2, <1>3, <1>5, <1>6, CursorStep
<1> QED
  BY <1>3, <1>4, <1>5, <1>7, <1>8 DEF ConsoleInv

LEMMA EraseStep ==
  ASSUME ConsoleInv, Erase
  PROVE  ConsoleInv'
<1> DEFINE f == [Top EXCEPT !.at = "blank"]
<1>1. /\ Depth \in Nat /\ Depth > 0 /\ Depth <= MaxDepth
      /\ Top \in Frame /\ FrameOK(Top) /\ Top.at = "erase" /\ pos \in Nat
      /\ pos <= Cells + MaxDepth - Depth
  BY AtFacts DEF Erase, Places
<1>2. /\ frames' = GoesOn(f)
      /\ cmd_buffer' = cmd_buffer /\ cmd_buffer_index' = cmd_buffer_index
      /\ cmd_input' = cmd_input /\ running' = running /\ typed' = typed
      /\ since' = since /\ spilled' = spilled
  BY GoesToIsGoesOn DEF Erase, buffer, history
<1>3. /\ f \in Frame /\ f.kind = Top.kind /\ f.left = Top.left
      /\ f.at = "blank"
  BY <1>1 DEF Frame, Places
<1> HIDE DEF f
<1>4. Top.kind = "del" /\ FrameOK(f)
  BY <1>1, <1>3 DEF FrameOK, Frame, Kinds
<1>5. /\ frames' \in Seq(Frame) /\ Depth' = Depth /\ Top' = f
      /\ FramesOK' /\ CtrlKnown' /\ OutputCleared'
      /\ f.kind # "key" => QuietLine'
  <2>1. NothingPrinted
    BY <1>2 DEF NothingPrinted
  <2> QED
    BY <2>1, <1>1, <1>2, <1>3, <1>4, GoesOnStep
<1>6. pos' \in Nat /\ pos' <= pos
  <2>1. CASE pos' = pos
    BY <2>1, <1>1
  <2>2. CASE pos > 0 /\ pos' = pos - 1
    BY <2>2, <1>1
  <2> QED
    BY <2>1, <2>2 DEF Erase
<1>7. /\ pos' <= Cells + MaxDepth - Depth
      /\ pos' \in 0 .. (Cells + WIDTH + MaxDepth - 1)
  BY <1>1, <1>6, Screen
<1>8. TypeOK'
  BY <1>2, <1>5, <1>7 DEF ConsoleInv, TypeOK, Cell, Cells, Char, Frame
<1>9. CursorOK'
  BY <1>1, <1>3, <1>5, <1>6, <1>7, CursorStep
<1> QED
  BY <1>3, <1>4, <1>5, <1>8, <1>9 DEF ConsoleInv

LEMMA DelBlankStep ==
  ASSUME ConsoleInv, DelBlank
  PROVE  ConsoleInv'
<1> DEFINE f == [Top EXCEPT !.at = "dec"]
<1>1. /\ Depth \in Nat /\ Depth > 0 /\ Depth <= MaxDepth
      /\ Top \in Frame /\ FrameOK(Top) /\ Top.at = "blank" /\ pos \in Nat
      /\ pos <= Cells + MaxDepth - Depth
  BY AtFacts DEF DelBlank, Places
<1>2. /\ frames' = GoesOn(f) /\ Stored(Blank)
      /\ cmd_buffer_index' = cmd_buffer_index /\ cmd_input' = cmd_input
      /\ pos' = pos /\ running' = running /\ typed' = typed /\ since' = since
  BY GoesToIsGoesOn DEF DelBlank
<1>3. /\ f \in Frame /\ f.kind = Top.kind /\ f.left = Top.left
      /\ f.at = "dec"
  BY <1>1 DEF Frame, Places
<1> HIDE DEF f
<1>4. Top.kind = "del" /\ FrameOK(f)
  BY <1>1, <1>3 DEF FrameOK, Frame, Kinds
<1>5. /\ cmd_buffer' \in [Cell -> Char]
      /\ spilled' \in BOOLEAN
      /\ \A c \in Cell : c # cmd_buffer_index => cmd_buffer'[c] = cmd_buffer[c]
      /\ cmd_buffer_index \in Cell => cmd_buffer'[cmd_buffer_index] = Blank
  BY <1>2, Characters, StoredFacts
<1>6. NothingPrinted
  BY <1>5, Characters DEF NothingPrinted
<1>7. /\ frames' \in Seq(Frame) /\ Depth' = Depth /\ Top' = f
      /\ FramesOK' /\ CtrlKnown' /\ OutputCleared'
      /\ f.kind # "key" => QuietLine'
  BY <1>1, <1>2, <1>3, <1>4, <1>6, GoesOnStep
<1>8. TypeOK'
  BY <1>2, <1>5, <1>7 DEF ConsoleInv, TypeOK, Cell, Cells, Char, Frame
<1>9. CursorOK'
  BY <1>1, <1>2, <1>3, <1>7, CursorStep
<1> QED
  BY <1>3, <1>4, <1>7, <1>8, <1>9 DEF ConsoleInv

LEMMA DelDecStep ==
  ASSUME ConsoleInv, DelDec
  PROVE  ConsoleInv'
<1>1. /\ Depth \in Nat /\ Depth > 0
      /\ Top \in Frame /\ FrameOK(Top) /\ Top.at = "dec"
  BY AtFacts DEF DelDec, Places
<1>2. /\ frames' = Returns /\ cmd_buffer_index' = cmd_buffer_index - 1
      /\ cmd_buffer' = cmd_buffer /\ cmd_input' = cmd_input /\ pos' = pos
      /\ running' = running /\ typed' = typed /\ since' = since
      /\ spilled' = spilled
  BY DEF DelDec, history
<1>3. Top.kind = "del"
  BY <1>1 DEF FrameOK, Frame, Kinds
<1>4. /\ frames' \in Seq(Frame) /\ Depth' = Depth - 1
      /\ FramesOK' /\ CursorOK' /\ CtrlKnown' /\ OutputCleared'
  BY <1>1, <1>2, <1>3, ReturnStep
<1>5. since # {}
  BY <1>1, <1>3 DEF ConsoleInv, QuietLine
<1>6. QuietLine'
  BY <1>2, <1>5 DEF QuietLine
<1>7. TypeOK'
  BY <1>2, <1>4 DEF ConsoleInv, TypeOK, Cell, Cells, Char, Frame
<1> QED
  BY <1>4, <1>6, <1>7 DEF ConsoleInv

-----------------------------------------------------------------------------
(* The handler of Enter, and the end of the start-up.                      *)
LEMMA EnterFacts ==
  ASSUME ConsoleInv, NEW place \in {"enter", "nextline"}, At(place)
  PROVE  Top.kind = "enter"
<1>1. Top \in Frame /\ FrameOK(Top) /\ Top.at = place
  BY AtFacts DEF Places
<1> QED
  BY <1>1 DEF FrameOK, Frame, Kinds

LEMMA RunCommandStep ==
  ASSUME ConsoleInv, RunCommand
  PROVE  ConsoleInv'
<1>1. /\ Depth \in Nat /\ Depth > 0 /\ Depth <= MaxDepth
      /\ Top \in Frame /\ FrameOK(Top) /\ Top.at = "enter" /\ pos \in Nat
      /\ pos <= Cells + MaxDepth - Depth /\ Top.kind = "enter"
  BY AtFacts, EnterFacts DEF RunCommand, Places
<1>2. PICK n \in 0 .. MaxPrinted :
        frames' = GoesOn([Top EXCEPT !.left = n,
                            !.at = IF n = 0 THEN "nextline" ELSE "scroll"])
  BY DEF RunCommand
<1> DEFINE place == IF n = 0 THEN "nextline" ELSE "scroll"
           f == [Top EXCEPT !.left = n, !.at = place]
<1>3. n \in Nat /\ place \in {"nextline", "scroll"} /\ place \in Places
  BY ConsoleAssumption DEF Places
<1>4. frames' = GoesOn(f)
  BY <1>2
<1> HIDE DEF place
<1>5. f \in Frame /\ f.kind = "enter" /\ f.at = place
  BY <1>1, <1>3 DEF Frame
<1> HIDE DEF f
<1>6. FrameOK(f)
  BY <1>3, <1>5 DEF FrameOK
<1>7. /\ cmd_buffer' = cmd_buffer /\ cmd_buffer_index' = cmd_buffer_index
      /\ cmd_input' = cmd_input /\ pos' = pos /\ running' = running
      /\ typed' = typed /\ since' = since /\ spilled' = spilled
  BY DEF RunCommand, buffer, history
<1>8. /\ frames' \in Seq(Frame) /\ Depth' = Depth /\ Top' = f
      /\ FramesOK' /\ CtrlKnown' /\ OutputCleared' /\ QuietLine'
  <2>1. NothingPrinted
    BY <1>7 DEF NothingPrinted
  <2>2. f.kind = Top.kind /\ f.at # "reset" /\ f.kind # "key"
    BY <1>1, <1>3, <1>5
  <2> QED
    BY <2>1, <2>2, <1>1, <1>4, <1>5, <1>6, <1>7, GoesOnStep
<1>9. TypeOK'
  BY <1>7, <1>8 DEF ConsoleInv, TypeOK, Cell, Cells, Char, Frame
<1>10. CursorOK'
  BY <1>1, <1>3, <1>5, <1>7, <1>8, CursorStep
<1> QED
  BY <1>8, <1>9, <1>10 DEF ConsoleInv

LEMMA RunClearStep ==
  ASSUME ConsoleInv, RunClear
  PROVE  ConsoleInv'
<1> DEFINE f == [Top EXCEPT !.at = "nextline"]
<1>1. /\ Depth \in Nat /\ Depth > 0 /\ Depth <= MaxDepth
      /\ Top \in Frame /\ FrameOK(Top) /\ Top.at = "enter"
      /\ Top.kind = "enter"
  BY AtFacts, EnterFacts DEF RunClear, Places
<1>2. /\ frames' = GoesOn(f)
      /\ cmd_buffer' = Empty /\ cmd_buffer_index' = 0 /\ pos' = 0
      /\ cmd_input' = cmd_input /\ running' = running
      /\ typed' = typed /\ since' = since /\ spilled' = spilled
  BY GoesToIsGoesOn DEF RunClear, history
<1>3. f \in Frame /\ f.kind = "enter" /\ f.at = "nextline"
  BY <1>1 DEF Frame, Places
<1> HIDE DEF f
<1>4. FrameOK(f)
  BY <1>3 DEF FrameOK
<1>5. /\ frames' \in Seq(Frame) /\ Depth' = Depth /\ Top' = f
      /\ FramesOK' /\ CtrlKnown' /\ OutputCleared' /\ QuietLine'
  <2>1. NothingPrinted
    BY <1>2, EmptyFacts DEF NothingPrinted
  <2>2. f.kind = Top.kind /\ f.at # "reset" /\ f.kind # "key"
    BY <1>1, <1>3
  <2> QED
    BY <2>1, <2>2, <1>1, <1>2, <1>3, <1>4, GoesOnStep
<1>6. /\ 0 <= Cells + MaxDepth - Depth /\ pos' \in Nat
      /\ pos' \in 0 .. (Cells + WIDTH + MaxDepth - 1)
      /\ cmd_buffer_index' \in Int
  BY <1>1, <1>2, Screen
<1>7. TypeOK'
  BY <1>2, <1>5, <1>6, EmptyFacts
  DEF ConsoleInv, TypeOK, Cell, Cells, Char, Frame
<1>8. CursorOK'
  BY <1>1, <1>2, <1>3, <1>5, <1>6, CursorStep
<1> QED
  BY <1>5, <1>7, <1>8 DEF ConsoleInv

LEMMA RunPanicsStep ==
  ASSUME ConsoleInv, RunPanics
  PROVE  ConsoleInv'
<1>1. /\ frames' = frames /\ running' = FALSE
      /\ cmd_buffer' = cmd_buffer /\ cmd_buffer_index' = cmd_buffer_index
      /\ cmd_input' = cmd_input /\ pos' = pos
      /\ typed' = typed /\ since' = since /\ spilled' = spilled
  BY DEF RunPanics, buffer, history
<1>2. Depth' = Depth /\ Top' = Top
  BY <1>1 DEF Depth, Top
<1>3. TypeOK'
  <2>1. running' \in BOOLEAN
    BY <1>1, Zenon
  <2> QED
    BY <2>1, <1>1 DEF ConsoleInv, TypeOK, Cell, Cells, Char, Frame
<1>4. FramesOK'
  BY <1>1, <1>2 DEF ConsoleInv, FramesOK, FrameOK
<1>5. CursorOK'
  BY <1>1, <1>2 DEF ConsoleInv, CursorOK, Cells
<1>6. CtrlKnown' /\ OutputCleared'
  BY <1>1, <1>2 DEF ConsoleInv, CtrlKnown, OutputCleared, WillClear, Cell, Output
<1>7. QuietLine'
  BY <1>1, <1>2
  DEF ConsoleInv, QuietLine, KeyUnderWay, Holds, Empty, Cell, NUL
<1> QED
  BY <1>3, <1>4, <1>5, <1>6, <1>7 DEF ConsoleInv

LEMMA NextlineStep ==
  ASSUME ConsoleInv, Nextline
  PROVE  ConsoleInv'
<1> DEFINE f == [Top EXCEPT !.left = 1, !.prompt = TRUE, !.at = "scroll"]
<1>1. /\ Depth \in Nat /\ Depth > 0 /\ Depth <= MaxDepth
      /\ Top \in Frame /\ FrameOK(Top) /\ Top.at = "nextline" /\ pos \in Nat
      /\ pos <= Cells + MaxDepth - Depth /\ Top.kind = "enter"
  BY AtFacts, EnterFacts DEF Nextline, Places
<1>2. /\ frames' = GoesOn(f) /\ pos' = nextline
      /\ cmd_buffer' = cmd_buffer /\ cmd_buffer_index' = cmd_buffer_index
      /\ cmd_input' = cmd_input /\ running' = running
      /\ typed' = typed /\ since' = since /\ spilled' = spilled
  BY DEF Nextline, buffer, history
<1>3. f \in Frame /\ f.kind = "enter" /\ f.at = "scroll"
  BY <1>1 DEF Frame, Places
<1> HIDE DEF f
<1>4. FrameOK(f)
  BY <1>3 DEF FrameOK
<1>5. /\ frames' \in Seq(Frame) /\ Depth' = Depth /\ Top' = f
      /\ FramesOK' /\ CtrlKnown' /\ OutputCleared' /\ QuietLine'
  <2>1. NothingPrinted
    BY <1>2 DEF NothingPrinted
  <2>2. f.kind = Top.kind /\ f.at # "reset" /\ f.kind # "key"
    BY <1>1, <1>3
  <2> QED
    BY <2>1, <2>2, <1>1, <1>2, <1>3, <1>4, GoesOnStep
<1>6. nextline \in Nat /\ nextline <= pos + WIDTH
  <2>1. /\ (pos \div WIDTH + 1) * WIDTH \in Nat
        /\ (pos \div WIDTH + 1) * WIDTH <= pos + WIDTH
    BY <1>1, Screen, NextLine, Zenon
  <2>2. CASE pos > 0
    BY <2>1, <2>2, Zenon DEF nextline
  <2>3. CASE ~(pos > 0)
    <3>1. nextline = pos
      BY <2>3, Zenon DEF nextline
    <3> QED
      BY <3>1, <1>1, Screen
  <2> QED
    BY <2>2, <2>3
<1>7. pos' \in Nat /\ pos' \in 0 .. (Cells + WIDTH + MaxDepth - 1)
  BY <1>1, <1>2, <1>6, Screen
<1>8. TypeOK'
  BY <1>2, <1>5, <1>7 DEF ConsoleInv, TypeOK, Cell, Cells, Char, Frame
<1>9. CursorOK'
  BY <1>1, <1>3, <1>5, <1>7, CursorStep
<1> QED
  BY <1>5, <1>8, <1>9 DEF ConsoleInv

(* The buffer is cleared: nothing printed is left in it, whatever handlers *)
(* wait below, and the last of them starts the history again.              *)
LEMMA ClearStep ==
  ASSUME ConsoleInv, Clear
  PROVE  ConsoleInv'
<1> DEFINE n == Depth
           f == [Top EXCEPT !.at = "reset"]
<1>1. /\ n \in Nat /\ n > 0 /\ n <= MaxDepth
      /\ frames \in Seq(Frame) /\ n = Len(frames) /\ Top = frames[n]
      /\ \A i \in 1 .. n : FrameOK(frames[i])
      /\ Top \in Frame /\ FrameOK(Top) /\ Top.at = "clear" /\ pos \in Nat
      /\ pos <= Cells + MaxDepth - n
  BY AtFacts, StackFacts DEF Clear, Places, Top
<1>2. Top.kind \in {"enter", "boot"}
  BY <1>1 DEF FrameOK, Frame, Kinds
<1>3. /\ frames' = GoesOn(f) /\ frames' = [frames EXCEPT ![n] = f]
      /\ cmd_buffer' = Empty
      /\ cmd_input' = (cmd_input /\ Top.kind = "boot")
      /\ typed' = IF n = 1 THEN <<>> ELSE typed
      /\ since' = IF n = 1 THEN {} ELSE since
      /\ cmd_buffer_index' = cmd_buffer_index /\ pos' = pos
      /\ running' = running /\ spilled' = spilled
  BY GoesToIsGoesOn DEF Clear, ClearedCells, GoesOn
<1>4. f \in Frame /\ f.kind = Top.kind /\ f.at = "reset"
  BY <1>1 DEF Frame, Places
<1> HIDE DEF f
<1>5. FrameOK(f)
  BY <1>2, <1>4, <1>1 DEF FrameOK
<1>6. /\ frames' \in Seq(Frame) /\ Len(frames') = n
      /\ frames'[n] = f
      /\ \A i \in 1 .. (n - 1) : frames'[i] = frames[i]
  BY <1>1, <1>3, <1>4, TopReplaced
<1>7. Depth' = n /\ Top' = f
  BY <1>6 DEF Depth, Top
<1>8. /\ \A i \in 1 .. n : i # n => i \in 1 .. (n - 1)
      /\ n \in 1 .. n
  BY <1>1
<1>9. TypeOK'
  <2>1. typed' \in Seq(Key) /\ since' \subseteq {"ahead", "backspace", "ctrl"}
    BY <1>3, EmptySeq DEF ConsoleInv, TypeOK
  <2>2. cmd_input' \in BOOLEAN
    BY <1>3, Zenon DEF ConsoleInv, TypeOK
  <2>3. cmd_buffer' \in [Cell -> Char]
    BY <1>3, EmptyFacts
  <2> QED
    BY <2>1, <2>2, <2>3, <1>3, <1>6
    DEF ConsoleInv, TypeOK, Cell, Cells, Char, Frame
<1>10. CursorOK'
  BY <1>1, <1>3, <1>4, <1>7, CursorStep
<1> HIDE DEF n
<1>11. FramesOK'
  <2>1. \A i \in 1 .. n : FrameOK(frames'[i])
    BY <1>1, <1>5, <1>6, <1>8
  <2>2. \A i \in 1 .. n : FrameOK(frames[i])'
    BY <2>1 DEF FrameOK
  <2> QED
    BY <2>2, <1>1, <1>7 DEF FramesOK
<1>12. CtrlKnown'
  <2>1. \A i \in 1 .. n : frames[i].kind = "ctrl" => "ctrl" \in since
    BY DEF n, ConsoleInv, CtrlKnown
  <2>2. \A i \in 1 .. n : frames'[i].kind = "ctrl" => "ctrl" \in since'
    <3> SUFFICES ASSUME NEW i \in 1 .. n, frames'[i].kind = "ctrl"
                 PROVE  "ctrl" \in since'
      OBVIOUS
    <3>1. i # n
      BY <1>2, <1>4, <1>6
    <3>2. i \in 1 .. (n - 1) /\ n # 1
      BY <3>1, <1>1, <1>8
    <3> QED
      BY <3>2, <2>1, <1>3, <1>6
  <2> QED
    BY <2>2, <1>7 DEF CtrlKnown
<1>13. OutputCleared'
  BY <1>3, EmptyFacts DEF OutputCleared, Cell, Output
<1>14. QuietLine'
  <2>1. CASE n = 1
    <3>1. cmd_buffer' = Empty' /\ typed' = <<>>
      BY <2>1, <1>3 DEF Empty, Cell, NUL
    <3> QED
      BY <2>1, <3>1, <1>2, <1>4, <1>7 DEF QuietLine
  <2>2. CASE n # 1
    <3>1. since # {}
      BY <2>2, <1>1 DEF n, ConsoleInv, QuietLine
    <3> QED
      BY <2>2, <3>1, <1>3 DEF QuietLine
  <2> QED
    BY <2>1, <2>2
<1> QED
  BY <1>9, <1>10, <1>11, <1>12, <1>13, <1>14 DEF ConsoleInv

LEMMA ResetStep ==
  ASSUME ConsoleInv, Reset
  PROVE  ConsoleInv'
<1>1. /\ Depth \in Nat /\ Depth > 0
      /\ Top \in Frame /\ FrameOK(Top) /\ Top.at = "reset"
  BY AtFacts DEF Reset, Places
<1>2. /\ frames' = Returns /\ cmd_buffer_index' = 0
      /\ cmd_buffer' = cmd_buffer /\ cmd_input' = cmd_input /\ pos' = pos
      /\ running' = running /\ typed' = typed /\ since' = since
      /\ spilled' = spilled
  BY DEF Reset, history
<1>3. /\ frames' \in Seq(Frame) /\ Depth' = Depth - 1
      /\ FramesOK' /\ CursorOK' /\ CtrlKnown' /\ OutputCleared'
  BY <1>1, <1>2, ReturnStep
<1>4. QuietLine'
  <2> SUFFICES ASSUME since = {}
               PROVE  QuietLine'
    BY <1>2 DEF QuietLine
  <2>1. Depth = 1 /\ (~spilled => cmd_buffer = Empty /\ typed = <<>>)
    BY <1>1 DEF ConsoleInv, QuietLine
  <2>2. Depth' = 0
    BY <2>1, <1>3
  <2>3. ASSUME ~spilled
        PROVE  cmd_buffer_index' = Len(typed) /\ Holds(Len(typed), typed)
    <3>1. Len(typed) = 0 /\ cmd_buffer = Empty
      BY <2>1, <2>3
    <3>2. \A c \in Cell : ~(c < 0)
      BY DEF Cell
    <3> QED
      BY <3>1, <3>2, <1>2, EmptyFacts DEF Holds
  <2>4. ~spilled => Holds(Len(typed), typed)'
    BY <2>3, <1>2 DEF Holds, Cell, NUL
  <2> QED
    BY <2>2, <2>3, <2>4, <1>2 DEF QuietLine
<1>5. TypeOK'
  BY <1>2, <1>3 DEF ConsoleInv, TypeOK, Cell, Cells, Char, Frame
<1> QED
  BY <1>3, <1>4, <1>5 DEF ConsoleInv

-----------------------------------------------------------------------------
(* The theorems.                                                           *)
LEMMA ConsoleUnchanged ==
  ASSUME ConsoleInv, UNCHANGED vars
  PROVE  ConsoleInv'
<1>1. /\ frames' = frames /\ running' = running
      /\ cmd_buffer' = cmd_buffer /\ cmd_buffer_index' = cmd_buffer_index
      /\ cmd_input' = cmd_input /\ pos' = pos
      /\ typed' = typed /\ since' = since /\ spilled' = spilled
  BY DEF vars, buffer, history
<1>2. Depth' = Depth /\ Top' = Top
  BY <1>1 DEF Depth, Top
<1>3. TypeOK'
  BY <1>1 DEF ConsoleInv, TypeOK, Cell, Cells, Char, Frame
<1>4. FramesOK'
  BY <1>1, <1>2 DEF ConsoleInv, FramesOK, FrameOK
<1>5. CursorOK'
  BY <1>1, <1>2 DEF ConsoleInv, CursorOK, Cells
<1>6. CtrlKnown' /\ OutputCleared'
  BY <1>1, <1>2 DEF ConsoleInv, CtrlKnown, OutputCleared, WillClear, Cell, Output
<1>7. QuietLine'
  BY <1>1, <1>2
  DEF ConsoleInv, QuietLine, KeyUnderWay, Holds, Empty, Cell, NUL
<1> QED
  BY <1>3, <1>4, <1>5, <1>6, <1>7 DEF ConsoleInv

LEMMA ConsoleStep ==
  ASSUME ConsoleInv, [Next]_vars
  PROVE  ConsoleInv'
<1>1. CASE Press
  BY <1>1, PressStep
<1>2. CASE Scroll
  BY <1>2, ScrollStep
<1>3. CASE Put
  BY <1>3, PutStep
<1>4. CASE Store
  BY <1>4, StoreStep
<1>5. CASE Inc
  BY <1>5, IncStep
<1>6. CASE Delete
  BY <1>6, DeleteStep
<1>20. CASE Erase
  BY <1>20, EraseStep
<1>7. CASE DelBlank
  BY <1>7, DelBlankStep
<1>8. CASE DelDec
  BY <1>8, DelDecStep
<1>9. CASE RunCommand
  BY <1>9, RunCommandStep
<1>10. CASE RunClear
  BY <1>10, RunClearStep
<1>11. CASE RunPanics
  BY <1>11, RunPanicsStep
<1>12. CASE Nextline
  BY <1>12, NextlineStep
<1>13. CASE Clear
  BY <1>13, ClearStep
<1>14. CASE Reset
  BY <1>14, ResetStep
<1>15. CASE Restart
  BY <1>15, RestartStep
<1>16. CASE UNCHANGED vars
  BY <1>16, ConsoleUnchanged
<1> QED
  BY <1>1, <1>2, <1>3, <1>4, <1>5, <1>6, <1>7, <1>8, <1>9, <1>10, <1>11,
     <1>12, <1>13, <1>14, <1>15, <1>16, <1>20
  DEF Next, Step

(* The inductive invariant of the console.                                 *)
THEOREM ConsoleInvariance == Spec => []ConsoleInv
<1>1. Init => ConsoleInv
  BY ConsoleInitially
<1>2. ConsoleInv /\ [Next]_vars => ConsoleInv'
  BY ConsoleStep
<1> QED
  BY <1>1, <1>2, PTL DEF Spec

(* Every variable stays in its range; the cursor leaves the screen by a    *)
(* line at most, and by one character for each handler that waits.         *)
THEOREM ConsoleTypeCorrect == Spec => []TypeOK
<1>1. ConsoleInv => TypeOK
  BY DEF ConsoleInv
<1> QED
  BY <1>1, ConsoleInvariance, PTL

(* When no handler runs and nothing has overlapped since the line was      *)
(* cleared, cmd_buffer is what do_keyboard has been given and no more.     *)
THEOREM LineIsTyped == Spec => []BufferIsTyped
<1>1. ConsoleInv => BufferIsTyped
  <2> SUFFICES ASSUME ConsoleInv, frames = <<>>, since = {}, ~spilled
               PROVE  /\ cmd_buffer_index = Len(typed)
                      /\ Holds(Len(typed), typed)
    BY DEF BufferIsTyped, Holds
  <2>1. Depth = 0
    BY DEF Depth
  <2> QED
    BY <2>1 DEF ConsoleInv, QuietLine
<1> QED
  BY <1>1, ConsoleInvariance, PTL

(* However deep handlers have been interrupted, what con_putch has stored  *)
(* of the kernel's output is gone when the last of them has returned.      *)
THEOREM PrintedIsCleared == Spec => []OutputStaysOut
<1>1. ConsoleInv => OutputStaysOut
  <2> SUFFICES ASSUME ConsoleInv, frames = <<>>, "ctrl" \notin since
               PROVE  \A c \in Cell : cmd_buffer[c] # Output
    BY DEF OutputStaysOut
  <2>1. Depth = 0
    BY DEF Depth
  <2>2. 1 .. Depth = {}
    BY <2>1
  <2> QED
    BY <2>2 DEF ConsoleInv, OutputCleared
<1> QED
  BY <1>1, ConsoleInvariance, PTL

=============================================================================
