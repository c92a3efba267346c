--------------------------- MODULE MemoryNesting ---------------------------
(***************************************************************************)
(* The callers of the allocator.  cat, slow_cat (src/src/app/cat.cc) and   *)
(* setup_fs (src/src/fs/fs.cc) ask for one buffer, use it and free it      *)
(* before they return.  A keyboard interrupt during the use may start      *)
(* another command on top, which returns first: buffers come back in the   *)
(* reverse of the order in which they were lent.                           *)
(***************************************************************************)
EXTENDS Memory

VARIABLE
  commands    \* the buffers of the commands in progress, innermost last

nestedVars == <<mem_record, lent, lost, running, commands>>

NestedInit == Init /\ commands = <<>>

(* A command asks for its buffer: it may get it or halt the processor. *)
Begin(n) ==
  /\ Ri_malloc(n)
  /\ IF running'
     THEN \E b \in lent' \ lent : commands' = Append(commands, b)
     ELSE UNCHANGED commands

(* As if the command that began first returned first. *)
FinishMutant ==
  /\ commands # <<>>
  /\ Ri_free(Head(commands))
  /\ commands' = Tail(commands)

(* As if it were freed with kfree (memory.h:42), which gives back as many  *)
(* bytes as a pointer has.                                                 *)
FinishKfreeMutant ==
  /\ commands # <<>>
  /\ running
  /\ mem_record_free([Last(commands) EXCEPT !.mem_size = 1])
  /\ lent' = lent \ {Last(commands)}
  /\ commands' = Front(commands)
  /\ UNCHANGED running

(* The innermost command frees its buffer and returns. *)
Finish ==
  /\ commands # <<>>
  /\ Ri_free(Last(commands))
  /\ commands' = Front(commands)

NestedNext == Finish \/ \E n \in Sizes : Begin(n)

NestedSpec == NestedInit /\ [][NestedNext]_nestedVars

-----------------------------------------------------------------------------
(* The buffers of the commands in progress are all that is lent, each once, *)
(* one behind the other from the start of the heap in the order of the     *)
(* commands: no command works in a buffer that another has given back      *)
(* (cat.cc:46-80).                                                         *)
Stacked ==
  /\ commands \in Seq(Mem_record)
  /\ lent = {commands[k] : k \in 1 .. Len(commands)}
  /\ Len(commands) > 0 => commands[1].mem_addr = HeapStart
  /\ \A k \in 1 .. Len(commands) :
       k > 1 => commands[k].mem_addr = EndOf(commands[k - 1])
  /\ \A i, k \in 1 .. Len(commands) :
       i < k => EndOf(commands[i]) <= commands[k].mem_addr

(* One record holds all that is not lent: the callers there are never      *)
(* fragment the heap, so the table does not grow beyond one record, and    *)
(* Ri_free's result, which they all ignore, is never -1 (memory.cc:75).    *)
NeverFragmented == Len(mem_record) <= 1 /\ lost = {}

(* When the last command has returned, all of the heap is free again:      *)
(* nothing that cat or setup_fs took stays taken.                          *)
AllReturned ==
  commands = <<>> =>
    mem_record = <<[mem_addr |-> HeapStart, mem_size |-> HeapEnd - HeapStart]>>

=============================================================================
