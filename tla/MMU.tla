-------------------------------- MODULE MMU --------------------------------
(* The program mmu (Lab3/src/main.c): the engine with the replacement      *)
(* policy that the -a option names.  parse_args constructs that policy and *)
(* no other, so the private state of the other eight does not exist.       *)
(* The policies that keep the same structure share a variable here.        *)
EXTENDS VMM, Sequences

CONSTANTS Algorithms,  \* the letters that may follow -a
          Writable,    \* bound of the input: the pages that may be written
          Interval,    \* REFERENCE_RESET_INTERVAL, 10 in the code
          RequestMod,  \* 2^(width of NRU's counter), 2^32 in the code
          TopBit       \* of an age, 1 << 31 in the code

Letters == {"f", "l", "r", "N", "s", "c", "C", "a", "A"}

ASSUME MMUAssumption == /\ Algorithms \subseteq Letters
                        /\ Writable \subseteq Pages
                        /\ {Interval, RequestMod} \subseteq Nat \ {0}
                        /\ TopBit \in Nat \ {0, 1}

VARIABLES algorithm,                      \* the letter given with -a
          frames,                         \* FIFO and second chance
          next, prev, sorted_list, tail,  \* LRU
          hand,                           \* the clocks
          used_frames,                    \* random, NRU and the agings
          replacement_request,            \* NRU
          age_vector                      \* the agings

list    == <<next, prev, sorted_list, tail>>
mmuvars == <<vars, algorithm, frames, list, hand, used_frames,
             replacement_request, age_vector>>

FIFO      == INSTANCE FIFO_VMM
LRU       == INSTANCE LRU_VMM
Random    == INSTANCE Random_VMM
NRU       == INSTANCE NRU_VMM
SecChance == INSTANCE SecChance_VMM
PClock    == INSTANCE PClock_VMM
VClock    == INSTANCE VClock_VMM
PAging    == INSTANCE PAging_VMM
VAging    == INSTANCE VAging_VMM

NONE     == 0
NoQueue  == frames = NONE
NoList   == next = NONE /\ prev = NONE /\ sorted_list = NONE /\ tail = NONE
NoHand   == hand = NONE
NoCount  == used_frames = NONE
NoResets == replacement_request = NONE
NoAges   == age_vector = NONE

\* The switch of parse_args: new(<policy>, num_frames).
MMUInit ==
  /\ algorithm \in Algorithms
  /\ \/ /\ algorithm = "f" /\ FIFO!FIFOInit
        /\ NoList /\ NoHand /\ NoCount /\ NoResets /\ NoAges
     \/ /\ algorithm = "l" /\ LRU!LRUInit
        /\ NoQueue /\ NoHand /\ NoCount /\ NoResets /\ NoAges
     \/ /\ algorithm = "r" /\ Random!RandomInit
        /\ NoQueue /\ NoList /\ NoHand /\ NoResets /\ NoAges
     \/ /\ algorithm = "N" /\ NRU!NRUInit
        /\ NoQueue /\ NoList /\ NoHand /\ NoAges
     \/ /\ algorithm = "s" /\ SecChance!SecInit
        /\ NoList /\ NoHand /\ NoCount /\ NoResets /\ NoAges
     \/ /\ algorithm = "c" /\ PClock!ClockInit
        /\ NoQueue /\ NoList /\ NoCount /\ NoResets /\ NoAges
     \/ /\ algorithm = "C" /\ VClock!VClockInit
        /\ NoQueue /\ NoList /\ NoCount /\ NoResets /\ NoAges
     \/ /\ algorithm = "a" /\ PAging!PAgingInit
        /\ NoQueue /\ NoList /\ NoHand /\ NoResets
     \/ /\ algorithm = "A" /\ VAging!VAgingInit
        /\ NoQueue /\ NoList /\ NoHand /\ NoResets

\* One step of the engine with the policy that was constructed; only pages
\* of Writable become modified.
MMUNext ==
  /\ UNCHANGED algorithm
  /\ \/ /\ algorithm = "f" /\ FIFO!FIFONext
        /\ UNCHANGED <<list, hand, used_frames, replacement_request, age_vector>>
     \/ /\ algorithm = "l" /\ LRU!LRUNext
        /\ UNCHANGED <<frames, hand, used_frames, replacement_request, age_vector>>
     \/ /\ algorithm = "r" /\ Random!RandomNext
        /\ UNCHANGED <<frames, list, hand, replacement_request, age_vector>>
     \/ /\ algorithm = "N" /\ NRU!NRUNext
        /\ UNCHANGED <<frames, list, hand, age_vector>>
     \/ /\ algorithm = "s" /\ SecChance!SecNext
        /\ UNCHANGED <<list, hand, used_frames, replacement_request, age_vector>>
     \/ /\ algorithm = "c" /\ PClock!ClockNext
        /\ UNCHANGED <<frames, list, used_frames, replacement_request, age_vector>>
     \/ /\ algorithm = "C" /\ VClock!VClockNext
        /\ UNCHANGED <<frames, list, used_frames, replacement_request, age_vector>>
     \/ /\ algorithm = "a" /\ PAging!PAgingNext
        /\ UNCHANGED <<frames, list, hand, replacement_request>>
     \/ /\ algorithm = "A" /\ VAging!VAgingNext
        /\ UNCHANGED <<frames, list, hand, replacement_request>>
  /\ \A p \in Pages \ Writable : ~page_table'[p].modified

MMUSpec == MMUInit /\ [][MMUNext]_mmuvars

-----------------------------------------------------------------------------
RefBitPolicies == {"N", "s", "c", "C", "a", "A"}

(* Whatever the policy, the program only makes choices the engine allows:  *)
(* the lowest free frame, untouched bits while filling, then any frame.    *)
(* The policies that only count the frames they handed out rely on that    *)
(* count and the frame table never disagreeing.  The clock over pages may  *)
(* end otherwise, by its read beyond the frame table.                      *)
ImplementsEngine == Init /\ [][Next \/ status' = "crashed"]_vars

(* Every policy that looks at referenced bits evicts a referenced page     *)
(* only when all resident pages are referenced, also on the replacements   *)
(* that reset the bits, and skips the pages that are not in memory.        *)
SparesReferencedPages ==
  [][(algorithm \in RefBitPolicies) =>
        [RefBitNext \/ status' = "crashed"]_vars]_mmuvars

(* FIFO evicts the page that has been in memory longest, LRU the one whose *)
(* last access, read or write, fault or hit, is longest ago: every fault   *)
(* puts its page at the end of that order and takes the victim, if there   *)
(* must be one, from its front, and every hit moves its page as it should. *)
EvictsInOrder ==
  /\ algorithm = "f" => FIFO!Arrival!OrderInit
  /\ algorithm = "l" => LRU!Recent!OrderInit
  /\ [][\A op \in Operations, p \in Pages :
          /\ algorithm = "f" =>
               /\ FIFO!FIFOFault(op, p) => FIFO!Arrival!Arrive(p)
               /\ FIFO!FIFOHit(op, p) => FIFO!Arrival!Hit(p)
          /\ algorithm = "l" =>
               /\ LRU!LRUFault(op, p) => LRU!Recent!Arrive(p)
               /\ LRU!LRUHit(op, p) /\ status' = "running" => LRU!Recent!Hit(p)]_mmuvars

(* LRU's pointers always form one list of all the frames, whatever         *)
(* sequence of elements is taken from its head, middle and end, and none   *)
(* is followed that is NULL or was never set.                              *)
ListStaysSound == algorithm = "l" => LRU!ListIsSound /\ status # "crashed"

(* No pointer or index is followed that is NULL, EMPTY or was never set,   *)
(* by LRU with two frames or more and by the clocks, whose hand is on a    *)
(* free frame while there is one: the sweep over frames never looks up the *)
(* page of an empty frame, and the sweep over pages always has a resident  *)
(* page to stop at.  The exception is the clock over pages' read beyond    *)
(* the frame table.                                                        *)
NoBadPointer == /\ status = "crashed" => algorithm = "C" /\ hand \notin Frames
                /\ algorithm = "c" => PClock!HandFindsFree
                /\ algorithm = "C" => VClock!HandFindsFree

(* Second chance and the clock over frames are the same policy: the front  *)
(* of the queue is the clock's hand, victim for victim and bit for bit.    *)
SecondChanceIsTheClock ==
  /\ algorithm = "s" => SecChance!Clock!ClockInit
  /\ [][algorithm = "s" =>
          [SecChance!Clock!ClockNext]_(SecChance!Clock!clockvars)]_mmuvars

(* Ages kept by frame or by page are the ages of the resident pages: none  *)
(* is inherited from the page replaced, one that comes back starts at 0,   *)
(* and the victim is a resident page of least age (never the default 0).   *)
AgesFollowPages ==
  /\ algorithm = "a" => PAging!A!AgingInit
  /\ algorithm = "A" => VAging!A!AgingInit
  /\ [][/\ algorithm = "a" => [PAging!A!AgingNext]_(PAging!A!agingvars)
        /\ algorithm = "A" => [VAging!A!AgingNext]_(VAging!A!agingvars)]_mmuvars

(* NRU evicts a modified page only for want of a clean resident page with  *)
(* the same referenced bit; and referenced bits do not pile up: the        *)
(* replacement that ends an interval chooses by them and then leaves only  *)
(* the bit of the page just mapped.                                        *)
NRUKeepsClasses ==
  [][algorithm = "N" => NRU!EvictsCleanFirst /\ NRU!LeavesOneBit]_mmuvars
=============================================================================
