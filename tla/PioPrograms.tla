----------------------------- MODULE PioPrograms -----------------------------
(***************************************************************************)
(* The instruction memory and the state machines of one PIO controller:    *)
(* the direct calls of pico_runtime.c that add and remove programs and     *)
(* claim state machines, the TPIOStateMachine objects of pio.bmx that own  *)
(* one machine and a copy of a program, and a driver of the SDK (the       *)
(* radio's) that uses the same controller without these calls.             *)
(***************************************************************************)
EXTENDS Integers, FiniteSets

CONSTANTS
  Memory,    \* PIO_INSTRUCTION_COUNT
  Machines,  \* NUM_PIO_STATE_MACHINES
  Programs,  \* programs: records of length and origin; origin -1 is anywhere
  Owner      \* TPIOStateMachine objects, created again after a close

VARIABLES
  loaded,   \* bmx_pico_pio_loaded_programs: words loaded through these calls
  used,     \* the SDK's _used_instruction_space
  claimed,  \* the SDK's claims of state machines
  own,      \* the fields of each TPIOStateMachine
  direct,   \* ghost: words and machines the program got by direct calls
  driver    \* ghost: words and machines of the driver

programsVars == <<loaded, used, claimed, own, direct, driver>>

Word == 0 .. Memory - 1
Machine == 0 .. Machines - 1
Failed == -1
Smallest(s) == CHOOSE x \in s : \A y \in s : x <= y
Largest(s) == CHOOSE x \in s : \A y \in s : x >= y

Nothing == [words |-> {}, machines |-> {}]
Vacant == [machine |-> Failed, offset |-> Failed, length |-> 0]

(* bmx_pico_pio_program_mask. *)
Range(length, offset) == offset .. offset + length - 1
Copy(x) == IF x.offset < 0 THEN {} ELSE Range(x.length, x.offset)

-----------------------------------------------------------------------------
(* pio_add_program_at_offset; pio_add_program tries from the top down.     *)
Fitting(p) ==
  {o \in Word : /\ Range(p.length, o) \subseteq Word \ used
                /\ p.origin >= 0 => o = p.origin}
Place(p) == IF Fitting(p) = {} THEN Failed ELSE Largest(Fitting(p))
Claim == IF Machine \subseteq claimed THEN Failed ELSE Smallest(Machine \ claimed)

(* bmx_pico_pio_remove_program: refused unless every word was loaded       *)
(* through bmx_pico_pio_add_program.  A fault: it asks the SDK's table.    *)
BadRemovable(words) == words # {} /\ words \subseteq used
Removable(words) == words # {} /\ words \subseteq loaded

(* A fault: offset 0 is taken for none. *)
BadHeld(x) == IF x.offset > 0 THEN Copy(x) ELSE {}
Held(x) == Copy(x)

(* TPIOStateMachine.Create: a claim, a copy of the program, and the set-up *)
(* of the machine, which bad settings fail.  A failure closes the object   *)
(* with what it has so far.                                                *)
CreateMachine(o, p) ==
  /\ own[o] = Vacant /\ Claim # Failed
  /\ Place(p) # Failed
  /\ own' = [own EXCEPT ![o] = [machine |-> Claim, offset |-> Place(p), length |-> p.length]]
  /\ claimed' = claimed \cup {Claim}
  /\ used' = used \cup Range(p.length, Place(p))
  /\ loaded' = loaded \cup Range(p.length, Place(p))
  /\ UNCHANGED <<direct, driver>>
CreateMachineFailed(o, p) ==
  LET x == [machine |-> Claim, offset |-> Place(p), length |-> p.length]
  IN /\ own[o] = Vacant /\ x.machine # Failed
     /\ claimed' = claimed
     /\ used' = (used \cup Copy(x)) \ Held(x)
     /\ loaded' = (loaded \cup Copy(x)) \ Held(x)
     /\ UNCHANGED <<own, direct, driver>>

CloseMachine(o) ==
  LET words == IF Removable(Held(own[o])) THEN Held(own[o]) ELSE {}
  IN /\ own[o] # Vacant
     /\ claimed' = claimed \ {own[o].machine}
     /\ used' = used \ words
     /\ loaded' = loaded \ words
     /\ own' = [own EXCEPT ![o] = Vacant]
     /\ UNCHANGED <<direct, driver>>

-----------------------------------------------------------------------------
(* The direct calls.  A program may pass any length and offset to the      *)
(* removal, but keeps away from what an object of its own holds.           *)
Kept == UNION {Copy(own[o]) : o \in Owner}
AddProgram(p) ==
  /\ Place(p) # Failed
  /\ used' = used \cup Range(p.length, Place(p))
  /\ loaded' = loaded \cup Range(p.length, Place(p))
  /\ direct' = [direct EXCEPT !.words = @ \cup Range(p.length, Place(p))]
  /\ UNCHANGED <<claimed, own, driver>>
RemoveProgram(length, offset) ==
  LET words == Range(length, offset)
  IN /\ words \subseteq Word \ Kept
     /\ Removable(words)
     /\ used' = used \ words
     /\ loaded' = loaded \ words
     /\ direct' = [direct EXCEPT !.words = @ \ words]
     /\ UNCHANGED <<claimed, own, driver>>
ClaimMachine ==
  /\ Claim # Failed
  /\ claimed' = claimed \cup {Claim}
  /\ direct' = [direct EXCEPT !.machines = @ \cup {Claim}]
  /\ UNCHANGED <<loaded, used, own, driver>>
UnclaimMachine(m) ==
  /\ m \in direct.machines
  /\ claimed' = claimed \ {m}
  /\ direct' = [direct EXCEPT !.machines = @ \ {m}]
  /\ UNCHANGED <<loaded, used, own, driver>>

(* The driver loads its program and claims its machine through the SDK.    *)
DriverStarts(p) ==
  /\ driver = Nothing /\ Claim # Failed /\ Place(p) # Failed
  /\ used' = used \cup Range(p.length, Place(p))
  /\ claimed' = claimed \cup {Claim}
  /\ driver' = [words |-> Range(p.length, Place(p)), machines |-> {Claim}]
  /\ UNCHANGED <<loaded, own, direct>>
DriverStops ==
  /\ driver # Nothing
  /\ used' = used \ driver.words
  /\ claimed' = claimed \ driver.machines
  /\ driver' = Nothing
  /\ UNCHANGED <<loaded, own, direct>>

ProgramsInit ==
  /\ loaded = {} /\ used = {} /\ claimed = {}
  /\ own = [o \in Owner |-> Vacant]
  /\ direct = Nothing /\ driver = Nothing
ProgramsNext ==
  \/ \E p \in Programs : AddProgram(p) \/ DriverStarts(p)
  \/ \E p \in Programs, o \in Owner : CreateMachine(o, p) \/ CreateMachineFailed(o, p)
  \/ \E o \in Owner : CloseMachine(o)
  \/ \E length \in 1 .. Memory, offset \in Word : RemoveProgram(length, offset)
  \/ \E m \in Machine : UnclaimMachine(m)
  \/ ClaimMachine \/ DriverStops
ProgramsSpec == ProgramsInit /\ [][ProgramsNext]_programsVars

-----------------------------------------------------------------------------
(* The type of a share of words and machines, and of the rest.             *)
Share == [words : SUBSET Word, machines : SUBSET Machine]
ProgramsTyped ==
  /\ loaded \subseteq Word /\ used \subseteq Word /\ claimed \subseteq Machine
  /\ own \in [Owner -> [machine : Machine \cup {Failed}, offset : Word \cup {Failed},
                        length : {0} \cup {p.length : p \in Programs}]]
  /\ direct \in Share /\ driver \in Share

(* What each holder has; parts that make up a whole and do not overlap.    *)
Holder == Owner \cup {"direct", "driver"}
WordsOf ==
  [h \in Holder |-> IF h = "direct" THEN direct.words
                    ELSE IF h = "driver" THEN driver.words ELSE Copy(own[h])]
MachinesOf ==
  [h \in Holder |-> IF h = "direct" THEN direct.machines
                    ELSE IF h = "driver" THEN driver.machines
                    ELSE {own[h].machine} \ {Failed}]
Shared(whole, part) ==
  /\ whole = UNION {part[h] : h \in Holder}
  /\ \A g, h \in Holder : g # h => part[g] \cap part[h] = {}

(* "Owns a claimed PIO state machine and its private loaded program copy": *)
(* every word and every machine has one owner, an open object, a direct    *)
(* call or the driver, whatever failed half way and whatever the program   *)
(* asks to remove, and what has no owner is free.                          *)
ProgramsOwned ==
  /\ Shared(used, WordsOf)
  /\ loaded = used \ driver.words
  /\ Shared(claimed, MachinesOf)
=============================================================================
