-------------------------------- MODULE DevReg --------------------------------
(***************************************************************************)
(* The settings of the device: src/dev_reg.c and its objects in flash, as  *)
(* src/glue/glue_flash.c keeps them.  A setting lives twice, in dev_regs   *)
(* and in flash.  Handlers run one at a time, but the power may fail       *)
(* between any two flash operations of one, so each of them is a step.     *)
(*                                                                         *)
(* A string setting is a pointer to an allocation of its own; the console  *)
(* is given those of the keys once, when it starts.  Trace masks are       *)
(* changed in memory alone and saved on request.                           *)
(***************************************************************************)
EXTENDS Naturals, Sequences

CONSTANTS
    Order,      \* the register ids, in the order of devRegInfo
    Strings,    \* those of type VE_STRING
    Keys,       \* the strings handed to the console
    Traces,     \* the trace masks, numbers
    Values,     \* what settings can be, after conversion to the register's width
    Default,    \* devRegInfo[].defaultVal
    Absent,     \* no flash object
    Empty,      \* a flash object of length zero
    Zero,       \* what a number is until a read has set it
    Nothing,    \* NULL, what a string is until then
    Freed,      \* a pointer to memory that was released
    Faults,     \* of "power_loss", "torn_write", "write_fails"
    MaxFaults   \* bound: how many of them in one behaviour

Registers == {Order[i] : i \in 1..Len(Order)}

ASSUME RegistersAssumption ==
    /\ Order \in Seq(Registers)
    /\ \A i, j \in 1..Len(Order) : Order[i] = Order[j] => i = j
    /\ Strings \subseteq Registers
    /\ Keys \subseteq Strings
    /\ Traces \subseteq Registers \ Strings
ASSUME ValuesAssumption ==
    /\ {Default, Zero} \subseteq Values
    /\ {Absent, Empty, Nothing, Freed} \cap Values = {}
    /\ Absent # Empty
    /\ Nothing # Freed
ASSUME FaultsAssumption ==
    /\ Faults \subseteq {"power_loss", "torn_write", "write_fails"}
    /\ MaxFaults \in Nat

VARIABLES
    pc,     \* where the program is between two flash operations
    idx,    \* regId of the loops
    reg,    \* the register dev_regChange is changing
    new,    \* and to what
    ram,    \* dev_regs
    flash,
    held,   \* the console's pointers: "none" yet, "live", "null" or "dangling"
    bad,    \* not in the code: registers whose last write failed or was cut off
    budget  \* faults left

change == <<reg, new>>
vars == <<pc, idx, reg, new, ram, flash, held, bad, budget>>

\* dev_regs is static.
Cold == [r \in Registers |-> IF r \in Strings THEN Nothing ELSE Zero]

\* A device that was never started.
Init ==
    /\ pc = "off"
    /\ idx = 1
    /\ reg = Nothing
    /\ new = Nothing
    /\ flash = [r \in Registers |-> Absent]
    /\ ram = Cold
    /\ held = [k \in Keys |-> "none"]
    /\ bad = {}
    /\ budget = MaxFaults

Spend(fault) ==
    /\ fault \in Faults
    /\ budget > 0
    /\ budget' = budget - 1

\* adl_flhWrite: the file is opened, which empties it, and then written.
Written(r, v) ==
    /\ flash' = [flash EXCEPT ![r] = v]
    /\ bad' = bad \ {r}
    /\ UNCHANGED budget

WriteFails(r) ==
    /\ Spend("write_fails")
    /\ bad' = bad \cup {r}
    /\ flash' \in {flash, [flash EXCEPT ![r] = Empty]}

\* dev_regLoad: an empty object has nothing to read.  A string is then NULL, a
\* number is left as it is.
Loaded(r) ==
    IF flash[r] \in Values THEN flash[r] ELSE IF r \in Strings THEN Nothing ELSE ram[r]

------------------------------------------------------------------------------
(* Starting.                                                                  *)

PowerOn ==
    /\ pc = "off"
    /\ pc' = "subscribe"
    /\ idx' = 1
    /\ UNCHANGED <<change, ram, flash, held, bad, budget>>

\* initialiseRegisters, adl_flhSubscribe for one register: an object that does
\* not exist is created, empty, and has still to be given its default value.
Subscribe ==
    /\ pc = "subscribe"
    /\ idx <= Len(Order)
    /\ IF flash[Order[idx]] = Absent
       THEN flash' = [flash EXCEPT ![Order[idx]] = Empty] /\ pc' = "default" /\ UNCHANGED idx
       ELSE idx' = idx + 1 /\ UNCHANGED <<pc, flash>>
    /\ UNCHANGED <<change, ram, held, bad, budget>>

\* dev_regStore of the default; its result is not looked at.
StoreDefault ==
    /\ pc = "default"
    /\ Written(Order[idx], Default) \/ WriteFails(Order[idx])
    /\ pc' = "subscribe"
    /\ idx' = idx + 1
    /\ UNCHANGED <<change, ram, held>>

\* The second loop of dev_regInit only reads.
LoadAll ==
    /\ pc = "subscribe"
    /\ idx > Len(Order)
    /\ ram' = [r \in Registers |-> Loaded(r)]
    /\ pc' = "run"
    /\ UNCHANGED <<idx, change, flash, held, bad, budget>>

\* pubnub_at_console: pubnub_init keeps the pointers.
StartConsole ==
    /\ pc = "run"
    /\ \A k \in Keys : held[k] = "none"
    /\ held' = [k \in Keys |-> CASE ram[k] = Nothing -> "null"
                                 [] ram[k] = Freed -> "dangling"
                                 [] OTHER -> "live"]
    /\ UNCHANGED <<pc, idx, change, ram, flash, bad, budget>>

------------------------------------------------------------------------------
(* Changing a setting: dev_regChange, from AT+VREG.                            *)

\* Up to the store: the current string is released, also when a store that
\* failed has left the pointer to one released before.
Change(r, v) ==
    /\ pc = "run"
    /\ pc' = "store"
    /\ reg' = r
    /\ new' = v
    /\ IF r \in Strings /\ ram[r] # Nothing
       THEN /\ ram' = [ram EXCEPT ![r] = Freed]
            /\ held' = [k \in Keys |-> IF k = r /\ held[k] = "live" THEN "dangling" ELSE held[k]]
       ELSE UNCHANGED <<ram, held>>
    /\ UNCHANGED <<idx, flash, bad, budget>>

\* dev_regRestoreDefault.
RestoreDefault(r) == Change(r, Default)

StoreNew ==
    /\ pc = "store"
    /\ \/ Written(reg, new) /\ pc' = "reload"
       \/ WriteFails(reg) /\ pc' = "run"
    /\ UNCHANGED <<idx, change, ram, held>>

\* Mutant of Reload: dev_regLoad is forgotten.
ReloadForgotten ==
    /\ pc = "reload"
    /\ pc' = "run"
    /\ UNCHANGED <<idx, change, ram, flash, held, bad, budget>>

Reload ==
    /\ pc = "reload"
    /\ pc' = "run"
    /\ ram' = [ram EXCEPT ![reg] = Loaded(reg)]
    /\ UNCHANGED <<idx, change, flash, held, bad, budget>>

------------------------------------------------------------------------------
(* Trace masks.                                                               *)

\* ve_traceEnableLevels and ve_traceDisableLevels, for one module or for all.
SetTraces(masks) ==
    /\ pc = "run"
    /\ ram' = [r \in Registers |-> IF r \in Traces THEN masks[r] ELSE ram[r]]
    /\ UNCHANGED <<pc, idx, change, flash, held, bad, budget>>

\* ve_traceLevelsStore saves one after the other and gives up at the first
\* that cannot be.
SaveTraces ==
    /\ pc = "run"
    /\ pc' = "save"
    /\ idx' = 1
    /\ UNCHANGED <<change, ram, flash, held, bad, budget>>

\* Mutant of SaveTrace: the loop runs over every register.
SaveTraceAny ==
    /\ pc = "save"
    /\ idx <= Len(Order)
    /\ Written(Order[idx], ram[Order[idx]])
    /\ idx' = idx + 1
    /\ UNCHANGED <<pc, change, ram, held>>

\* Mutant of SaveTrace: the result of dev_regSave is not looked at.
SaveTraceGoesOn ==
    /\ pc = "save"
    /\ idx <= Len(Order)
    /\ IF Order[idx] \in Traces
       THEN Written(Order[idx], ram[Order[idx]]) \/ WriteFails(Order[idx])
       ELSE UNCHANGED <<flash, bad, budget>>
    /\ idx' = idx + 1
    /\ UNCHANGED <<pc, change, ram, held>>

SaveTrace ==
    /\ pc = "save"
    /\ idx <= Len(Order)
    /\ IF Order[idx] \notin Traces
       THEN idx' = idx + 1 /\ UNCHANGED <<pc, flash, bad, budget>>
       ELSE \/ Written(Order[idx], ram[Order[idx]]) /\ idx' = idx + 1 /\ UNCHANGED pc
            \/ WriteFails(Order[idx]) /\ pc' = "run" /\ UNCHANGED idx
    /\ UNCHANGED <<change, ram, held>>

SaveEnd ==
    /\ pc = "save"
    /\ idx > Len(Order)
    /\ pc' = "run"
    /\ UNCHANGED <<idx, change, ram, flash, held, bad, budget>>

------------------------------------------------------------------------------
(* Losing power.                                                              *)

Lose(fault) ==
    /\ Spend(fault)
    /\ pc' = "off"
    /\ ram' = Cold
    /\ held' = [k \in Keys |-> "none"]
    /\ UNCHANGED <<idx, change>>

\* Between two operations on flash; on the first start that may be between
\* adl_flhSubscribe and dev_regStore.
PowerLoss ==
    /\ pc # "off"
    /\ Lose("power_loss")
    /\ bad' = IF pc = "default" THEN bad \cup {Order[idx]} ELSE bad
    /\ UNCHANGED flash

\* While adl_flhWrite has the file open.
TornWrite(r) ==
    /\ \/ pc = "store" /\ r = reg
       \/ pc = "save" /\ idx <= Len(Order) /\ r = Order[idx] /\ r \in Traces
    /\ Lose("torn_write")
    /\ flash' = [flash EXCEPT ![r] = Empty]
    /\ bad' = bad \cup {r}

Next ==
    \/ PowerOn \/ Subscribe \/ StoreDefault \/ LoadAll \/ StartConsole
    \/ \E r \in Registers : RestoreDefault(r) \/ \E v \in Values : Change(r, v)
    \/ StoreNew \/ Reload
    \/ \E masks \in [Traces -> Values] : SetTraces(masks)
    \/ SaveTraces \/ SaveTrace \/ SaveEnd
    \/ PowerLoss \/ \E r \in Registers : TornWrite(r)

Spec == Init /\ [][Next]_vars

------------------------------------------------------------------------------
(* Properties.                                                                *)

TypeOK ==
    /\ pc \in {"off", "subscribe", "default", "run", "store", "reload", "save"}
    /\ idx \in 1..(Len(Order) + 1)
    /\ reg \in Registers \cup {Nothing}
    /\ new \in Values \cup {Nothing}
    /\ ram \in [Registers -> Values \cup {Nothing, Freed}]
    /\ flash \in [Registers -> Values \cup {Absent, Empty}]
    /\ held \in [Keys -> {"none", "live", "null", "dangling"}]
    /\ bad \subseteq Registers
    /\ budget \in 0..MaxFaults

\* Whenever the next handler can run, every setting is usable, neither missing
\* nor a pointer to released memory, and the one in flash is the one in memory
\* ("The register is updated in memory as well as in flash", dev_regChange),
\* wherever the power failed and whichever writes did: only a setting whose own
\* write failed or was cut off may be otherwise.
Settled ==
    pc = "run" =>
        \A r \in Registers \ bad :
            /\ ram[r] \in Values
            /\ r \notin Traces => flash[r] = ram[r]

\* Saving that runs to its end has saved every mask ("Store the trace levels, so
\* they are kept over a power cycle").
MasksSaved == [][SaveEnd => \A t \in Traces : flash[t] = ram[t]]_vars

\* The comment of initialiseRegisters: "If any register does not yet exist, it is
\* created, and initialised to the default value": once the start is over each
\* has a value in flash.
Initialised == pc = "run" => \A r \in Registers : flash[r] \in Values

\* The console never uses a key that was released: the documentation of AT+VREG
\* says that "it may be necessary to reboot the device before changes will take
\* effect", until then the old value is in use.
KeysLive == \A k \in Keys : held[k] # "dangling"
==============================================================================
