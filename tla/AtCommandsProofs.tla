--------------------------- MODULE AtCommandsProofs ---------------------------
(* Proofs about DevReg, for any registers, values and faults, and about          *)
(* AtCommands: every behaviour of it is one of DevReg, so what is proved of the  *)
(* settings holds under commands; and the answers are true.                      *)
EXTENDS AtCommands, SequenceTheorems, TLAPS

------------------------------------------------------------------------------
(* The invariant of the settings.  Settled speaks of the moments between two     *)
(* handlers; the rest says what each handler has done so far, and which objects  *)
(* in flash a start finds.                                                       *)

\* The registers a handler is busy with exist.
Busy ==
    /\ pc = "default" => idx <= Len(Order) /\ flash[Order[idx]] = Empty
    /\ pc \in {"store", "reload"} => reg \in Registers /\ new \in Values
    /\ pc = "reload" => flash[reg] = new

\* Numbers are never without a value, which is what makes any mask fit to save.
NumbersHaveValues == \A r \in Registers \ Strings : ram[r] \in Values

\* The loop of initialiseRegisters leaves no register behind without an object.
Created ==
    /\ pc \in {"subscribe", "default"} => \A i \in 1..(idx - 1) : flash[Order[i]] # Absent
    /\ pc \notin {"off", "subscribe", "default"} => \A r \in Registers : flash[r] # Absent

\* An object is empty for as long as its default is on the way, or for a reason.
EmptyIsBad ==
    \A r \in Registers \ bad : flash[r] = Empty => pc = "default" /\ r = Order[idx]

\* Memory and flash agree, but for the register that is being changed.
Agree ==
    pc \in {"run", "store", "reload", "save"} =>
        \A r \in Registers \ bad :
            \/ pc \in {"store", "reload"} /\ r = reg
            \/ ram[r] \in Values /\ (r \notin Traces => flash[r] = ram[r])

\* The loop of ve_traceLevelsStore has saved what it has passed.
SavedSoFar ==
    pc = "save" =>
        \A i \in 1..(idx - 1) : Order[i] \in Traces => flash[Order[i]] = ram[Order[i]]

IInv ==
    /\ TypeOK
    /\ Busy
    /\ NumbersHaveValues
    /\ Created
    /\ EmptyIsBad
    /\ Agree
    /\ SavedSoFar

------------------------------------------------------------------------------
(* The constants.                                                               *)

LEMMA OrderFacts ==
    /\ Len(Order) \in Nat
    /\ \A i \in 1..Len(Order) : Order[i] \in Registers
    /\ \A r \in Registers : \E i \in 1..Len(Order) : r = Order[i]
    /\ Strings \subseteq Registers /\ Keys \subseteq Strings
    /\ Traces \subseteq Registers \ Strings
BY RegistersAssumption DEF Registers

LEMMA MarkerFacts ==
    /\ Default \in Values /\ Zero \in Values
    /\ Absent \notin Values /\ Empty \notin Values
    /\ Nothing \notin Values /\ Freed \notin Values
    /\ Absent # Empty
BY ValuesAssumption

LEMMA ColdType ==
    /\ Cold \in [Registers -> Values \cup {Nothing, Freed}]
    /\ \A r \in Registers \ Strings : Cold[r] \in Values
BY MarkerFacts DEF Cold

------------------------------------------------------------------------------
(* Writes.                                                                      *)

\* A write that succeeds, and one that fails, seen from outside.
LEMMA WrittenType ==
    ASSUME TypeOK, NEW r \in Registers, NEW v \in Values, Written(r, v)
    PROVE  /\ flash' \in [Registers -> Values \cup {Absent, Empty}]
           /\ flash'[r] = v
           /\ \A s \in Registers \ {r} : flash'[s] = flash[s]
           /\ bad' \subseteq Registers
           /\ bad \subseteq bad' \cup {r}
           /\ budget' \in 0..MaxFaults
BY DEF TypeOK, Written

LEMMA SpendType ==
    ASSUME TypeOK, NEW f, Spend(f)
    PROVE  budget' \in 0..MaxFaults
BY FaultsAssumption DEF TypeOK, Spend

LEMMA WriteFailsType ==
    ASSUME TypeOK, NEW r \in Registers, WriteFails(r)
    PROVE  /\ flash' \in [Registers -> Values \cup {Absent, Empty}]
           /\ flash[r] # Absent => flash'[r] # Absent
           /\ \A s \in Registers \ {r} : flash'[s] = flash[s]
           /\ bad' \subseteq Registers
           /\ bad' = bad \cup {r}
           /\ budget' \in 0..MaxFaults
<1>1. budget' \in 0..MaxFaults
  BY SpendType DEF WriteFails
<1> QED
  BY <1>1, MarkerFacts DEF TypeOK, WriteFails

------------------------------------------------------------------------------
(* The invariant.                                                               *)

LEMMA InitIInv == Init => IInv
<1> SUFFICES ASSUME Init PROVE IInv
  OBVIOUS
<1>1. TypeOK
  BY OrderFacts, ColdType, FaultsAssumption DEF Init, TypeOK
<1>2. Busy /\ Created /\ Agree /\ SavedSoFar
  BY DEF Init, Busy, Created, Agree, SavedSoFar
<1>3. NumbersHaveValues
  BY ColdType DEF Init, NumbersHaveValues
<1>4. EmptyIsBad
  BY MarkerFacts DEF Init, EmptyIsBad
<1> QED
  BY <1>1, <1>2, <1>3, <1>4 DEF IInv

LEMMA PowerOnIInv == ASSUME IInv, PowerOn PROVE IInv'
<1>1. TypeOK'
  BY OrderFacts DEF IInv, PowerOn, change, TypeOK
<1> QED
  BY <1>1 DEF IInv, PowerOn, change, Busy, NumbersHaveValues, Created, EmptyIsBad,
              Agree, SavedSoFar

LEMMA SubscribeIInv == ASSUME IInv, Subscribe PROVE IInv'
<1>1. idx \in 1..Len(Order) /\ Order[idx] \in Registers /\ pc = "subscribe"
  BY OrderFacts DEF IInv, TypeOK, Subscribe
<1>2. CASE flash[Order[idx]] = Absent
  <2>1. /\ flash' = [flash EXCEPT ![Order[idx]] = Empty] /\ pc' = "default" /\ idx' = idx
        /\ UNCHANGED <<reg, new, ram, held, bad, budget>>
    BY <1>2 DEF Subscribe, change
  <2>2. /\ flash' \in [Registers -> Values \cup {Absent, Empty}]
        /\ flash'[Order[idx]] = Empty
        /\ \A s \in Registers \ {Order[idx]} : flash'[s] = flash[s]
    BY <1>1, <2>1 DEF IInv, TypeOK
  <2>3. TypeOK'
    BY <2>1, <2>2 DEF IInv, TypeOK
  <2>4. Busy' /\ NumbersHaveValues' /\ Agree' /\ SavedSoFar'
    BY <1>1, <2>1, <2>2 DEF IInv, Busy, NumbersHaveValues, Agree, SavedSoFar
  <2>5. Created'
    <3> SUFFICES ASSUME NEW i \in 1..(idx - 1) PROVE flash'[Order[i]] # Absent
      BY <2>1 DEF Created
    <3>1. Order[i] \in Registers /\ flash[Order[i]] # Absent
      BY <1>1, OrderFacts DEF IInv, Created
    <3> QED BY <3>1, <2>2, MarkerFacts
  <2>6. EmptyIsBad'
    BY <1>1, <2>1, <2>2 DEF IInv, EmptyIsBad
  <2> QED BY <2>3, <2>4, <2>5, <2>6 DEF IInv
<1>3. CASE flash[Order[idx]] # Absent
  <2>1. /\ idx' = idx + 1 /\ pc' = "subscribe"
        /\ UNCHANGED <<reg, new, ram, flash, held, bad, budget>>
    BY <1>1, <1>3 DEF Subscribe, change
  <2>2. TypeOK'
    BY <1>1, <2>1, OrderFacts DEF IInv, TypeOK
  <2>3. Busy' /\ NumbersHaveValues' /\ Agree' /\ SavedSoFar'
    BY <1>1, <2>1 DEF IInv, Busy, NumbersHaveValues, Agree, SavedSoFar
  <2>4. Created'
    BY <1>1, <1>3, <2>1 DEF IInv, Created
  <2>5. EmptyIsBad'
    BY <1>1, <2>1 DEF IInv, EmptyIsBad
  <2> QED BY <2>2, <2>3, <2>4, <2>5 DEF IInv
<1> QED BY <1>2, <1>3

LEMMA StoreDefaultIInv == ASSUME IInv, StoreDefault PROVE IInv'
<1>1. /\ idx \in 1..Len(Order) /\ Order[idx] \in Registers /\ pc = "default"
      /\ flash[Order[idx]] = Empty
  BY OrderFacts DEF IInv, TypeOK, Busy, StoreDefault
<1>2. idx' = idx + 1 /\ pc' = "subscribe" /\ UNCHANGED <<reg, new, ram, held>>
  BY DEF StoreDefault, change
<1>3. /\ flash' \in [Registers -> Values \cup {Absent, Empty}]
      /\ flash'[Order[idx]] # Absent
      /\ Order[idx] \notin bad' => flash'[Order[idx]] # Empty
      /\ \A s \in Registers \ {Order[idx]} : flash'[s] = flash[s]
      /\ bad' \subseteq Registers
      /\ bad \subseteq bad' \cup {Order[idx]}
      /\ budget' \in 0..MaxFaults
  <2>1. CASE Written(Order[idx], Default)
    BY <1>1, <2>1, WrittenType, MarkerFacts DEF IInv
  <2>2. CASE WriteFails(Order[idx])
    BY <1>1, <2>2, WriteFailsType, MarkerFacts DEF IInv
  <2> QED BY <2>1, <2>2 DEF StoreDefault
<1>4. TypeOK'
  BY <1>1, <1>2, <1>3, OrderFacts DEF IInv, TypeOK
<1>5. Busy' /\ NumbersHaveValues' /\ Agree' /\ SavedSoFar'
  BY <1>2 DEF IInv, Busy, NumbersHaveValues, Agree, SavedSoFar
<1>6. Created'
  <2> SUFFICES ASSUME NEW i \in 1..idx PROVE flash'[Order[i]] # Absent
    BY <1>1, <1>2 DEF Created
  <2>1. CASE Order[i] = Order[idx]
    BY <2>1, <1>3
  <2>2. CASE Order[i] # Order[idx]
    <3>1. Order[i] \in Registers /\ i \in 1..(idx - 1)
      BY <1>1, <2>2, OrderFacts
    <3> QED BY <1>1, <1>3, <2>2, <3>1 DEF IInv, Created
  <2> QED BY <2>1, <2>2
<1>7. EmptyIsBad'
  <2> SUFFICES ASSUME NEW r \in Registers, r \notin bad' PROVE flash'[r] # Empty
    BY <1>2 DEF EmptyIsBad
  <2> QED BY <1>3 DEF IInv, EmptyIsBad
<1> QED BY <1>4, <1>5, <1>6, <1>7 DEF IInv

LEMMA LoadAllIInv == ASSUME IInv, LoadAll PROVE IInv'
<1>1. /\ pc = "subscribe" /\ pc' = "run" /\ idx > Len(Order)
      /\ ram' = [r \in Registers |-> Loaded(r)]
      /\ UNCHANGED <<idx, reg, new, flash, held, bad, budget>>
  BY DEF LoadAll, change
<1>2. \A r \in Registers : flash[r] # Absent
  <2> TAKE r \in Registers
  <2>1. PICK i \in 1..Len(Order) : r = Order[i]
    BY OrderFacts
  <2>2. i \in 1..(idx - 1)
    BY <1>1, OrderFacts DEF IInv, TypeOK
  <2> QED BY <1>1, <2>1, <2>2 DEF IInv, Created
<1>3. \A r \in Registers \ bad : flash[r] \in Values
  BY <1>1, <1>2 DEF IInv, TypeOK, EmptyIsBad
<1>4. TypeOK'
  BY <1>1 DEF IInv, TypeOK, Loaded
<1>5. Busy' /\ SavedSoFar'
  BY <1>1 DEF Busy, SavedSoFar
<1>6. NumbersHaveValues'
  BY <1>1 DEF IInv, NumbersHaveValues, Loaded
<1>7. Created' /\ EmptyIsBad'
  BY <1>1, <1>2 DEF IInv, Created, EmptyIsBad
<1>8. Agree'
  BY <1>1, <1>3 DEF Agree, Loaded
<1> QED BY <1>4, <1>5, <1>6, <1>7, <1>8 DEF IInv

LEMMA StartConsoleIInv == ASSUME IInv, StartConsole PROVE IInv'
<1>1. TypeOK'
  BY DEF IInv, StartConsole, change, TypeOK
<1> QED
  BY <1>1 DEF IInv, StartConsole, change, Busy, NumbersHaveValues, Created, EmptyIsBad,
              Agree, SavedSoFar

LEMMA ChangeIInv ==
    ASSUME IInv, NEW r \in Registers, NEW v \in Values, Change(r, v)
    PROVE  IInv'
<1>1. /\ pc = "run" /\ pc' = "store" /\ reg' = r /\ new' = v
      /\ UNCHANGED <<idx, flash, bad, budget>>
  BY DEF Change
<1>2. /\ ram' \in [Registers -> Values \cup {Nothing, Freed}]
      /\ \A s \in Registers \ {r} : ram'[s] = ram[s]
      /\ r \notin Strings => ram'[r] = ram[r]
      /\ held' \in [Keys -> {"none", "live", "null", "dangling"}]
  BY DEF IInv, TypeOK, Change
<1>3. TypeOK'
  BY <1>1, <1>2 DEF IInv, TypeOK
<1>4. Busy' /\ Created' /\ EmptyIsBad' /\ SavedSoFar'
  BY <1>1 DEF IInv, Busy, Created, EmptyIsBad, SavedSoFar
<1>5. NumbersHaveValues'
  BY <1>2 DEF IInv, NumbersHaveValues
<1>6. Agree'
  BY <1>1, <1>2 DEF IInv, Agree
<1> QED BY <1>3, <1>4, <1>5, <1>6 DEF IInv

LEMMA StoreNewIInv == ASSUME IInv, StoreNew PROVE IInv'
<1>1. pc = "store" /\ reg \in Registers /\ new \in Values
  BY DEF IInv, Busy, StoreNew
<1>2. UNCHANGED <<idx, reg, new, ram, held>>
  BY DEF StoreNew, change
<1>3. CASE Written(reg, new) /\ pc' = "reload"
  <2>1. TypeOK'
    BY <1>1, <1>2, <1>3, WrittenType DEF IInv, TypeOK
  <2>2. Busy' /\ NumbersHaveValues' /\ SavedSoFar'
    BY <1>1, <1>2, <1>3, WrittenType DEF IInv, Busy, NumbersHaveValues, SavedSoFar
  <2>3. Created' /\ EmptyIsBad'
    BY <1>1, <1>2, <1>3, WrittenType, MarkerFacts DEF IInv, Created, EmptyIsBad
  <2>4. Agree'
    BY <1>1, <1>2, <1>3, WrittenType DEF IInv, Agree
  <2> QED BY <2>1, <2>2, <2>3, <2>4 DEF IInv
<1>4. CASE WriteFails(reg) /\ pc' = "run"
  <2>1. TypeOK'
    BY <1>1, <1>2, <1>4, WriteFailsType DEF IInv, TypeOK
  <2>2. Busy' /\ NumbersHaveValues' /\ SavedSoFar'
    BY <1>2, <1>4 DEF IInv, Busy, NumbersHaveValues, SavedSoFar
  <2>3. Created' /\ EmptyIsBad'
    BY <1>1, <1>2, <1>4, WriteFailsType, MarkerFacts DEF IInv, Created, EmptyIsBad
  <2>4. Agree'
    BY <1>1, <1>2, <1>4, WriteFailsType DEF IInv, Agree
  <2> QED BY <2>1, <2>2, <2>3, <2>4 DEF IInv
<1> QED BY <1>3, <1>4 DEF StoreNew

LEMMA ReloadIInv == ASSUME IInv, Reload PROVE IInv'
<1>1. /\ pc = "reload" /\ pc' = "run" /\ reg \in Registers /\ new \in Values
      /\ flash[reg] = new
      /\ ram' = [ram EXCEPT ![reg] = new]
      /\ UNCHANGED <<idx, reg, new, flash, held, bad, budget>>
  BY DEF IInv, Busy, Reload, Loaded, change
<1>2. TypeOK'
  BY <1>1 DEF IInv, TypeOK
<1>3. Busy' /\ Created' /\ EmptyIsBad' /\ SavedSoFar'
  BY <1>1 DEF IInv, Busy, Created, EmptyIsBad, SavedSoFar
<1>4. NumbersHaveValues'
  BY <1>1 DEF IInv, TypeOK, NumbersHaveValues
<1>5. Agree'
  BY <1>1 DEF IInv, TypeOK, Agree
<1> QED BY <1>2, <1>3, <1>4, <1>5 DEF IInv

LEMMA SetTracesIInv ==
    ASSUME IInv, NEW masks \in [Traces -> Values], SetTraces(masks)
    PROVE  IInv'
<1>1. /\ pc = "run" /\ UNCHANGED <<pc, idx, reg, new, flash, held, bad, budget>>
      /\ ram' = [r \in Registers |-> IF r \in Traces THEN masks[r] ELSE ram[r]]
  BY DEF SetTraces, change
<1>2. TypeOK'
  BY <1>1 DEF IInv, TypeOK
<1>3. Busy' /\ Created' /\ EmptyIsBad' /\ SavedSoFar'
  BY <1>1 DEF IInv, Busy, Created, EmptyIsBad, SavedSoFar
<1>4. NumbersHaveValues' /\ Agree'
  BY <1>1 DEF IInv, NumbersHaveValues, Agree
<1> QED BY <1>2, <1>3, <1>4 DEF IInv

LEMMA SaveTracesIInv == ASSUME IInv, SaveTraces PROVE IInv'
<1>1. TypeOK'
  BY OrderFacts DEF IInv, SaveTraces, change, TypeOK
<1> QED
  BY <1>1 DEF IInv, SaveTraces, change, Busy, NumbersHaveValues, Created, EmptyIsBad,
              Agree, SavedSoFar

LEMMA SaveTraceIInv == ASSUME IInv, SaveTrace PROVE IInv'
<1> DEFINE t == Order[idx]
<1>1. /\ pc = "save" /\ idx \in 1..Len(Order) /\ t \in Registers
      /\ UNCHANGED <<reg, new, ram, held>>
  BY OrderFacts DEF IInv, TypeOK, SaveTrace, change
<1>2. CASE t \notin Traces
  <2>1. idx' = idx + 1 /\ UNCHANGED <<pc, flash, bad, budget>>
    BY <1>2 DEF SaveTrace
  <2>2. TypeOK'
    BY <1>1, <2>1, OrderFacts DEF IInv, TypeOK
  <2>3. Busy' /\ NumbersHaveValues' /\ Created' /\ EmptyIsBad' /\ Agree'
    BY <1>1, <2>1 DEF IInv, Busy, NumbersHaveValues, Created, EmptyIsBad, Agree
  <2>4. SavedSoFar'
    BY <1>1, <1>2, <2>1 DEF IInv, SavedSoFar
  <2> QED BY <2>2, <2>3, <2>4 DEF IInv
<1>3. CASE t \in Traces /\ Written(t, ram[t]) /\ idx' = idx + 1 /\ UNCHANGED pc
  <2>1. ram[t] \in Values
    BY <1>3, OrderFacts DEF IInv, NumbersHaveValues
  <2>2. /\ flash' \in [Registers -> Values \cup {Absent, Empty}]
        /\ flash'[t] = ram[t]
        /\ \A s \in Registers \ {t} : flash'[s] = flash[s]
        /\ bad' \subseteq Registers
        /\ bad \subseteq bad' \cup {t}
        /\ budget' \in 0..MaxFaults
    BY <1>1, <1>3, <2>1, WrittenType DEF IInv
  <2>3. TypeOK'
    BY <1>1, <1>3, <2>2, OrderFacts DEF IInv, TypeOK
  <2>4. Busy' /\ NumbersHaveValues'
    BY <1>1, <1>3 DEF IInv, Busy, NumbersHaveValues
  <2>5. Created' /\ EmptyIsBad'
    BY <1>1, <1>3, <2>1, <2>2, MarkerFacts DEF IInv, Created, EmptyIsBad
  <2>6. Agree'
    BY <1>1, <1>3, <2>1, <2>2 DEF IInv, Agree
  <2>7. SavedSoFar'
    <3> SUFFICES ASSUME NEW i \in 1..idx, Order[i] \in Traces
                 PROVE  flash'[Order[i]] = ram[Order[i]]
      BY <1>1, <1>3 DEF SavedSoFar
    <3>1. CASE Order[i] = t
      BY <3>1, <2>2
    <3>2. CASE Order[i] # t
      <4>1. i \in 1..(idx - 1) /\ Order[i] \in Registers
        BY <1>1, <3>2, OrderFacts
      <4> QED BY <1>1, <2>2, <3>2, <4>1 DEF IInv, SavedSoFar
    <3> QED BY <3>1, <3>2
  <2> QED BY <2>3, <2>4, <2>5, <2>6, <2>7 DEF IInv
<1>4. CASE WriteFails(t) /\ pc' = "run" /\ UNCHANGED idx
  <2>1. TypeOK'
    BY <1>1, <1>4, WriteFailsType DEF IInv, TypeOK
  <2>2. Busy' /\ NumbersHaveValues' /\ SavedSoFar'
    BY <1>1, <1>4 DEF IInv, Busy, NumbersHaveValues, SavedSoFar
  <2>3. Created' /\ EmptyIsBad'
    BY <1>1, <1>4, WriteFailsType DEF IInv, Created, EmptyIsBad
  <2>4. Agree'
    BY <1>1, <1>4, WriteFailsType DEF IInv, Agree
  <2> QED BY <2>1, <2>2, <2>3, <2>4 DEF IInv
<1> QED BY <1>2, <1>3, <1>4 DEF SaveTrace

LEMMA SaveEndIInv == ASSUME IInv, SaveEnd PROVE IInv'
<1>1. TypeOK'
  BY DEF IInv, SaveEnd, change, TypeOK
<1> QED
  BY <1>1 DEF IInv, SaveEnd, change, Busy, NumbersHaveValues, Created, EmptyIsBad,
              Agree, SavedSoFar

\* However the power goes, what is left is flash and the list of what went wrong.
LEMMA LoseIInv ==
    ASSUME IInv, NEW f, Lose(f),
           flash' \in [Registers -> Values \cup {Absent, Empty}],
           bad' \subseteq Registers,
           \A r \in Registers \ bad' : flash'[r] # Empty
    PROVE  IInv'
<1>1. /\ pc' = "off" /\ ram' = Cold /\ held' = [k \in Keys |-> "none"]
      /\ UNCHANGED <<idx, reg, new>>
  BY DEF Lose, change
<1>2. budget' \in 0..MaxFaults
  BY SpendType DEF IInv, Lose
<1>3. TypeOK'
  BY <1>1, <1>2, ColdType DEF IInv, TypeOK
<1>4. Busy' /\ Created' /\ Agree' /\ SavedSoFar'
  BY <1>1 DEF Busy, Created, Agree, SavedSoFar
<1>5. NumbersHaveValues' /\ EmptyIsBad'
  BY <1>1, ColdType DEF NumbersHaveValues, EmptyIsBad
<1> QED BY <1>3, <1>4, <1>5 DEF IInv

LEMMA PowerLossIInv == ASSUME IInv, PowerLoss PROVE IInv'
<1>1. pc = "default" => Order[idx] \in Registers
  BY OrderFacts DEF IInv, TypeOK, Busy
<1>2. bad' \subseteq Registers
  BY <1>1 DEF IInv, TypeOK, PowerLoss
<1>3. flash' = flash /\ \A r \in Registers \ bad' : flash[r] # Empty
  BY DEF IInv, EmptyIsBad, PowerLoss
<1> QED BY <1>2, <1>3, LoseIInv DEF PowerLoss, IInv, TypeOK

LEMMA TornWriteIInv ==
    ASSUME IInv, NEW r \in Registers, TornWrite(r)
    PROVE  IInv'
<1>1. pc \in {"store", "save"} /\ bad' = bad \cup {r} /\ flash' = [flash EXCEPT ![r] = Empty]
  BY DEF TornWrite
<1>2. flash' \in [Registers -> Values \cup {Absent, Empty}] /\ bad' \subseteq Registers
  BY <1>1 DEF IInv, TypeOK
<1>3. \A s \in Registers \ bad' : flash'[s] # Empty
  BY <1>1 DEF IInv, TypeOK, EmptyIsBad
<1> QED BY <1>2, <1>3, LoseIInv DEF TornWrite

LEMMA NextIInv == IInv /\ [Next]_vars => IInv'
<1> SUFFICES ASSUME IInv, [Next]_vars PROVE IInv'
  OBVIOUS
<1>1. CASE UNCHANGED vars
  <2>1. TypeOK'
    BY <1>1 DEF vars, change, IInv, TypeOK
  <2> QED
    BY <1>1, <2>1 DEF vars, change, IInv, Busy, NumbersHaveValues, Created, EmptyIsBad,
                      Agree, SavedSoFar
<1>2. CASE PowerOn \/ Subscribe \/ StoreDefault \/ LoadAll \/ StartConsole
  BY <1>2, PowerOnIInv, SubscribeIInv, StoreDefaultIInv, LoadAllIInv, StartConsoleIInv
<1>3. ASSUME NEW r \in Registers, RestoreDefault(r) \/ \E v \in Values : Change(r, v)
      PROVE  IInv'
  BY <1>3, ChangeIInv, MarkerFacts DEF RestoreDefault
<1>4. CASE StoreNew \/ Reload
  BY <1>4, StoreNewIInv, ReloadIInv
<1>5. ASSUME NEW masks \in [Traces -> Values], SetTraces(masks) PROVE IInv'
  BY <1>5, SetTracesIInv
<1>6. CASE SaveTraces \/ SaveTrace \/ SaveEnd
  BY <1>6, SaveTracesIInv, SaveTraceIInv, SaveEndIInv
<1>7. CASE PowerLoss
  BY <1>7, PowerLossIInv
<1>8. ASSUME NEW r \in Registers, TornWrite(r) PROVE IInv'
  BY <1>8, TornWriteIInv
<1> QED
  BY <1>1, <1>2, <1>3, <1>4, <1>5, <1>6, <1>7, <1>8 DEF Next

------------------------------------------------------------------------------
(* The theorems.                                                                *)

\* The inductive invariant holds, for any number of registers and of faults.
THEOREM Invariant == Spec => []IInv
BY InitIInv, NextIInv, PTL DEF Spec

\* Every variable keeps its type: in particular nothing but a value is ever
\* written to flash, not the NULL or the released pointer a string may be.
THEOREM TypeCorrect == Spec => []TypeOK
<1>1. IInv => TypeOK
  BY DEF IInv
<1> QED BY <1>1, Invariant, PTL

\* Whenever the next handler can run, the settings whose own last write went well
\* are usable and the same in memory and in flash (Settled).
THEOREM SettingsSettled == Spec => []Settled
<1>1. IInv => Settled
  BY DEF IInv, Agree, Settled
<1> QED BY <1>1, Invariant, PTL

\* ve_traceLevelsStore that runs to its end has saved every mask (MasksSaved).
THEOREM SaveIsComplete == Spec => MasksSaved
<1>1. IInv /\ SaveEnd => \A t \in Traces : flash[t] = ram[t]
  <2> SUFFICES ASSUME IInv, SaveEnd, NEW t \in Traces PROVE flash[t] = ram[t]
    OBVIOUS
  <2>1. PICK i \in 1..Len(Order) : t = Order[i]
    BY OrderFacts
  <2>2. i \in 1..(idx - 1)
    BY OrderFacts DEF IInv, TypeOK, SaveEnd
  <2> QED BY <2>1, <2>2 DEF IInv, SavedSoFar, SaveEnd
<1>2. IInv /\ [Next]_vars => [SaveEnd => \A t \in Traces : flash[t] = ram[t]]_vars
  BY <1>1
<1> QED BY <1>2, Invariant, PTL DEF Spec, MasksSaved

------------------------------------------------------------------------------
(* The invariant of the commands.                                                *)

\* Where the program can be while a command runs, and while none does.
Phase ==
    /\ pc \in {"off", "subscribe", "default"} => at = "idle" /\ outcome = "none"
    /\ at = "idle" => pc \notin {"store", "reload", "save"}
    /\ at = "handler" => pc = "run"
    /\ at = "change" => /\ pc \in {"run", "store", "reload"}
                        /\ cmd.action \in {"set", "restore"}
    /\ at = "store" => pc \in {"run", "save"} /\ cmd.action = "store"
    /\ at # "idle" \/ outcome = "local" => cmd \in Commands /\ WellFormed(cmd)

\* While a command runs it has an owner, and has sent nothing terminal.
Responding ==
    at # "idle" => /\ handler
                   /\ outcome = "none"
                   /\ \A i \in 1..Len(replies) : replies[i] = "line"

\* The loops stay in the range of the command.
InRange ==
    at # "idle" => /\ regId \in First(cmd)..(Final(cmd) + 1)
                   /\ cmd.action = "set" => regId = cmd.from
                   /\ at = "change" => regId <= Final(cmd)

\* dev_regChange does what it was called for, and its result tells.
Changing ==
    at = "change" =>
        /\ reg = Order[regId]
        /\ new = IF cmd.action = "set" THEN cmd.value ELSE Default
        /\ pc = "run" /\ (result \/ reg \notin bad) => ram[reg] = new /\ flash[reg] = new

RestoredSoFar ==
    at # "idle" /\ cmd.action = "restore" =>
        \A i \in First(cmd)..(regId - 1) :
            Order[i] \notin bad => ram[Order[i]] = Default /\ flash[Order[i]] = Default

CInv ==
    /\ IInv
    /\ CmdTypeOK
    /\ Phase
    /\ Responding
    /\ InRange
    /\ Changing
    /\ RestoredSoFar
    /\ OneTerminalResponse
    /\ OkMeansDone

------------------------------------------------------------------------------
(* Facts about commands and responses.                                           *)

Responses == {"line", "ok", "error"}

LEMMA CommandFacts ==
    ASSUME cmd \in Commands, WellFormed(cmd)
    PROVE  /\ First(cmd) \in Positions /\ Final(cmd) \in Positions
           /\ cmd.from \in Positions /\ First(cmd) <= Final(cmd)
           /\ cmd.action = "set" => First(cmd) = cmd.from /\ Final(cmd) = cmd.from
           /\ cmd.action = "set" /\ cmd.value # Unparsable => cmd.value \in Values
           /\ cmd # None
BY OrderFacts, CommandsAssumption DEF Commands, WellFormed, First, Final, Positions

\* What a busy state knows of its command and its position.
LEMMA BusyFacts ==
    ASSUME CInv, at # "idle"
    PROVE  /\ cmd \in Commands /\ WellFormed(cmd)
           /\ First(cmd) \in Positions /\ Final(cmd) \in Positions
           /\ regId \in Nat /\ First(cmd) <= regId
           /\ regId <= Final(cmd) => regId \in Positions /\ Order[regId] \in Registers
           /\ cmd.action = "set" => regId \in Positions /\ Order[regId] \in Registers
<1>1. cmd \in Commands /\ WellFormed(cmd)
  BY DEF CInv, Phase
<1>2. /\ First(cmd) \in Positions /\ Final(cmd) \in Positions /\ cmd.from \in Positions
  BY <1>1, CommandFacts
<1>3. regId \in First(cmd)..(Final(cmd) + 1) /\ (cmd.action = "set" => regId = cmd.from)
  BY DEF CInv, InRange
<1> QED BY <1>1, <1>2, <1>3, OrderFacts DEF Positions

\* The responses after ve_atForwardResponse has passed some on to their owner.
LEMMA RespondFacts ==
    ASSUME CInv, at # "idle", NEW lines \in Seq(Responses), Respond(lines)
    PROVE  /\ replies' \in Seq(Responses)
           /\ Len(replies') = Len(replies) + Len(lines)
           /\ \A i \in 1..Len(replies) : replies'[i] = "line"
           /\ \A i \in 1..Len(lines) : replies'[Len(replies) + i] = lines[i]
           /\ handler' = \A i \in 1..Len(lines) : lines[i] = "line"
<1>1. handler = TRUE /\ \A i \in 1..Len(replies) : replies[i] = "line"
  BY DEF CInv, Responding, CmdTypeOK
<1>2. replies \in Seq(Responses)
  BY DEF CInv, CmdTypeOK, Responses
<1>3. replies' = replies \o lines
  BY <1>1 DEF Respond
<1>4. /\ replies \o lines \in Seq(Responses)
      /\ Len(replies \o lines) = Len(replies) + Len(lines)
      /\ \A i \in 1..(Len(replies) + Len(lines)) :
            (replies \o lines)[i] = IF i <= Len(replies) THEN replies[i]
                                    ELSE lines[i - Len(replies)]
  BY <1>2, ConcatProperties
<1>5. \A i \in 1..Len(replies) : replies'[i] = "line"
  BY <1>1, <1>2, <1>3, <1>4
<1>6. \A i \in 1..Len(lines) : replies'[Len(replies) + i] = lines[i]
  BY <1>2, <1>3, <1>4
<1>7. handler' = \A i \in 1..Len(lines) : lines[i] = "line"
  BY <1>1 DEF Respond
<1> QED BY <1>3, <1>4, <1>5, <1>6, <1>7

\* The arithmetic of a response of one or two lines after n others.
LEMMA LastButOne ==
    ASSUME NEW n \in Nat, NEW m, m = n + 1 \/ m = n + 2, NEW k \in {1, 2}, m = n + k,
           NEW i \in 1..m, i > n, i # m
    PROVE  k = 2 /\ i = n + 1
<1>1. m \in Nat
  OBVIOUS
<1>2. i \in Nat /\ i <= m
  BY <1>1
<1> QED BY <1>2

LastWords == {<<"ok">>, <<"error">>, <<"line", "error">>}

\* A command that ends has sent one terminal response, its last.
LEMMA FinishFacts ==
    ASSUME CInv, at # "idle", NEW lines \in LastWords, Finish(lines)
    PROVE  /\ replies' \in Seq(Responses) /\ handler' = FALSE
           /\ at' = "idle" /\ outcome' = "local" /\ UNCHANGED <<cmd, regId, result>>
           /\ replies'[Len(replies')] = "ok" <=> lines = <<"ok">>
           /\ OneTerminalResponse'
<1>1. /\ lines \in Seq(Responses) /\ (Len(lines) = 1 \/ Len(lines) = 2)
      /\ lines[Len(lines)] = "ok" \/ lines[Len(lines)] = "error"
      /\ lines[Len(lines)] = "ok" <=> lines = <<"ok">>
      /\ Len(lines) = 2 => lines[1] = "line"
  <2>1. CASE lines = <<"ok">>
    BY <2>1 DEF Responses
  <2>2. CASE lines = <<"error">>
    <3>1. Len(lines) = 1 /\ lines[1] = "error" /\ lines \in Seq(Responses)
      BY <2>2 DEF Responses
    <3>2. lines # <<"ok">>
      BY <3>1
    <3> QED BY <3>1, <3>2
  <2>3. CASE lines = <<"line", "error">>
    <3>1. /\ Len(lines) = 2 /\ lines[1] = "line" /\ lines[2] = "error"
          /\ lines \in Seq(Responses)
      BY <2>3 DEF Responses
    <3>2. lines # <<"ok">>
      BY <3>1
    <3> QED BY <3>1, <3>2
  <2> QED BY <2>1, <2>2, <2>3 DEF LastWords
<1>2. Respond(lines) /\ at' = "idle" /\ outcome' = "local" /\ UNCHANGED <<cmd, regId, result>>
  BY DEF Finish
<1>3. /\ replies' \in Seq(Responses)
      /\ Len(replies') = Len(replies) + Len(lines)
      /\ \A i \in 1..Len(replies) : replies'[i] = "line"
      /\ \A i \in 1..Len(lines) : replies'[Len(replies) + i] = lines[i]
      /\ handler' = \A i \in 1..Len(lines) : lines[i] = "line"
  BY <1>1, <1>2, RespondFacts
<1>4. Len(replies) \in Nat
  BY DEF CInv, CmdTypeOK
<1>5. replies'[Len(replies')] = lines[Len(lines)]
  <2>1. Len(lines) \in 1..Len(lines)
    BY <1>1
  <2> QED BY <2>1, <1>3
<1>6. handler' = FALSE
  <2>1. Len(lines) \in 1..Len(lines) /\ lines[Len(lines)] # "line"
    BY <1>1
  <2> QED BY <2>1, <1>3
<1>7. \A i \in 1..Len(replies') : Terminal(replies'[i]) <=> i = Len(replies')
  <2> SUFFICES ASSUME NEW i \in 1..Len(replies')
               PROVE  Terminal(replies'[i]) <=> i = Len(replies')
    OBVIOUS
  <2>1. CASE i = Len(replies')
    BY <2>1, <1>1, <1>5 DEF Terminal
  <2>2. CASE i # Len(replies')
    <3>1. replies'[i] = "line"
      <4>1. CASE i <= Len(replies)
        BY <4>1, <1>3, <1>4
      <4>2. CASE i > Len(replies)
        <5>1. Len(lines) = 2 /\ i = Len(replies) + 1
          BY <1>1, <1>3, <1>4, <2>2, <4>2, LastButOne
        <5> QED BY <5>1, <1>1, <1>3
      <4> QED BY <4>1, <4>2, <1>4, <1>3
    <3> QED BY <3>1, <2>2 DEF Terminal
  <2> QED BY <2>1, <2>2
<1>8. replies' # <<>>
  BY <1>1, <1>3, <1>4
<1> QED BY <1>1, <1>2, <1>3, <1>5, <1>6, <1>7, <1>8 DEF OneTerminalResponse

\* So a handler that ends keeps the invariant if its answer is true.
LEMMA Finishing ==
    ASSUME CInv, IInv', at # "idle", pc' = "run", NEW lines \in LastWords, Finish(lines),
           OkMeansDone'
    PROVE  CInv'
<1>1. /\ replies' \in Seq(Responses) /\ handler' = FALSE
      /\ at' = "idle" /\ outcome' = "local" /\ UNCHANGED <<cmd, regId, result>>
      /\ OneTerminalResponse'
  BY FinishFacts
<1>2. CmdTypeOK'
  BY <1>1 DEF CInv, CmdTypeOK, IInv, Responses
<1>3. Phase'
  BY <1>1, BusyFacts DEF Phase, WellFormed
<1>4. Responding' /\ InRange' /\ Changing' /\ RestoredSoFar'
  BY <1>1 DEF Responding, InRange, Changing, RestoredSoFar
<1> QED BY <1>1, <1>2, <1>3, <1>4 DEF CInv

------------------------------------------------------------------------------
(* Every step is one of DevReg.                                                  *)

LEMMA StepImplements ==
    ASSUME CInv, CmdNext
    PROVE  [Next]_vars
<1>1. CASE SetRegister
  <2>1. at # "idle" /\ cmd.action = "set" /\ cmd.value # Unparsable
    BY <1>1 DEF SetRegister, Handling
  <2>2. Order[regId] \in Registers /\ cmd.value \in Values
    BY <2>1, BusyFacts, CommandFacts
  <2> QED BY <1>1, <2>2 DEF SetRegister, Next
<1>2. CASE RestoreRegister
  <2>1. at # "idle" /\ regId <= Final(cmd)
    BY <1>2 DEF RestoreRegister, Handling
  <2>2. Order[regId] \in Registers
    BY <2>1, BusyFacts
  <2> QED BY <1>2, <2>2 DEF RestoreRegister, Next
<1>3. ASSUME NEW masks \in [Traces -> Values], SetLevels(masks) PROVE Next
  BY <1>3 DEF SetLevels, Next
<1>4. CASE \/ ChangeGoesOn \/ StoreLevels \/ StoreGoesOn \/ Starting \/ StartingConsole
           \/ PoweredDown
  BY <1>4 DEF ChangeGoesOn, StoreLevels, StoreGoesOn, Starting, StartingConsole,
              PoweredDown, Next
<1>5. CASE \/ \E c \in Commands : WellFormed(c) /\ Send(c)
           \/ SendElsewhere \/ Refuse \/ List \/ ListEnd
           \/ SetEnd \/ RestoreNext \/ RestoreEnd \/ StoreEnd \/ WipDump
  BY <1>5 DEF Send, SendElsewhere, Refuse, List, ListEnd, SetEnd, RestoreNext,
              RestoreEnd, StoreEnd, WipDump
<1> QED BY <1>1, <1>2, <1>3, <1>4, <1>5 DEF CmdNext

------------------------------------------------------------------------------
(* Every step preserves the invariant.                                           *)

\* A step that leaves the settings alone leaves their invariant alone.
LEMMA SettingsKept ==
    ASSUME IInv, UNCHANGED vars
    PROVE  IInv'
BY NextIInv

LEMMA SendCInv ==
    ASSUME CInv, NEW c \in Commands, WellFormed(c), Send(c)
    PROVE  CInv'
<1>1. /\ pc = "run" /\ at' = "handler" /\ cmd' = c /\ regId' = First(c) /\ result' = FALSE
      /\ handler' = TRUE /\ outcome' = "none" /\ replies' = <<>> /\ UNCHANGED vars
  BY DEF Send
<1>2. IInv'
  BY <1>1, SettingsKept DEF CInv
<1>3. /\ First(c) \in Positions /\ Final(c) \in Positions /\ First(c) <= Final(c)
      /\ c.action = "set" => First(c) = c.from
  BY OrderFacts DEF Commands, WellFormed, First, Final, Positions
<1>4. CmdTypeOK'
  <2>1. TypeOK' /\ at' \in {"idle", "handler", "change", "store"} /\ cmd' \in Commands
    BY <1>1, <1>2 DEF IInv
  <2>2. regId' \in 1..(Len(Order) + 1)
    BY <1>1, <1>3, OrderFacts DEF Positions
  <2>3. result' \in BOOLEAN /\ handler' \in BOOLEAN
    BY <1>1
  <2>4. outcome' = "none" /\ replies' \in Seq({"line", "ok", "error"})
    BY <1>1
  <2> QED BY <2>1, <2>2, <2>3, <2>4 DEF CmdTypeOK
<1>5. Phase'
  BY <1>1 DEF vars, Phase, WellFormed
<1>6. Responding'
  BY <1>1 DEF Responding
<1>7. InRange'
  BY <1>1, <1>3, OrderFacts DEF InRange, First, Final, Positions
<1>8. Changing' /\ OneTerminalResponse' /\ OkMeansDone'
  BY <1>1 DEF Changing, OneTerminalResponse, OkMeansDone, Answered
<1>9. RestoredSoFar'
  BY <1>1, <1>3, OrderFacts DEF RestoredSoFar, First, Positions
<1> QED BY <1>2, <1>4, <1>5, <1>6, <1>7, <1>8, <1>9 DEF CInv

LEMMA SendElsewhereCInv == ASSUME CInv, SendElsewhere PROVE CInv'
<1>1. /\ pc = "run" /\ at = "idle" /\ outcome' \in {"modem", "error"} /\ cmd' = None
      /\ handler' = FALSE /\ replies' = <<>> /\ UNCHANGED <<vars, at, regId, result>>
  BY DEF SendElsewhere
<1>2. IInv'
  BY <1>1, SettingsKept DEF CInv
<1>3. CmdTypeOK'
  <2>1. /\ TypeOK' /\ at' = "idle" /\ cmd' = None /\ outcome' \in {"modem", "error"}
        /\ regId' \in 1..(Len(Order) + 1)
    BY <1>1, <1>2 DEF CInv, CmdTypeOK, IInv
  <2>2. result' \in BOOLEAN /\ handler' \in BOOLEAN
    BY <1>1 DEF CInv, CmdTypeOK
  <2>3. replies' \in Seq({"line", "ok", "error"})
    BY <1>1
  <2> QED BY <2>1, <2>2, <2>3 DEF CmdTypeOK
<1>4. Phase'
  BY <1>1 DEF vars, Phase
<1>5. Responding' /\ InRange' /\ Changing' /\ RestoredSoFar'
  BY <1>1 DEF Responding, InRange, Changing, RestoredSoFar
<1>6. OneTerminalResponse' /\ OkMeansDone'
  BY <1>1 DEF OneTerminalResponse, OkMeansDone, Answered
<1> QED BY <1>2, <1>3, <1>4, <1>5, <1>6 DEF CInv

\* An answer other than OK, or to a command that changes no register, claims nothing.
LEMMA ClaimsNothing ==
    ASSUME CInv, at # "idle", NEW lines \in LastWords, Finish(lines),
           lines = <<"ok">> => cmd.action \notin {"set", "restore"}
    PROVE  OkMeansDone'
BY FinishFacts DEF OkMeansDone, Answered

\* The handlers that touch no register.
LEMMA SimpleCInv ==
    ASSUME CInv, Refuse \/ ListEnd \/ StoreEnd \/ WipDump
    PROVE  CInv'
<1>1. at # "idle" /\ pc = "run" /\ UNCHANGED vars
  BY DEF Refuse, ListEnd, StoreEnd, WipDump, Handling
<1>2. IInv' /\ pc' = "run"
  BY <1>1, SettingsKept DEF CInv, vars
<1>3. \E lines \in LastWords : /\ Finish(lines)
                               /\ lines = <<"ok">> => cmd.action \notin {"set", "restore"}
  <2>1. CASE Refuse
    <3>1. \E lines \in {<<"error">>, <<"line", "error">>} : Finish(lines)
      BY <2>1 DEF Refuse
    <3>2. <<"error">> # <<"ok">> /\ <<"line", "error">> # <<"ok">>
      <4>1. <<"error">>[1] # <<"ok">>[1] /\ <<"line", "error">>[1] # <<"ok">>[1]
        OBVIOUS
      <4> QED BY <4>1
    <3> QED BY <3>1, <3>2 DEF LastWords
  <2>2. CASE ListEnd \/ WipDump
    BY <2>2 DEF ListEnd, WipDump, Handling, LastWords
  <2>3. CASE StoreEnd
    <3>1. at = "store" /\ Finish(<<"ok">>)
      BY <2>3 DEF StoreEnd
    <3>2. cmd.action \notin {"set", "restore"}
      BY <3>1 DEF CInv, Phase
    <3> QED BY <3>1, <3>2 DEF LastWords
  <2> QED BY <2>1, <2>2, <2>3
<1> QED BY <1>1, <1>2, <1>3, ClaimsNothing, Finishing

LEMMA SetLevelsCInv ==
    ASSUME CInv, NEW masks \in [Traces -> Values], SetLevels(masks)
    PROVE  CInv'
<1>1. at # "idle" /\ pc = "run" /\ pc' = "run" /\ cmd.action = "levels"
      /\ Finish(<<"ok">>) /\ SetTraces(masks)
  BY DEF SetLevels, SetTraces, Handling
<1>2. IInv'
  BY <1>1, SetTracesIInv DEF CInv
<1> QED BY <1>1, <1>2, ClaimsNothing, Finishing DEF LastWords

\* A step inside a handler, which is not its last.
LEMMA GoesOn ==
    ASSUME CInv, IInv', at # "idle", at' \in {"handler", "change", "store"},
           UNCHANGED <<cmd, outcome, handler>>, result' \in BOOLEAN,
           replies' \in Seq(Responses), \A i \in 1..Len(replies') : replies'[i] = "line",
           Phase', InRange', Changing', RestoredSoFar'
    PROVE  CInv'
<1>1. regId' \in 1..(Len(Order) + 1)
  BY BusyFacts, OrderFacts DEF InRange, First, Final, Positions
<1>2. CmdTypeOK'
  <2>1. /\ TypeOK' /\ at' \in {"idle", "handler", "change", "store"}
        /\ cmd' \in Commands \cup {None} /\ outcome' \in {"none", "local", "modem", "error"}
        /\ replies' \in Seq({"line", "ok", "error"})
    BY DEF CInv, CmdTypeOK, IInv, Responses
  <2>2. handler' \in BOOLEAN
    BY DEF CInv, CmdTypeOK
  <2> QED BY <1>1, <2>1, <2>2 DEF CmdTypeOK
<1>3. Responding'
  <2>1. handler
    BY DEF CInv, Responding
  <2>2. outcome' = "none"
    BY DEF CInv, Responding
  <2> QED BY <2>1, <2>2 DEF Responding
<1>4. OneTerminalResponse' /\ OkMeansDone'
  BY DEF OneTerminalResponse, OkMeansDone, Answered
<1> QED BY <1>2, <1>3, <1>4 DEF CInv

\* Most of them send nothing.
LEMMA GoesOnSilently ==
    ASSUME CInv, IInv', at # "idle", at' \in {"handler", "change", "store"},
           UNCHANGED <<cmd, outcome, handler, replies>>, result' \in BOOLEAN,
           Phase', InRange', Changing', RestoredSoFar'
    PROVE  CInv'
<1>1. replies' \in Seq(Responses) /\ \A i \in 1..Len(replies') : replies'[i] = "line"
  BY DEF CInv, CmdTypeOK, Responding, Responses
<1> QED BY <1>1, GoesOn

LEMMA ListCInv == ASSUME CInv, List PROVE CInv'
<1>1. /\ at = "handler" /\ cmd.action = "list" /\ regId <= Final(cmd) /\ regId' = regId + 1
      /\ Respond(<<"line">>) /\ UNCHANGED <<at, cmd, result, outcome>> /\ UNCHANGED vars
  BY DEF List, Handling
<1>2. IInv'
  BY <1>1, SettingsKept DEF CInv
<1>3. /\ replies' \in Seq(Responses) /\ Len(replies') = Len(replies) + 1
      /\ \A i \in 1..Len(replies) : replies'[i] = "line"
      /\ replies'[Len(replies) + 1] = "line"
      /\ handler' = TRUE
  <2>1. <<"line">> \in Seq(Responses) /\ Len(<<"line">>) = 1 /\ <<"line">>[1] = "line"
    BY DEF Responses
  <2> DEFINE lines == <<"line">>
  <2>2. lines \in Seq(Responses) /\ Len(lines) = 1 /\ lines[1] = "line" /\ Respond(lines)
    BY <1>1, <2>1
  <2> HIDE DEF lines
  <2>3. /\ replies' \in Seq(Responses) /\ Len(replies') = Len(replies) + Len(lines)
        /\ \A i \in 1..Len(replies) : replies'[i] = "line"
        /\ \A i \in 1..Len(lines) : replies'[Len(replies) + i] = lines[i]
        /\ handler' = \A i \in 1..Len(lines) : lines[i] = "line"
    BY <1>1, <2>2, RespondFacts
  <2>4. \A i \in 1..Len(lines) : lines[i] = "line"
    BY <2>2
  <2>5. replies'[Len(replies) + 1] = "line"
    BY <2>2, <2>3
  <2> QED BY <2>2, <2>3, <2>4, <2>5
<1>4. Len(replies) \in Nat
  BY DEF CInv, CmdTypeOK
<1>5. \A i \in 1..Len(replies') : replies'[i] = "line"
  BY <1>3, <1>4
<1>6. handler' = handler
  BY <1>1, <1>3 DEF CInv, Responding, CmdTypeOK
<1>7. result' \in BOOLEAN
  BY <1>1 DEF CInv, CmdTypeOK
<1>8. Phase'
  BY <1>1 DEF CInv, Phase, vars, WellFormed
<1>9. InRange'
  BY <1>1, BusyFacts DEF InRange, First, Final, Positions
<1>10. Changing' /\ RestoredSoFar'
  BY <1>1 DEF Changing, RestoredSoFar
<1> QED BY <1>1, <1>2, <1>3, <1>5, <1>6, <1>7, <1>8, <1>9, <1>10, GoesOn

LEMMA SetRegisterCInv == ASSUME CInv, SetRegister PROVE CInv'
<1>1. /\ at = "handler" /\ cmd.action = "set" /\ cmd.value # Unparsable
      /\ pc = "run" /\ pc' = "store" /\ reg' = Order[regId] /\ new' = cmd.value
      /\ at' = "change" /\ UNCHANGED <<cmd, regId, result, handler, outcome, replies>>
  BY DEF SetRegister, Handling, Change
<1>2. IInv'
  <2>1. Order[regId] \in Registers /\ cmd.value \in Values
    BY <1>1, BusyFacts, CommandFacts
  <2>2. Change(Order[regId], cmd.value)
    BY DEF SetRegister
  <2> QED BY <2>1, <2>2, ChangeIInv DEF CInv
<1>3. result' \in BOOLEAN
  BY <1>1 DEF CInv, CmdTypeOK
<1>4. Phase'
  BY <1>1 DEF CInv, Phase, WellFormed
<1>5. InRange'
  BY <1>1, BusyFacts DEF CInv, InRange, WellFormed, First, Final, Positions
<1>6. Changing' /\ RestoredSoFar'
  BY <1>1 DEF Changing, RestoredSoFar
<1> QED BY <1>1, <1>2, <1>3, <1>4, <1>5, <1>6, GoesOnSilently

\* What dev_regChange leaves alone.
LEMMA OthersRestored ==
    ASSUME CInv, at # "idle", cmd.action = "restore", regId <= Final(cmd),
           UNCHANGED <<cmd, regId>>,
           \A s \in Registers \ {Order[regId]} :
               /\ ram'[s] = ram[s] /\ flash'[s] = flash[s]
               /\ s \in bad <=> s \in bad'
    PROVE  RestoredSoFar'
<1> SUFFICES ASSUME NEW i \in First(cmd)..(regId - 1), Order[i] \notin bad'
             PROVE  ram'[Order[i]] = Default /\ flash'[Order[i]] = Default
  BY DEF RestoredSoFar, First
<1>1. /\ First(cmd) \in Positions /\ Final(cmd) \in Positions /\ regId \in Nat
      /\ regId \in Positions
  BY BusyFacts
<1>2. i \in 1..Len(Order) /\ regId \in 1..Len(Order) /\ i # regId
  BY <1>1, OrderFacts DEF Positions
<1>3. Order[i] \in Registers \ {Order[regId]}
  BY <1>2, RegistersAssumption, OrderFacts
<1> QED BY <1>3 DEF CInv, RestoredSoFar

LEMMA RestoreRegisterCInv == ASSUME CInv, RestoreRegister PROVE CInv'
<1>1. /\ at = "handler" /\ cmd.action = "restore" /\ regId <= Final(cmd)
      /\ pc = "run" /\ pc' = "store" /\ reg' = Order[regId] /\ new' = Default
      /\ at' = "change" /\ UNCHANGED <<cmd, regId, result, handler, outcome, replies>>
      /\ UNCHANGED <<flash, bad>>
  BY DEF RestoreRegister, Handling, RestoreDefault, Change
<1>2. IInv'
  <2>1. Order[regId] \in Registers
    BY <1>1, BusyFacts
  <2>2. Change(Order[regId], Default)
    BY DEF RestoreRegister, RestoreDefault
  <2> QED BY <2>1, <2>2, ChangeIInv, MarkerFacts DEF CInv
<1>3. result' \in BOOLEAN
  BY <1>1 DEF CInv, CmdTypeOK
<1>4. Phase'
  BY <1>1 DEF CInv, Phase, WellFormed
<1>5. InRange'
  BY <1>1, BusyFacts DEF CInv, InRange, WellFormed, First, Final, Positions
<1>6. Changing'
  BY <1>1 DEF Changing
<1>7. RestoredSoFar'
  <2>1. ram \in [Registers -> Values \cup {Nothing, Freed}]
    BY DEF CInv, IInv, TypeOK
  <2>2. \A s \in Registers \ {Order[regId]} : ram'[s] = ram[s]
    BY <2>1 DEF RestoreRegister, RestoreDefault, Change
  <2> QED BY <1>1, <2>2, OthersRestored
<1> QED BY <1>1, <1>2, <1>3, <1>4, <1>5, <1>6, <1>7, GoesOnSilently

LEMMA ChangeGoesOnCInv == ASSUME CInv, ChangeGoesOn PROVE CInv'
<1>1. /\ at = "change" /\ (StoreNew \/ Reload)
      /\ UNCHANGED <<at, cmd, regId, handler, outcome, replies>>
  BY DEF ChangeGoesOn
<1>2. /\ cmd.action \in {"set", "restore"} /\ regId <= Final(cmd)
      /\ reg = Order[regId] /\ new = IF cmd.action = "set" THEN cmd.value ELSE Default
  BY <1>1 DEF CInv, Phase, InRange, Changing
<1>3. IInv'
  BY <1>1, StoreNewIInv, ReloadIInv DEF CInv
<1>4. /\ reg \in Registers /\ new \in Values /\ UNCHANGED <<reg, new>>
      /\ pc' \in {"run", "reload"}
  BY <1>1 DEF CInv, IInv, Busy, StoreNew, Reload, change
<1>5. TypeOK
  BY DEF CInv, IInv
<1>6. /\ \A s \in Registers \ {reg} : /\ ram'[s] = ram[s] /\ flash'[s] = flash[s]
                                      /\ s \in bad <=> s \in bad'
      /\ pc' = "run" /\ (result' \/ reg \notin bad') => ram'[reg] = new /\ flash'[reg] = new
  <2>1. CASE StoreNew /\ Written(reg, new)
    <3>1. pc' = "reload" /\ UNCHANGED ram
      <4>1. pc = "store"
        BY <2>1 DEF StoreNew
      <4>2. CASE WriteFails(reg) /\ pc' = "run"
        <5>1. reg \in bad' /\ reg \notin bad'
          BY <2>1, <4>2 DEF Written, WriteFails
        <5> QED BY <5>1
      <4> QED BY <2>1, <4>2 DEF StoreNew
    <3> QED BY <2>1, <3>1, <1>5 DEF Written, TypeOK
  <2>2. CASE StoreNew /\ WriteFails(reg) /\ pc' = "run"
    <3>1. UNCHANGED ram /\ pc = "store" /\ ~result'
      BY <2>2 DEF ChangeGoesOn, StoreNew
    <3>2. reg \in bad'
      BY <2>2 DEF WriteFails
    <3> QED BY <2>2, <3>1, <3>2, <1>5 DEF WriteFails, TypeOK
  <2>3. CASE Reload
    <3>1. UNCHANGED <<flash, bad>> /\ ram' = [ram EXCEPT ![reg] = Loaded(reg)] /\ flash[reg] = new
      BY <2>3 DEF CInv, IInv, Busy, Reload
    <3>2. Loaded(reg) = new
      BY <3>1, <1>4 DEF Loaded
    <3> QED BY <3>1, <3>2, <1>4, <1>5 DEF TypeOK
  <2> QED BY <1>1, <2>1, <2>2, <2>3 DEF StoreNew
<1>7. result' \in BOOLEAN
  BY DEF ChangeGoesOn
<1>8. Phase'
  BY <1>1, <1>2, <1>4 DEF CInv, Phase, WellFormed
<1>9. InRange'
  BY <1>1, BusyFacts DEF CInv, InRange, WellFormed, First, Final, Positions
<1>10. Changing'
  BY <1>1, <1>2, <1>4, <1>6 DEF Changing
<1>11. RestoredSoFar'
  <2>1. CASE cmd.action = "restore"
    BY <1>1, <1>2, <1>6, <2>1, OthersRestored
  <2>2. CASE cmd.action # "restore"
    BY <1>1, <2>2 DEF RestoredSoFar
  <2> QED BY <2>1, <2>2
<1> QED BY <1>1, <1>3, <1>7, <1>8, <1>9, <1>10, <1>11, GoesOnSilently


LEMMA SetEndCInv == ASSUME CInv, SetEnd PROVE CInv'
<1>1. /\ at = "change" /\ pc = "run" /\ cmd.action = "set" /\ UNCHANGED vars
      /\ Finish(IF result THEN <<"ok">> ELSE <<"error">>)
  BY DEF SetEnd
<1>2. IInv' /\ pc' = "run"
  BY <1>1, SettingsKept DEF CInv, vars
<1>3. CASE result
  <2>1. Finish(<<"ok">>)
    BY <1>1, <1>3
  <2>2. /\ regId = cmd.from /\ reg = Order[regId] /\ new = cmd.value
        /\ ram[reg] = new /\ flash[reg] = new
    BY <1>1, <1>3 DEF CInv, InRange, Changing
  <2>3. OkMeansDone'
    BY <1>1, <2>1, <2>2 DEF OkMeansDone, Answered, Finish, vars
  <2> QED BY <1>1, <1>2, <2>1, <2>3, Finishing DEF LastWords
<1>4. CASE ~result
  <2>1. Finish(<<"error">>)
    BY <1>1, <1>4
  <2>2. <<"error">> # <<"ok">>
    <3>1. <<"error">>[1] # <<"ok">>[1]
      OBVIOUS
    <3> QED BY <3>1
  <2> QED BY <1>1, <1>2, <2>1, <2>2, ClaimsNothing, Finishing DEF LastWords
<1> QED BY <1>3, <1>4

LEMMA RestoreNextCInv == ASSUME CInv, RestoreNext PROVE CInv'
<1>1. /\ at = "change" /\ pc = "run" /\ cmd.action = "restore" /\ UNCHANGED vars
      /\ at' = "handler" /\ regId' = regId + 1
      /\ UNCHANGED <<cmd, result, handler, outcome, replies>>
  BY DEF RestoreNext
<1>2. IInv'
  BY <1>1, SettingsKept DEF CInv
<1>3. result' \in BOOLEAN
  BY <1>1 DEF CInv, CmdTypeOK
<1>4. Phase'
  BY <1>1 DEF CInv, Phase, vars, WellFormed
<1>5. regId <= Final(cmd)
  BY <1>1 DEF CInv, InRange
<1>6. InRange'
  BY <1>1, <1>5, BusyFacts DEF InRange, First, Final, Positions
<1>7. Changing'
  BY <1>1 DEF Changing
<1>8. RestoredSoFar'
  <2> SUFFICES ASSUME NEW i \in First(cmd)..regId, Order[i] \notin bad
               PROVE  ram[Order[i]] = Default /\ flash[Order[i]] = Default
    <3>1. regId \in Nat /\ First(cmd) \in Positions
      BY <1>1, BusyFacts
    <3>2. regId' - 1 = regId
      BY <3>1, <1>1
    <3> QED BY <3>2, <1>1 DEF RestoredSoFar, First, vars
  <2>1. regId \in Nat /\ First(cmd) \in Positions
    BY <1>1, BusyFacts
  <2>2. CASE i = regId
    BY <1>1, <2>2 DEF CInv, Changing
  <2>3. CASE i # regId
    <3>1. i \in First(cmd)..(regId - 1)
      BY <2>1, <2>3 DEF Positions
    <3> QED BY <1>1, <3>1 DEF CInv, RestoredSoFar
  <2> QED BY <2>2, <2>3
<1> QED BY <1>1, <1>2, <1>3, <1>4, <1>6, <1>7, <1>8, GoesOnSilently

LEMMA RestoreEndCInv == ASSUME CInv, RestoreEnd PROVE CInv'
<1>1. /\ at = "handler" /\ pc = "run" /\ cmd.action = "restore" /\ regId > Final(cmd)
      /\ UNCHANGED vars /\ Finish(<<"ok">>)
  BY DEF RestoreEnd, Handling
<1>2. IInv' /\ pc' = "run"
  BY <1>1, SettingsKept DEF CInv, vars
<1>3. \A i \in First(cmd)..Final(cmd) :
          Order[i] \notin bad => ram[Order[i]] = Default /\ flash[Order[i]] = Default
  <2> SUFFICES ASSUME NEW i \in First(cmd)..Final(cmd), Order[i] \notin bad
               PROVE  ram[Order[i]] = Default /\ flash[Order[i]] = Default
    OBVIOUS
  <2>1. regId \in Nat /\ First(cmd) \in Positions /\ Final(cmd) \in Positions
    BY <1>1, BusyFacts
  <2>2. i \in First(cmd)..(regId - 1)
    BY <2>1, <1>1 DEF Positions
  <2> QED BY <1>1, <2>2 DEF CInv, RestoredSoFar
<1>4. OkMeansDone'
  BY <1>1, <1>3 DEF OkMeansDone, Answered, Finish, First, Final, vars
<1> QED BY <1>1, <1>2, <1>4, Finishing DEF LastWords

\* ve_traceLevelsStore, called and under way.
LEMMA StoreLevelsCInv == ASSUME CInv, StoreLevels \/ StoreGoesOn PROVE CInv'
<1>1. /\ at # "idle" /\ at' = "store" /\ cmd.action = "store"
      /\ pc' \in {"run", "save"} /\ UNCHANGED <<cmd, regId, result, handler, outcome, replies>>
  BY DEF StoreLevels, StoreGoesOn, SaveTraces, SaveTrace, SaveEnd, Handling, CInv, Phase,
         cmdVars
<1>2. IInv'
  BY SaveTracesIInv, SaveTraceIInv, SaveEndIInv DEF StoreLevels, StoreGoesOn, CInv
<1>3. result' \in BOOLEAN
  BY <1>1 DEF CInv, CmdTypeOK
<1>4. Phase'
  BY <1>1 DEF CInv, Phase, WellFormed
<1>5. InRange'
  BY <1>1, BusyFacts DEF CInv, InRange, WellFormed, First, Final, Positions
<1>6. Changing' /\ RestoredSoFar'
  BY <1>1 DEF Changing, RestoredSoFar
<1> QED BY <1>1, <1>2, <1>3, <1>4, <1>5, <1>6, GoesOnSilently

\* Nothing has been sent before the first start is over, and the console starts
\* between two commands.
LEMMA StartingCInv == ASSUME CInv, Starting \/ StartingConsole PROVE CInv'
<1>1. at = "idle" /\ UNCHANGED cmdVars
  BY DEF CInv, Phase, Starting, StartingConsole, PowerOn, Subscribe, StoreDefault, LoadAll
<1>2. IInv'
  BY PowerOnIInv, SubscribeIInv, StoreDefaultIInv, LoadAllIInv, StartConsoleIInv
     DEF CInv, Starting, StartingConsole
<1>3. CmdTypeOK'
  <2>1. /\ TypeOK' /\ at' = "idle" /\ cmd' \in Commands \cup {None}
        /\ regId' \in 1..(Len(Order) + 1)
        /\ outcome' \in {"none", "local", "modem", "error"}
        /\ replies' \in Seq({"line", "ok", "error"})
    BY <1>1, <1>2 DEF CInv, CmdTypeOK, IInv, cmdVars
  <2>2. result' \in BOOLEAN /\ handler' \in BOOLEAN
    BY <1>1 DEF CInv, CmdTypeOK, cmdVars
  <2> QED BY <1>1, <2>1, <2>2 DEF CmdTypeOK
<1>4. \/ outcome = "none" /\ pc' \in {"subscribe", "default", "run"}
      \/ pc' = "run" /\ UNCHANGED <<ram, flash, bad>>
  BY DEF CInv, Phase, Starting, StartingConsole, PowerOn, Subscribe, StoreDefault, LoadAll,
         StartConsole
<1>5. Phase'
  BY <1>1, <1>4 DEF CInv, Phase, cmdVars, WellFormed
<1>6. Responding' /\ InRange' /\ Changing' /\ RestoredSoFar'
  BY <1>1 DEF Responding, InRange, Changing, RestoredSoFar, cmdVars
<1>7. OneTerminalResponse'
  BY <1>1 DEF CInv, OneTerminalResponse, cmdVars
<1>8. OkMeansDone'
  BY <1>1, <1>4 DEF CInv, OkMeansDone, Answered, cmdVars, First, Final
<1> QED BY <1>2, <1>3, <1>5, <1>6, <1>7, <1>8 DEF CInv

\* With the variables of the commands as they are when power comes back.
LEMMA Afresh ==
    ASSUME IInv, pc = "off", at = "idle", cmd = None, regId = 1, result = FALSE,
           handler = FALSE, outcome = "none", replies = <<>>
    PROVE  CInv
<1>1. CmdTypeOK
  <2>1. regId \in 1..(Len(Order) + 1)
    BY OrderFacts
  <2>2. result \in BOOLEAN /\ handler \in BOOLEAN
    OBVIOUS
  <2>3. TypeOK /\ replies \in Seq({"line", "ok", "error"})
    BY DEF IInv
  <2> QED BY <2>1, <2>2, <2>3 DEF CmdTypeOK
<1>2. Phase
  BY DEF Phase
<1>3. Responding /\ InRange /\ Changing /\ RestoredSoFar
  BY DEF Responding, InRange, Changing, RestoredSoFar
<1>4. OneTerminalResponse /\ OkMeansDone
  BY DEF OneTerminalResponse, OkMeansDone, Answered
<1> QED BY <1>1, <1>2, <1>3, <1>4 DEF CInv

LEMMA PoweredDownCInv == ASSUME CInv, PoweredDown PROVE CInv'
<1>1. IInv'
  BY PowerLossIInv, TornWriteIInv DEF CInv, PoweredDown
<1>2. /\ pc' = "off" /\ at' = "idle" /\ cmd' = None /\ regId' = 1
      /\ outcome' = "none" /\ replies' = <<>>
  BY DEF PoweredDown, PowerLoss, TornWrite, Lose
<1>3. CmdTypeOK'
  <2>1. regId' \in 1..(Len(Order) + 1)
    BY <1>2, OrderFacts
  <2>2. result' \in BOOLEAN /\ handler' \in BOOLEAN
    BY DEF PoweredDown
  <2>3. TypeOK' /\ replies' \in Seq({"line", "ok", "error"})
    BY <1>1, <1>2 DEF IInv
  <2> QED BY <1>2, <2>1, <2>2, <2>3 DEF CmdTypeOK
<1>4. Phase'
  BY <1>2 DEF Phase
<1>5. Responding' /\ InRange' /\ Changing' /\ RestoredSoFar'
  BY <1>2 DEF Responding, InRange, Changing, RestoredSoFar
<1>6. ~handler'
  BY DEF PoweredDown
<1>7. OneTerminalResponse' /\ OkMeansDone'
  BY <1>2, <1>6 DEF OneTerminalResponse, OkMeansDone, Answered
<1> QED BY <1>1, <1>3, <1>4, <1>5, <1>7 DEF CInv

LEMMA InitCInv == CmdInit => CInv
<1> SUFFICES ASSUME CmdInit PROVE CInv
  OBVIOUS
<1>1. Init /\ pc = "off"
  BY DEF CmdInit, Init
<1> QED BY <1>1, InitIInv, Afresh DEF CmdInit

LEMMA NextCInv == CInv /\ [CmdNext]_allVars => CInv'
<1> SUFFICES ASSUME CInv, [CmdNext]_allVars PROVE CInv'
  OBVIOUS
<1>1. CASE \E c \in Commands : WellFormed(c) /\ Send(c)
  BY <1>1, SendCInv
<1>2. CASE SendElsewhere
  BY <1>2, SendElsewhereCInv
<1>3. CASE Refuse \/ ListEnd \/ StoreEnd \/ WipDump
  BY <1>3, SimpleCInv
<1>4. CASE List
  BY <1>4, ListCInv
<1>5. CASE SetRegister
  BY <1>5, SetRegisterCInv
<1>6. CASE RestoreRegister
  BY <1>6, RestoreRegisterCInv
<1>7. CASE ChangeGoesOn
  BY <1>7, ChangeGoesOnCInv
<1>8. CASE SetEnd
  BY <1>8, SetEndCInv
<1>9. CASE RestoreNext
  BY <1>9, RestoreNextCInv
<1>10. CASE RestoreEnd
  BY <1>10, RestoreEndCInv
<1>11. CASE \E masks \in [Traces -> Values] : SetLevels(masks)
  BY <1>11, SetLevelsCInv
<1>12. CASE StoreLevels \/ StoreGoesOn
  BY <1>12, StoreLevelsCInv
<1>13. CASE Starting \/ StartingConsole
  BY <1>13, StartingCInv
<1>14. CASE PoweredDown
  BY <1>14, PoweredDownCInv
<1>15. CASE UNCHANGED allVars
  <2>1. UNCHANGED vars /\ UNCHANGED <<at, cmd, regId, result, handler, outcome, replies>>
    BY <1>15 DEF allVars, cmdVars
  <2>2. IInv'
    BY <2>1, SettingsKept DEF CInv
  <2>3. CmdTypeOK'
    <3>1. result' \in BOOLEAN /\ handler' \in BOOLEAN
      BY <2>1 DEF CInv, CmdTypeOK
    <3>2. /\ at' \in {"idle", "handler", "change", "store"} /\ cmd' \in Commands \cup {None}
          /\ regId' \in 1..(Len(Order) + 1)
          /\ outcome' \in {"none", "local", "modem", "error"}
          /\ replies' \in Seq({"line", "ok", "error"}) /\ TypeOK'
      BY <2>1, <2>2 DEF CInv, CmdTypeOK, IInv
    <3> QED BY <3>1, <3>2 DEF CmdTypeOK
  <2>4. UNCHANGED <<pc, idx, reg, new, ram, flash, held, bad, budget>>
    BY <2>1 DEF vars, change
  <2>5. Phase' /\ InRange' /\ RestoredSoFar'
    BY <2>1, <2>4 DEF CInv, Phase, InRange, RestoredSoFar, WellFormed, First, Final
  <2>6. Responding' /\ OneTerminalResponse'
    BY <2>1 DEF CInv, Responding, OneTerminalResponse
  <2>7. Changing'
    BY <2>1, <2>4 DEF CInv, Changing
  <2>8. OkMeansDone'
    BY <2>1, <2>4 DEF CInv, OkMeansDone, Answered, First, Final
  <2> QED BY <2>2, <2>3, <2>5, <2>6, <2>7, <2>8 DEF CInv
<1> QED BY <1>1, <1>2, <1>3, <1>4, <1>5, <1>6, <1>7, <1>8, <1>9, <1>10, <1>11, <1>12,
           <1>13, <1>14, <1>15 DEF CmdNext

------------------------------------------------------------------------------
(* The theorems.                                                                 *)

\* What the handlers have done so far is known at every step of every command.
THEOREM CommandsInvariant == CmdSpec => []CInv
BY InitCInv, NextCInv, PTL DEF CmdSpec

\* Commands do to the settings only what DevReg allows, so that whatever holds of
\* DevReg holds under commands.
THEOREM CommandsImplementDevReg == CmdSpec => Spec
<1>1. CmdInit => Init
  BY DEF CmdInit
<1>2. CInv /\ [CmdNext]_allVars => [Next]_vars
  <2> SUFFICES ASSUME CInv, [CmdNext]_allVars PROVE [Next]_vars
    OBVIOUS
  <2>1. CASE CmdNext
    BY <2>1, StepImplements
  <2>2. CASE UNCHANGED allVars
    BY <2>2 DEF allVars
  <2> QED BY <2>1, <2>2
<1> QED BY <1>1, <1>2, CommandsInvariant, PTL DEF CmdSpec, Spec

\* The variables of the commands and of the settings keep their types.
THEOREM CommandsTypeCorrect == CmdSpec => []CmdTypeOK
<1>1. CInv => CmdTypeOK
  BY DEF CInv
<1> QED BY <1>1, CommandsInvariant, PTL

\* ve_atCmdSendExt returns after exactly one terminal response, the last one, or
\* without any response at all.
THEOREM AnsweredOnce == CmdSpec => []OneTerminalResponse
<1>1. CInv => OneTerminalResponse
  BY DEF CInv
<1> QED BY <1>1, CommandsInvariant, PTL

\* An OK to AT+VREG=2 or AT+VREG=3 is true, whichever writes fail.
THEOREM OkIsTrue == CmdSpec => []OkMeansDone
<1>1. CInv => OkMeansDone
  BY DEF CInv
<1> QED BY <1>1, CommandsInvariant, PTL

\* Under commands, too, memory and flash agree between two of them.
THEOREM SettledUnderCommands == CmdSpec => []Settled
BY CommandsImplementDevReg, SettingsSettled, PTL
==============================================================================
