------------------------------ MODULE Options_proofs ------------------------------
(***************************************************************************)
(* What Options promises, for integers of any size and C types of any      *)
(* width: from what the Ruby layer lets pass.                              *)
(***************************************************************************)
EXTENDS Options, TLAPS

(* Between the layers the hash holds a valid value for every name that the *)
(* C layer reads.                                                          *)
Validated ==
  pc \in {"validated", "native"} =>
    /\ Valid(options)
    /\ Fields \subseteq DOMAIN options

(* What the C layer has refused was a whole hash, and what it has let pass *)
(* has only fixnums for lengths.                                           *)
LengthsSeen ==
  /\ pc = "raised" /\ error # "ValidateError" => names \subseteq DOMAIN options
  /\ pc = "native" => \A name \in names : options[name].value <= FixnumMax

(* The inductive invariant.                                                *)
IInv ==
  /\ TypeOK
  /\ Validated
  /\ LengthsSeen
  /\ pc = "start" => error = "none"
  /\ OptionsArriveUnchanged
  /\ OnlyBignumsAreRefusedLate

(* A number below the modulus is its own remainder.                        *)
LEMMA SmallRemainder ==
  ASSUME NEW n \in Nat, NEW m \in Nat, n < m
  PROVE  n % m = n
OBVIOUS

LEMMA InitIInv == Init => IInv
<1> SUFFICES ASSUME Init PROVE IInv
  OBVIOUS
<1>1. DOMAIN options \subseteq Names /\ \A name \in DOMAIN options : options[name] \in Values
  <2>1. CASE is_hash
    <3>1. PICK given \in SUBSET Names : options \in [given -> Values]
      BY <2>1 DEF Init, Hashes
    <3> QED
      BY <3>1
  <2>2. CASE ~is_hash
    BY <2>2 DEF Init
  <2> QED
    BY <2>1, <2>2
<1>2. TypeOK
  <2> HIDE DEF Values
  <2>1. names \subseteq BufferLengthNames
    BY DEF Init, BufferLengthNames
  <2>2. /\ pc = "start" /\ error = "none"
        /\ direction \in {"compress", "decompress"}
        /\ is_hash \in BOOLEAN
    BY DEF Init
  <2> QED
    BY <1>1, <2>1, <2>2 DEF TypeOK
<1>3. /\ Validated /\ LengthsSeen
      /\ OptionsArriveUnchanged /\ OnlyBignumsAreRefusedLate
  BY DEF Init, Validated, LengthsSeen, OptionsArriveUnchanged, OnlyBignumsAreRefusedLate
<1> QED
  BY <1>2, <1>3 DEF IInv, Init

(* The merged hash has every field and only proper values.                 *)
LEMMA MergedIsTyped ==
  ASSUME TypeOK
  PROVE  /\ Fields \subseteq DOMAIN Merged
         /\ DOMAIN Merged \subseteq Names
         /\ \A name \in DOMAIN Merged : Merged[name] \in Values
<1>1. Fields \subseteq Names
  BY DEF TypeOK, Fields, Switches, Names
<1>2. DOMAIN Merged = Fields \cup DOMAIN options
  BY DEF Merged, Defaults
<1>3. \A name \in Fields : Defaults[name] \in Values
  <2>1. /\ Integer(0) \in Values
        /\ Object("false") \in Values
        /\ Object("nil") \in Values
    BY OptionsAssumption DEF Values, Integer, Object
  <2> QED
    BY <2>1 DEF Defaults
<1>4. ASSUME NEW name \in DOMAIN Merged
      PROVE  Merged[name] \in Values
  <2>1. Merged[name] = IF name \in DOMAIN options THEN options[name] ELSE Defaults[name]
    BY <1>4 DEF Merged
  <2> QED
    BY <1>2, <1>3, <1>4, <2>1 DEF TypeOK
<1> QED
  BY <1>1, <1>2, <1>4 DEF TypeOK

LEMMA GetOptionsIInv ==
  ASSUME IInv, GetOptions
  PROVE  IInv'
<1>1. /\ pc = "start" /\ error = "none"
      /\ UNCHANGED <<direction, is_hash, names, native>>
      /\ TypeOK
  BY DEF GetOptions, Raise, input, IInv
<1>2. CASE Valid(Merged)
  <2>1. pc' = "validated" /\ options' = Merged /\ UNCHANGED error
    BY <1>2 DEF GetOptions
  <2>2. /\ Fields \subseteq DOMAIN Merged
        /\ DOMAIN Merged \subseteq Names
        /\ \A name \in DOMAIN Merged : Merged[name] \in Values
    BY <1>1, MergedIsTyped
  <2>3. Values' = Values /\ Names' = Names /\ Fields' = Fields
    BY <1>1 DEF Values, Names, Fields, Switches
  <2> HIDE DEF Values
  <2>4. TypeOK'
    BY <1>1, <2>1, <2>2, <2>3 DEF TypeOK
  <2>5. Valid(options)'
    BY <1>1, <1>2, <2>1 DEF Valid, Switches
  <2>6. Validated'
    BY <2>1, <2>2, <2>3, <2>5 DEF Validated
  <2> QED
    BY <1>1, <2>1, <2>4, <2>6
       DEF IInv, LengthsSeen, OptionsArriveUnchanged, OnlyBignumsAreRefusedLate
<1>3. CASE ~Valid(Merged)
  <2>1. pc' = "raised" /\ error' = "ValidateError" /\ UNCHANGED options
    BY <1>3 DEF GetOptions, Raise
  <2>2. TypeOK'
    BY <1>1, <2>1 DEF TypeOK, Values, Names, Switches, Fields
  <2> QED
    BY <2>1, <2>2
       DEF IInv, Validated, LengthsSeen, OptionsArriveUnchanged,
           OnlyBignumsAreRefusedLate
<1> QED
  BY <1>2, <1>3

(* What the Ruby layer lets pass, seen from the C layer.                   *)
LEMMA ValidatedFacts ==
  ASSUME IInv, pc = "validated"
  PROVE  /\ \A name \in names : /\ options[name].class = "Integer"
                                /\ options[name].value \in Nat
         /\ IsBool(options["gvl"])
         /\ \A name \in Switches : IsBoolOrNil(options[name])
         /\ direction = "compress" /\ MaxCodeBitLength.class # "nil" =>
              /\ MaxCodeBitLength.class = "Integer"
              /\ MaxCodeBitLength.value \in Lowest .. Biggest
<1>1. Valid(options) /\ Fields \subseteq DOMAIN options
      /\ \A name \in DOMAIN options : options[name] \in Values
  BY DEF IInv, TypeOK, Validated
<1>2. names \subseteq Fields
  BY DEF Fields
<1>3. ASSUME NEW v \in Values, IsNotNegativeInteger(v)
      PROVE  v.class = "Integer" /\ v.value \in Nat
  <2>1. v.class = "Integer" /\ v.value >= 0
    BY <1>3 DEF IsNotNegativeInteger
  <2>2. v \in [class : {"Integer"}, value : Numbers]
    BY <1>3, <2>1 DEF Values
  <2>3. v.value \in Int
    BY <2>2, OptionsAssumption
  <2> QED
    BY <2>1, <2>3
<1>4. \A name \in names : IsNotNegativeInteger(options[name]) /\ options[name] \in Values
  BY <1>1, <1>2 DEF Valid
<1>5. direction = "compress" => IsMaxCodeBitLength(MaxCodeBitLength)
  BY <1>1 DEF Valid, MaxCodeBitLength
<1> QED
  BY <1>1, <1>3, <1>4, <1>5 DEF Valid, IsMaxCodeBitLength

LEMMA GetNativeIInv ==
  ASSUME IInv, GetNative
  PROVE  IInv'
<1>1. /\ pc = "validated"
      /\ UNCHANGED <<direction, is_hash, names, options>>
  BY DEF GetNative, input
<1>2. /\ \A name \in names : /\ options[name].class = "Integer"
                             /\ options[name].value \in Nat
      /\ IsBool(options["gvl"])
      /\ \A name \in Switches : IsBoolOrNil(options[name])
      /\ direction = "compress" /\ MaxCodeBitLength.class # "nil" =>
           /\ MaxCodeBitLength.class = "Integer"
           /\ MaxCodeBitLength.value \in Lowest .. Biggest
  BY <1>1, ValidatedFacts
<1>3. /\ Lowest \in Nat /\ Biggest \in Nat /\ FixnumMax \in Nat /\ UintRange \in Nat
      /\ ByteRange \in Nat /\ SizeRange \in Nat
      /\ Biggest < ByteRange /\ ByteRange <= UintRange
      /\ Biggest <= FixnumMax /\ FixnumMax < SizeRange /\ Lowest <= Biggest
  BY OptionsAssumption
<1>4. Values' = Values /\ Names' = Names /\ Fields' = Fields /\ Switches' = Switches
  BY <1>1 DEF Values, Names, Fields, Switches
<1>5. CASE \E e \in NativeErrors : Raise(e)
  <2>1. PICK e \in NativeErrors : Raise(e)
    BY <1>5
  <2>2. pc' = "raised" /\ error' = e /\ UNCHANGED native
    BY <2>1 DEF Raise
  <2>3. e \in {"TypeError", "ValidateError", "RangeError"}
    BY <2>1 DEF NativeErrors
  <2>4. TypeOK'
    BY <1>1, <1>4, <2>2, <2>3 DEF IInv, TypeOK
  <2>5. ~RangeErrors
    <3> SUFFICES ASSUME RangeErrors PROVE FALSE
      OBVIOUS
    <3>1. /\ direction = "compress" /\ MaxCodeBitLength.class = "Integer"
          /\ MaxCodeBitLength.value >= UintRange
      BY DEF RangeErrors, IsFixnum
    <3>2. MaxCodeBitLength.value \in Lowest .. Biggest
      BY <1>2, <3>1
    <3> QED
      BY <1>3, <3>1, <3>2
  <2>6. ASSUME e # "ValidateError"
        PROVE  \E name \in names : options[name].value > FixnumMax
    <3>1. TypeErrors
      BY <2>1, <2>5, <2>6 DEF NativeErrors
    <3>2. CASE \E name \in names : ~IsFixnum(options[name])
      <4>1. PICK name \in names : ~IsFixnum(options[name])
        BY <3>2
      <4>2. options[name].class = "Integer" /\ options[name].value \in Nat
        BY <1>2
      <4>3. options[name].value \notin -(FixnumMax + 1) .. FixnumMax
        BY <4>1, <4>2 DEF IsFixnum
      <4>4. options[name].value > FixnumMax
        BY <1>3, <4>2, <4>3
      <4> QED
        BY <4>4
    <3>3. CASE /\ direction = "compress"
               /\ MaxCodeBitLength.class # "nil"
               /\ ~IsFixnum(MaxCodeBitLength)
      <4>1. /\ MaxCodeBitLength.class = "Integer"
            /\ MaxCodeBitLength.value \in Lowest .. Biggest
        BY <1>2, <3>3
      <4>2. MaxCodeBitLength.value \in -(FixnumMax + 1) .. FixnumMax
        BY <1>3, <4>1
      <4> QED
        BY <3>3, <4>1, <4>2 DEF IsFixnum
    <3> QED
      BY <3>1, <3>2, <3>3 DEF TypeErrors
  <2>7. OnlyBignumsAreRefusedLate'
    BY <1>1, <2>2, <2>6 DEF OnlyBignumsAreRefusedLate
  <2>8. LengthsSeen'
    <3>1. names \subseteq DOMAIN options
      BY <1>1 DEF IInv, Validated, Fields
    <3> QED
      BY <1>1, <2>2, <3>1 DEF LengthsSeen
  <2> QED
    BY <2>2, <2>4, <2>7, <2>8 DEF IInv, Validated, OptionsArriveUnchanged
<1>6. CASE NativeErrors = {} /\ pc' = "native" /\ native' = NativeValues /\ UNCHANGED error
  <2>1. ~TypeErrors
    BY <1>6 DEF NativeErrors
  <2>2. ASSUME NEW name \in names
        PROVE  /\ SizeValue(options[name]) = options[name].value
               /\ SizeValue(options[name]) \in 0 .. SizeRange - 1
    <3>1. options[name].value \in Nat /\ IsFixnum(options[name])
      BY <1>2, <2>1, <2>2 DEF TypeErrors
    <3>2. options[name].value < SizeRange
      BY <1>3, <3>1 DEF IsFixnum
    <3> DEFINE n == options[name].value
    <3>3. n \in Nat /\ n < SizeRange
      BY <3>1, <3>2
    <3>4. SizeValue(options[name]) = n % SizeRange
      BY DEF SizeValue
    <3> HIDE DEF n
    <3>5. n % SizeRange = n
      BY <1>3, <3>3, SmallRemainder
    <3>6. SizeValue(options[name]) = n /\ SizeValue(options[name]) \in 0 .. SizeRange - 1
      BY <1>3, <3>3, <3>4, <3>5
    <3> QED
      BY <3>6 DEF n
  <2>3. ASSUME direction = "compress"
        PROVE  /\ ResolveMaxCodeBitLength(MaxCodeBitLength) \in Lowest .. Biggest
               /\ MaxCodeBitLength.class # "nil" =>
                    ResolveMaxCodeBitLength(MaxCodeBitLength) = MaxCodeBitLength.value
    <3>1. CASE MaxCodeBitLength.class = "nil"
      BY <1>3, <3>1 DEF ResolveMaxCodeBitLength, LibraryDefault
    <3>2. CASE MaxCodeBitLength.class # "nil"
      <4> DEFINE n == MaxCodeBitLength.value
      <4>1. n \in Lowest .. Biggest
        BY <1>2, <2>3, <3>2
      <4>2. ResolveMaxCodeBitLength(MaxCodeBitLength) = (n % UintRange) % ByteRange
        BY <3>2 DEF ResolveMaxCodeBitLength, ByteValue, UintValue
      <4> HIDE DEF n
      <4>3. n \in Nat /\ n < UintRange /\ n < ByteRange
        BY <1>3, <4>1
      <4>4. n % UintRange = n /\ n % ByteRange = n
        BY <1>3, <4>3, SmallRemainder
      <4>5. ResolveMaxCodeBitLength(MaxCodeBitLength) = n
        BY <4>2, <4>4
      <4> QED
        BY <4>1, <4>5 DEF n
    <3> QED
      BY <3>1, <3>2
  <2>4. /\ names \subseteq BufferLengthNames
        /\ "gvl" \notin names /\ "max_code_bit_length" \notin names
        /\ "gvl" \notin Switches /\ "max_code_bit_length" \notin Switches
        /\ names \cap Switches = {}
    BY DEF IInv, TypeOK, BufferLengthNames, Switches
  <2>5. /\ DOMAIN native' = Fields
        /\ \A name \in names : native'[name] = SizeValue(options[name])
        /\ native'["gvl"] = BoolValue(options["gvl"])
        /\ \A name \in Switches : native'[name] = ResolveBool(options[name], name)
        /\ direction = "compress" =>
             native'["max_code_bit_length"] = ResolveMaxCodeBitLength(MaxCodeBitLength)
    BY <1>6, <2>4 DEF NativeValues, Fields, MaxCodeBitLength
  <2>6. /\ \A name \in Switches : ResolveBool(options[name], name) \in BOOLEAN
        /\ BoolValue(options["gvl"]) \in BOOLEAN
    BY <2>4 DEF ResolveBool, BoolValue, LibraryDefault
  <2>7. TypeOK'
    <3>1. /\ \A name \in names : native'[name] \in 0 .. SizeRange - 1
          /\ \A name \in Switches \cup {"gvl"} : native'[name] \in BOOLEAN
          /\ direction = "compress" =>
               native'["max_code_bit_length"] \in Lowest .. Biggest
      BY <2>2, <2>3, <2>5, <2>6
    <3> QED
      BY <1>1, <1>4, <1>6, <2>5, <3>1 DEF IInv, TypeOK
  <2>8. ASSUME NEW name \in Fields
        PROVE  native'[name] = Asked(name)
    <3>1. CASE name \in names
      BY <2>2, <2>5, <3>1 DEF Asked
    <3>2. CASE name = "gvl"
      <4>1. options["gvl"].class # "nil"
        BY <1>2 DEF IsBool
      <4> QED
        BY <2>4, <2>5, <3>2, <4>1 DEF Asked, BoolValue
    <3>3. CASE name \in Switches
      BY <2>4, <2>5, <3>3 DEF Asked, ResolveBool, BoolValue
    <3>4. CASE direction = "compress" /\ name = "max_code_bit_length"
      <4>1. CASE MaxCodeBitLength.class = "nil"
        BY <2>4, <2>5, <3>4, <4>1 DEF Asked, ResolveMaxCodeBitLength, MaxCodeBitLength
      <4>2. CASE MaxCodeBitLength.class # "nil"
        BY <2>3, <2>4, <2>5, <3>4, <4>2 DEF Asked, MaxCodeBitLength
      <4> QED
        BY <4>1, <4>2
    <3> QED
      BY <2>8, <3>1, <3>2, <3>3, <3>4 DEF Fields
  <2>9. OptionsArriveUnchanged'
    <3>1. \A name \in Fields : Asked(name)' = Asked(name)
      BY <1>1 DEF Asked, LibraryDefault
    <3> QED
      BY <1>4, <2>8, <3>1 DEF OptionsArriveUnchanged
  <2>10. Validated'
    <3>1. Valid(options)'
      BY <1>1, <1>4 DEF IInv, Validated, Valid
    <3> QED
      BY <1>1, <1>4, <3>1 DEF IInv, Validated
  <2>11. LengthsSeen'
    <3>1. \A name \in names : options[name].value <= FixnumMax
      <4>1. \A name \in names : options[name].value \in -(FixnumMax + 1) .. FixnumMax
        BY <2>1 DEF TypeErrors, IsFixnum
      <4> QED
        BY <4>1
    <3> QED
      BY <1>1, <1>6, <3>1 DEF LengthsSeen
  <2> QED
    BY <1>6, <2>7, <2>9, <2>10, <2>11 DEF IInv, OnlyBignumsAreRefusedLate
<1> QED
  BY <1>5, <1>6 DEF GetNative

LEMMA StutterIInv ==
  ASSUME IInv, UNCHANGED vars
  PROVE  IInv'
<1>1. UNCHANGED <<pc, direction, is_hash, options, names, native, error>>
  BY DEF vars
<1>2. TypeOK' /\ Validated' /\ LengthsSeen'
  BY <1>1 DEF IInv, TypeOK, Validated, LengthsSeen, Values, Names, Fields, Switches, Valid
<1>3. OptionsArriveUnchanged' /\ OnlyBignumsAreRefusedLate'
  BY <1>1
     DEF IInv, OptionsArriveUnchanged, OnlyBignumsAreRefusedLate, Asked, Fields,
         Switches, LibraryDefault
<1> QED
  BY <1>1, <1>2, <1>3 DEF IInv

(* The invariant holds in every state of a call.                           *)
LEMMA Invariance == Spec => []IInv
<1>1. IInv /\ [Next]_vars => IInv'
  BY GetOptionsIInv, GetNativeIInv, StutterIInv DEF Next
<1> QED
  BY <1>1, InitIInv, PTL DEF Spec

(* Every variable has its type; the options in C fit their C types.        *)
THEOREM Types == Spec => []TypeOK
<1>1. IInv => TypeOK
  BY DEF IInv
<1> QED
  BY <1>1, Invariance, PTL

(* Whatever the widths of the C types and whatever the caller gives, the   *)
(* options reach the library unchanged or not at all.                      *)
THEOREM Passage == Spec => []OptionsArriveUnchanged
<1>1. IInv => OptionsArriveUnchanged
  BY DEF IInv
<1> QED
  BY <1>1, Invariance, PTL

(* Only a buffer length that is no fixnum gets past the Ruby layer to be   *)
(* refused in C.                                                           *)
THEOREM LateRefusals == Spec => []OnlyBignumsAreRefusedLate
<1>1. IInv => OnlyBignumsAreRefusedLate
  BY DEF IInv
<1> QED
  BY <1>1, Invariance, PTL

(* The documented buffer lengths that are no fixnums never reach the       *)
(* library, whatever else is given.                                        *)
THEOREM BignumsNeverArrive ==
  Spec => [](pc = "native" => \A name \in names : options[name].value <= FixnumMax)
<1>1. IInv => (pc = "native" => \A name \in names : options[name].value <= FixnumMax)
  BY DEF IInv, LengthsSeen
<1> QED
  BY <1>1, Invariance, PTL

(* They are all that stands between the extension and the lengths of       *)
(* README.md: for callers that try only fixnums every documented length is *)
(* accepted.                                                               *)
THEOREM OnlyBignumsBreakIt ==
  ASSUME \A n \in Numbers : n <= FixnumMax
  PROVE  Spec => []AllDocumentedLengths
<1>1. IInv => AllDocumentedLengths
  <2> SUFFICES ASSUME IInv, pc = "raised", error # "ValidateError"
               PROVE  FALSE
    BY DEF AllDocumentedLengths
  <2>1. PICK name \in names : options[name].value > FixnumMax
    BY DEF IInv, OnlyBignumsAreRefusedLate
  <2>2. options[name] \in Values
    BY DEF IInv, LengthsSeen, TypeOK
  <2>3. /\ options[name].value \in Numbers /\ options[name].value \in Int
        /\ FixnumMax \in Nat
    BY <2>2, OptionsAssumption DEF Values
  <2> QED
    BY <2>1, <2>3
<1> QED
  BY <1>1, Invariance, PTL
================================================================================
