--------------------------------- MODULE Options ---------------------------------
(***************************************************************************)
(* How an options hash becomes the arguments of the library: first         *)
(* LZWS::Option.get_compressor_options or get_decompressor_options         *)
(* (lib/lzws/option.rb), then the macros of ext/lzws_ext/option.h with     *)
(* their functions in option.c.  Each layer trusts the other for some of   *)
(* the checks.                                                             *)
(*                                                                         *)
(* The width of Ruby's fixnum and of C's types are parameters.             *)
(*                                                                         *)
(* Operators whose name has the form Name_Fault are mutated forms of Name. *)
(***************************************************************************)
EXTENDS Integers, FiniteSets

CONSTANTS
  FixnumMax,   \* the largest Integer that is a T_FIXNUM
  SizeRange,   \* how many values size_t has
  UintRange,   \* how many values unsigned int has
  ByteRange,   \* how many values lzws_byte_fast_t has
  Lowest,      \* LZWS_LOWEST_MAX_CODE_BIT_LENGTH
  Biggest,     \* LZWS_BIGGEST_MAX_CODE_BIT_LENGTH
  Numbers,     \* the integers that callers try
  MaxGiven     \* bound: how many options a caller gives

ASSUME OptionsAssumption ==
  /\ {Lowest, Biggest, FixnumMax, UintRange} \subseteq Nat
  /\ 0 < Lowest /\ Lowest <= Biggest /\ Biggest < ByteRange
  /\ ByteRange \in Nat /\ ByteRange <= UintRange
  /\ Biggest <= FixnumMax
  /\ SizeRange \in Nat /\ FixnumMax < SizeRange
  /\ Numbers \subseteq Int /\ 0 \in Numbers

VARIABLES
  pc,         \* "start", "validated", "native" or "raised"
  direction,  \* whose options: "compress" or "decompress"
  is_hash,    \* the argument is a Hash
  options,    \* the hash: a function on the names it has
  names,      \* buffer_length_names
  native,     \* the C variables and structure
  error       \* the class of the error raised

vars == <<pc, direction, is_hash, options, names, native, error>>
input == <<direction, is_hash, names>>

(* Ruby values: the integers, nil, true, false, and any other object.      *)
Values ==
  [class: {"Integer"}, value: Numbers]
  \cup [class: {"nil", "true", "false", "other"}, value: {0}]

Object(class) == [class |-> class, value |-> 0]
Integer(n)    == [class |-> "Integer", value |-> n]

BufferLengthNames ==
  {"source_buffer_length", "destination_buffer_length"}

(* The options of the library that are booleans.                           *)
Switches ==
  {"without_magic_header", "msb", "unaligned_bit_groups", "quiet"}
  \cup IF direction = "compress" THEN {"block_mode"} ELSE {}

(* What the C function reads.                                              *)
Fields ==
  names \cup {"gvl"} \cup Switches
  \cup IF direction = "compress" THEN {"max_code_bit_length"} ELSE {}

Names ==
  BufferLengthNames \cup
  {"gvl", "max_code_bit_length", "block_mode", "without_magic_header", "msb",
   "unaligned_bit_groups", "quiet"}

Hashes ==
  UNION {[given -> Values] :
           given \in {g \in SUBSET Names : Cardinality(g) <= MaxGiven}}

Init ==
  /\ pc = "start"
  /\ direction \in {"compress", "decompress"}
  /\ is_hash \in BOOLEAN
  /\ options \in IF is_hash THEN Hashes ELSE {<<>>}
  /\ names \in {BufferLengthNames, {"destination_buffer_length"}}
  /\ native = <<>>
  /\ error = "none"

Raise(e) ==
  /\ pc' = "raised"
  /\ error' = e
  /\ UNCHANGED native

--------------------------------------------------------------------------------
(* lib/lzws/option.rb and lib/lzws/validation.rb.                          *)

(* COMPRESSOR_DEFAULTS or DECOMPRESSOR_DEFAULTS, and DEFAULT_BUFFER_LENGTH *)
(* for every name of buffer_length_names.                                  *)
Defaults ==
  [name \in Fields |->
     IF name \in names THEN Integer(0)
     ELSE IF name = "gvl" THEN Object("false")
     ELSE Object("nil")]

(* Hash#merge: what is given, nil included, replaces the default.          *)
Merged ==
  [name \in DOMAIN Defaults \cup DOMAIN options |->
     IF name \in DOMAIN options THEN options[name] ELSE Defaults[name]]

IsBool(v) == v.class \in {"true", "false"}

IsBoolOrNil(v) == IsBool(v) \/ v.class = "nil"

IsNotNegativeInteger_Any(v) == v.class = "Integer"
IsNotNegativeInteger(v) == v.class = "Integer" /\ v.value >= 0

IsMaxCodeBitLength_Positive(v) ==
  v.class = "nil" \/ (v.class = "Integer" /\ v.value > 0)
IsMaxCodeBitLength(v) ==
  \/ v.class = "nil"
  \/ v.class = "Integer" /\ v.value > 0 /\ v.value \in Lowest .. Biggest

Valid(hash) ==
  /\ is_hash
  /\ \A name \in names : IsNotNegativeInteger(hash[name])
  /\ IsBool(hash["gvl"])
  /\ direction = "compress" => IsMaxCodeBitLength(hash["max_code_bit_length"])
  /\ \A name \in Switches : IsBoolOrNil(hash[name])

(* get_compressor_options or get_decompressor_options.                     *)
GetOptions ==
  /\ pc = "start"
  /\ IF Valid(Merged)
     THEN /\ pc' = "validated"
          /\ options' = Merged
          /\ UNCHANGED <<native, error>>
     ELSE /\ Raise("ValidateError")
          /\ UNCHANGED options
  /\ UNCHANGED input

--------------------------------------------------------------------------------
(* ext/lzws_ext/option.c.                                                  *)

(* get_bool_value, of a value that it accepts.                             *)
BoolValue(v) == v.class = "true"

IsFixnum(v) == v.class = "Integer" /\ v.value \in -(FixnumMax + 1) .. FixnumMax

(* NUM2SIZET and NUM2UINT of a fixnum: a negative one wraps around.        *)
SizeValue(v) == v.value % SizeRange
UintValue(v) == v.value % UintRange

(* The assignment to an lzws_byte_fast_t.                                  *)
ByteValue(n) == n % ByteRange

(* LZWS_COMPRESSOR_DEFAULT_OPTIONS, LZWS_DECOMPRESSOR_DEFAULT_OPTIONS.     *)
LibraryDefault(name) ==
  IF name = "max_code_bit_length" THEN Biggest ELSE name = "block_mode"

(* lzws_ext_resolve_bool_option: nil leaves the default of the library.    *)
ResolveBool(v, name) ==
  IF v.class = "nil" THEN LibraryDefault(name) ELSE BoolValue(v)

ResolveMaxCodeBitLength(v) ==
  IF v.class = "nil"
  THEN LibraryDefault("max_code_bit_length")
  ELSE ByteValue(UintValue(v))

MaxCodeBitLength == options["max_code_bit_length"]

(* Check_Type of a size or of the maximum, which may be nil.               *)
TypeErrors ==
  \/ \E name \in names : ~IsFixnum(options[name])
  \/ /\ direction = "compress"
     /\ MaxCodeBitLength.class # "nil"
     /\ ~IsFixnum(MaxCodeBitLength)

(* get_bool_value.                                                         *)
BoolErrors ==
  \/ ~IsBool(options["gvl"])
  \/ \E name \in Switches : ~IsBoolOrNil(options[name])

(* NUM2UINT.                                                               *)
RangeErrors ==
  /\ direction = "compress"
  /\ IsFixnum(MaxCodeBitLength)
  /\ MaxCodeBitLength.value >= UintRange

NativeErrors ==
  {e \in {"TypeError", "ValidateError", "RangeError"} :
     \/ e = "TypeError" /\ TypeErrors
     \/ e = "ValidateError" /\ BoolErrors
     \/ e = "RangeError" /\ RangeErrors}

NativeValues ==
  [name \in Fields |->
     IF name \in names THEN SizeValue(options[name])
     ELSE IF name = "gvl" THEN BoolValue(options[name])
     ELSE IF name = "max_code_bit_length" THEN ResolveMaxCodeBitLength(options[name])
     ELSE ResolveBool(options[name], name)]

(* LZWS_EXT_GET_SIZE_OPTION, _BOOL_OPTION and _[DE]COMPRESSOR_OPTIONS.     *)
GetNative ==
  /\ pc = "validated"
  /\ \/ \E e \in NativeErrors : Raise(e)
     \/ /\ NativeErrors = {}
        /\ pc' = "native"
        /\ native' = NativeValues
        /\ UNCHANGED error
  /\ UNCHANGED <<options, input>>

Next == GetOptions \/ GetNative

Spec == Init /\ [][Next]_vars

--------------------------------------------------------------------------------
(* Properties.                                                             *)

(* The value that the caller has asked for under name: what he has given,  *)
(* or else the documented default.                                         *)
Asked(name) ==
  LET v == options[name]
  IN  IF name \in names THEN v.value
      ELSE IF v.class = "nil" THEN LibraryDefault(name)
      ELSE IF name = "max_code_bit_length" THEN v.value
      ELSE v.class = "true"

TypeOK ==
  /\ pc \in {"start", "validated", "native", "raised"}
  /\ direction \in {"compress", "decompress"}
  /\ is_hash \in BOOLEAN
  /\ names \subseteq BufferLengthNames
  /\ DOMAIN options \subseteq Names
  /\ \A name \in DOMAIN options : options[name] \in Values
  /\ error \in {"none", "ValidateError", "TypeError", "RangeError"}
  /\ pc = "native" =>
       /\ DOMAIN native = Fields
       /\ \A name \in names : native[name] \in 0 .. SizeRange - 1
       /\ \A name \in Switches \cup {"gvl"} : native[name] \in BOOLEAN
       /\ direction = "compress" => native["max_code_bit_length"] \in Lowest .. Biggest

(* What reaches the library is what the caller has asked for: no negative  *)
(* number or number too wide for its C type gets through both layers.      *)
OptionsArriveUnchanged ==
  pc = "native" => \A name \in Fields : native[name] = Asked(name)

(* What the Ruby layer lets pass the C layer does not refuse, but for a    *)
(* buffer length that is no fixnum: no other option raises anything else   *)
(* than ValidateError.                                                     *)
OnlyBignumsAreRefusedLate ==
  pc = "raised" /\ error # "ValidateError" =>
    \E name \in names : options[name].value > FixnumMax

(* "0, 2 - inf" (README.md, Options) are the values of a buffer length:    *)
(* the extension refuses none of them.                                     *)
AllDocumentedLengths ==
  pc = "raised" /\ error # "ValidateError" =>
    \E name \in names : ~(options[name].value = 0 \/ options[name].value >= 2)
================================================================================
