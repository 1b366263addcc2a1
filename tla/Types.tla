-------------------------------- MODULE Types --------------------------------
(***************************************************************************)
(* The scalar types of dsl/sema.h: TypeInfo gives a type token a code and  *)
(* a width, match_types joins two of them.  float and float32, double and  *)
(* float64 are different tokens with the same TypeInfo.                    *)
(***************************************************************************)
EXTENDS Integers

UInts  == {"bool", "uint8", "uint16", "uint32", "uint64"}
Ints   == {"int8", "int16", "int32", "int64"}
Floats == {"float16", "float32", "float64", "float", "double"}
Scalars == UInts \cup Ints \cup Floats

Code(t) == IF t \in Floats THEN "Float" ELSE IF t \in Ints THEN "Int" ELSE "UInt"

Bits(t) == CASE t = "bool"                                     -> 1
             [] t \in {"uint8", "int8"}                        -> 8
             [] t \in {"uint16", "int16", "float16"}           -> 16
             [] t \in {"uint32", "int32", "float32", "float"}  -> 32
             [] OTHER                                          -> 64

\* TypeInfo(t) throws on half precision.
Supported(t) == t # "float16"

SameInfo(a, b) == Code(a) = Code(b) /\ Bits(a) = Bits(b)

\* toScalarToken of a signed integer.
IntToken(bits) == CHOOSE t \in Ints : Bits(t) = bits

Wider(a, b) == IF Bits(a) > Bits(b) THEN a ELSE b

\* match_types, on supported types.
MatchTypes(a, b) ==
  IF SameInfo(a, b) THEN a
  ELSE IF Code(a) # "Float" /\ Code(b) = "Float" THEN b
  ELSE IF Code(a) = "Float" /\ Code(b) # "Float" THEN a
  ELSE IF Code(a) = Code(b) /\ Code(a) # "Int" THEN Wider(a, b)
  ELSE IntToken(Bits(Wider(a, b)))

\* The order behind "narrower" in the message of checkStmt: b has the kind of a
\* or a wider one, and the bits.  Any integer fits any float, and an unsigned
\* type a signed one of its own width, as match_types has it.
Fits(a, b) ==
  CASE Code(b) = "Float" -> Code(a) = "Float" => Bits(a) <= Bits(b)
    [] Code(b) = "Int"   -> Code(a) # "Float" /\ Bits(a) <= Bits(b)
    [] OTHER             -> Code(a) = "UInt" /\ Bits(a) <= Bits(b)
=============================================================================
