------------------------------ MODULE Addresses ------------------------------
(***************************************************************************)
(* The two ways utils.ts judges an address: getStellarAddressError(), of   *)
(* owners, guardians and contracts, and                                    *)
(* describeInvalidBeneficiaryAddress(), of beneficiaries.  An answer is    *)
(* the reason, or "valid".                                                 *)
(*                                                                         *)
(* A text is what they ask about it: its first letter, whether its length  *)
(* is that of its kind, whether it is in upper case and all in base32, and *)
(* whether its checksum is right.  StrKey is external: a text is of a kind *)
(* that has its letter, length, alphabet and checksum.                     *)
(***************************************************************************)
EXTENDS Integers

Letters == {"G", "g", "C", "M", "S", "0x", "other"}

AddressTexts ==
  {t \in [string : BOOLEAN, empty : BOOLEAN, spaced : BOOLEAN, letter : Letters,
          upper : BOOLEAN, base32 : BOOLEAN, fits : BOOLEAN, checksum : BOOLEAN] :
     /\ t.letter \in {"g", "0x"} => ~t.upper
     /\ t.base32 => t.upper /\ ~t.spaced}

(* StrKey.isValidEd25519PublicKey() and its like. *)
OfKind(text, letter) ==
  text.letter = letter /\ text.fits /\ text.base32 /\ text.checksum

(* Why a text with the letter of a kind is not of that kind. *)
Encoding(text, letter) ==
  CASE OfKind(text, letter) -> "valid"
    [] ~text.fits -> "wrong_length"
    [] text.fits /\ ~text.base32 -> "invalid_characters"
    [] text.fits /\ text.base32 /\ ~text.checksum -> "invalid_checksum"

(* getStellarAddressError(), of the kinds the caller allows besides "G". *)
StellarAddressError(text, allowed) ==
  IF ~text.string THEN "not_a_string"
  ELSE IF text.empty THEN "empty"
  ELSE IF text.spaced THEN "whitespace"
  ELSE IF text.letter \in {"S", "M", "C"} \ allowed THEN "unsupported_type"
  ELSE IF text.letter \in {"G", "M", "C"} THEN Encoding(text, text.letter)
  ELSE "invalid_characters"

(* describeInvalidBeneficiaryAddress(). *)
BeneficiaryAddressError(text) ==
  IF ~text.string THEN "expected a string"
  ELSE IF text.empty THEN "empty"
  ELSE IF text.spaced THEN "whitespace"
  ELSE IF text.letter = "0x" THEN "an EVM address"
  ELSE IF \E kind \in {"S", "C", "M"} : OfKind(text, kind) THEN "another kind"
  ELSE IF text.letter \notin {"G", "g"} THEN "starts with G"
  ELSE IF ~text.upper THEN "uppercase"
  ELSE IF ~text.fits THEN "length"
  ELSE IF ~OfKind(text, "G") THEN "checksum or encoding"
  ELSE "valid"
=============================================================================
