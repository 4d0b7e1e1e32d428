------------------------------ MODULE MCHelpers ------------------------------
(***************************************************************************)
(* The pure helpers of the SDK against what they are for, over bounded     *)
(* inputs: amounts, the pages of a list, addresses, the checks of a        *)
(* transaction and the errors of the contract.                             *)
(***************************************************************************)
EXTENDS Amounts, WillLists, Addresses, TxValidation, ContractErrors, FiniteSets, Filters

SomeAmounts == -1260..1260
SomeDecimals == 0..4

(* Texts of at most two digits on either side of the point. *)
SomeTexts ==
  [negative : BOOLEAN, point : BOOLEAN,
   before : UNION {[1..n -> {0, 1, 5}] : n \in 0..2},
   after : UNION {[1..n -> {0, 1, 5}] : n \in 0..2}]
PlainTexts == {t \in SomeTexts : t.after # <<>> => t.point}
ScientificTexts ==
  {[negative |-> t.negative, point |-> t.point, before |-> t.before,
    after |-> t.after, exponent |-> e] : e \in -3..3,
   t \in {u \in PlainTexts : u.before # <<>> /\ u.point = (u.after # <<>>)}}

(* The text formatUSDC() writes, as toStroops() reads it. *)
AsText(formatted) ==
  [negative |-> formatted.negative, point |-> TRUE,
   before |-> AmountDigits(formatted.whole, 4), after |-> formatted.fraction]

(* What is kept of a sequence is what a filter selects. *)
ASSUME KeptIsFiltered ==
  \A s \in UNION {[1..n -> 1..3] : n \in 0..4} : \A T \in SUBSET (1..3) :
    Kept(s, T) = SelectSeq(s, LAMBDA x : x \in T)

(* What is shown of an amount has two digits after the point, and reads    *)
(* back as the amount, to the nearest cent with half a cent rounded up.    *)
ASSUME ShownToTheCent ==
  \A amount \in SomeAmounts, decimals \in SomeDecimals :
    LET shown == FormatUSDC(amount, decimals)
        back == ToStroops(AsText(shown), decimals)
        cent == IF decimals > 2 THEN 10^(decimals - 2) ELSE 1
    IN /\ Len(shown.fraction) = 2
       /\ back % cent = 0
       /\ IF amount >= 0 THEN 2 * (back - amount) \in (1 - cent)..cent
          ELSE 2 * (amount - back) \in (1 - cent)..cent

(* A text is refused rather than read with fewer digits than it has.       *)
ASSUME NothingIsCutOff ==
  \A text \in PlainTexts, decimals \in SomeDecimals :
    LET units == ToStroops(text, decimals)
        digits == text.before \o text.after
        sign == IF text.negative THEN -1 ELSE 1
    IN units # NoAmount =>
         units * 10^Len(text.after) = sign * DigitsValue(digits) * 10^decimals

(* expandScientificNotation() moves the point and changes nothing else. *)
ASSUME ExpandedIsTheSameNumber ==
  \A text \in ScientificTexts :
    LET plain == Expanded(text)
        power == text.exponent + Len(plain.after)
    IN /\ ~Scientific(plain)
       /\ DigitsValue(plain.before \o plain.after) * 10^Len(text.after)
            = DigitsValue(text.before \o text.after) * 10^power

(* An amount of digits reads the same to the write methods and to          *)
(* toStroops() of a token without decimals.                                *)
ASSUME AmountsAgree ==
  \A text \in PlainTexts :
    ValidateAmount(text) # NoAmount => ValidateAmount(text) = ToStroops(text, 0)

(* Answers of the contract: ids in any order, some of them repeated. *)
RawLists ==
  {[i \in DOMAIN ids |-> [id |-> ids[i], at |-> i]] :
     ids \in UNION {[1..n -> 1..4] : n \in 0..4}}

(* A list has every will of the answer once, as it came first, in the      *)
(* order of the ids.                                                       *)
ASSUME EachWillOnceInOrder ==
  \A raw \in RawLists :
    LET list == MapWillList(raw)
    IN /\ \A i, j \in DOMAIN list : i < j => list[i].id < list[j].id
       /\ \A i \in DOMAIN raw : \E j \in DOMAIN list :
            list[j].id = raw[i].id /\ list[j].at <= i
       /\ \A j \in DOMAIN list : raw[list[j].at] = list[j]

(* The pages of a list that grows at its end while they are read, as ids   *)
(* do, are what a single answer at the end would have been.                *)
ASSUME PagesCoverTheList ==
  \A early, late \in 0..3, size \in {Absent} \cup 1..3, first \in {Absent, 0} :
    LET then == [i \in 1..early |-> [id |-> i]]
        later == [i \in 1..(early + late) |-> [id |-> i]]
        pages[n \in 0..8] ==
          IF n = 0 THEN Paginate(then, size, first)
          ELSE IF pages[n - 1].nextCursor = Absent THEN pages[n - 1]
          ELSE LET more == Paginate(later, size, pages[n - 1].nextCursor)
               IN [wills |-> pages[n - 1].wills \o more.wills,
                   nextCursor |-> more.nextCursor]
        all == pages[8]
    IN /\ all.nextCursor = Absent
       /\ all.wills \in {then, later}

ASSUME OffsetsAndSizes ==
  /\ PageRefused(0, Absent) /\ PageRefused(1, Malformed) /\ PageRefused(Malformed, 0)
  /\ \A start \in 0..6 : ~PageRefused(Absent, start)
       /\ Len(Paginate([i \in 1..3 |-> [id |-> i]], Absent, start).wills)
            = IF start > 3 THEN 0 ELSE 3 - start

(* Both take the same addresses where no other kind is allowed; a kind     *)
(* that is allowed adds its own addresses and no others.                   *)
ASSUME AddressesAgree ==
  \A text \in AddressTexts :
    /\ BeneficiaryAddressError(text) = "valid" <=> StellarAddressError(text, {}) = "valid"
    /\ \A allowed \in SUBSET {"C", "M"} :
         StellarAddressError(text, allowed) = "valid" <=>
           /\ text.string /\ ~text.empty /\ ~text.spaced
           /\ \E kind \in allowed \cup {"G"} : OfKind(text, kind)

ContractCalls ==
  [type : {"hostFunction"}, source : {"a", "b"},
   body : [kind : {"invokeContract", "uploadWasm"}, auth : {"x", "y"},
           call : [contract : {"w", "v"}, name : {"f"}, args : {<<>>, <<1>>, <<2>>}]]]
OtherOperations == [type : {"payment"}, source : {"a", "b"}, body : {"x", "y"}]
SomeOperations == ContractCalls \cup OtherOperations

IsCall(op) == op.type = "hostFunction" /\ op.body.kind = "invokeContract"
Plain(ops) == [kind |-> "v1", operations |-> ops]
Bumped(ops) == [kind |-> "feeBump", inner |-> Plain(ops)]

(* What is let through calls what was intended, whatever else it says of   *)
(* the call; other operations are the same in full.                        *)
ASSUME PreparedCallsTheSame ==
  \A intended, prepared \in SomeOperations :
    TransactionsMatch(Plain(<<intended>>), Bumped(<<prepared>>), "none") <=>
      \/ IsCall(intended) /\ IsCall(prepared) /\ intended.body.call = prepared.body.call
      \/ intended = prepared /\ intended \in OtherOperations

(* Operations neither trade places, nor come, nor go. *)
ASSUME OperationsStayInPlace ==
  \A one, two \in OtherOperations :
    /\ ~TransactionsMatch(Plain(<<one, two>>), Plain(<<one>>), "none")
    /\ ~TransactionsMatch(Plain(<<one>>), Plain(<<one, two>>), "none")
    /\ TransactionsMatch(Plain(<<one, two>>), Plain(<<two, one>>), "none") <=> one = two

(* Where the keys are expected, every signature is by one of them and over *)
(* this transaction; where their hints differ nothing else is refused.     *)
ASSUME SignaturesAreExpected ==
  \A hintOf \in [{"k", "l", "m"} -> {1, 2}], over \in {"this", "that"},
     by \in {"k", "l", "m"}, size \in {"64", "other"},
     expected \in {<<>>, <<"k">>, <<"k", "l">>, <<"l", "k">>} :
    LET signature == [size |-> size, hintSize |-> "4", hint |-> hintOf[by],
                      by |-> by, over |-> over]
        named == \E i \in DOMAIN expected : expected[i] = by
        supported == SupportedSignatures(<<signature>>, "this", hintOf, expected)
    IN /\ supported => size = "64" /\ (expected # <<>> => named /\ over = "this")
       /\ size = "64" /\ named /\ over = "this" /\ hintOf["k"] # hintOf["l"] => supported

SomeErrors ==
  LET levels == {e \in [class : {"contract", "timeout", "simulation", "other"},
                        code : {NoCode, 1, 9}, field : {NoCode, 1, 9}] :
                   /\ e.class # "simulation" => e.field = NoCode
                   /\ e.class = "simulation" => e.code = NoCode}
  IN UNION {[1..n -> levels] : n \in 1..3}

(* An error that passes through several methods of the client, each of     *)
(* which maps it, stays what it became the first time, and what it was is  *)
(* among its causes.                                                       *)
ASSUME MappedOnce ==
  \A error \in SomeErrors :
    LET once == MapContractError(error)
        twice == MapContractError(once)
    IN /\ twice[1].class = once[1].class /\ twice[1].code = once[1].code
       /\ IsSuffix(error, once) /\ IsSuffix(once, twice)
       /\ once[1].class = "contract" /\ error[1].class # "contract" =>
            once[1].code \in KnownCodes
=============================================================================
