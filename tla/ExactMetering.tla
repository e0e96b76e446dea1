--------------------------- MODULE ExactMetering ---------------------------
(* warpin-types, exact_metering.rs: rational rates, settlement rounded once, *)
(* and decimal strings on the wire.  MaxAmount is the largest u64; products  *)
(* are u128, so they never overflow.  A result is [err, n].                  *)
EXTENDS Integers, Sequences

CONSTANT MaxAmount

Amounts == 0..MaxAmount
Amount(n) == [err |-> "none", n |-> n]
Failed(err) == [err |-> err, n |-> 0]
Fits(n) == IF n \in Amounts THEN Amount(n) ELSE Failed("AmountOverflow")

CheckedAdd(a, b) == Fits(a + b)

GreatestCommonDivisor(left, right) ==
    LET gcd[pair \in Amounts \X Amounts] ==
            LET l == pair[1]
                r == pair[2]
            IN  IF r = 0 THEN l ELSE gcd[<<r, l % r>>]
    IN  gcd[<<left, right>>]

NewRate(numerator, denominator) ==
    LET divisor == GreatestCommonDivisor(numerator, denominator)
    IN  IF denominator = 0 THEN [err |-> "ZeroDenominator", numerator |-> 0, denominator |-> 1]
        ELSE IF numerator = 0 THEN [err |-> "none", numerator |-> 0, denominator |-> 1]
        ELSE [err |-> "none", numerator |-> numerator \div divisor,
              denominator |-> denominator \div divisor]

Roundings == {"Floor", "Ceiling", "RejectInexact"}
SettleUpFirst(rate, quantity, rounding) ==   \* mutant: a whole denominator is added
    LET product == rate.numerator * quantity
        exact == product % rate.denominator = 0
    IN  IF rounding = "Ceiling" THEN Fits((product + rate.denominator) \div rate.denominator)
        ELSE IF exact \/ rounding = "Floor" THEN Fits(product \div rate.denominator)
        ELSE Failed("InexactSettlement")
Settle(rate, quantity, rounding) ==
    LET product == rate.numerator * quantity
        quotient == product \div rate.denominator
        exact == product % rate.denominator = 0
    IN  IF exact \/ rounding = "Floor" THEN Fits(quotient)
        ELSE IF rounding = "Ceiling" THEN Fits(quotient + 1)
        ELSE Failed("InexactSettlement")

(* A decimal string is [digits, ascii]; there is exactly one for a number.   *)
TenTo(k) ==
    LET power[i \in Nat] == IF i = 0 THEN 1 ELSE 10 * power[i - 1]
    IN  power[k]
Decimal(digits) ==
    LET value[i \in 0..Len(digits)] == IF i = 0 THEN 0 ELSE 10 * value[i - 1] + digits[i]
    IN  value[Len(digits)]
MaxDigits == CHOOSE k \in 1..20 : TenTo(k - 1) <= MaxAmount /\ MaxAmount < TenTo(k)
Serialized(n) ==
    LET length == CHOOSE k \in 1..MaxDigits : n < TenTo(k) /\ (k = 1 \/ n >= TenTo(k - 1))
    IN  [digits |-> [i \in 1..length |-> (n \div TenTo(length - i)) % 10], ascii |-> TRUE]
Deserialized(text) ==
    IF \/ text.digits = <<>> \/ Len(text.digits) > MaxDigits
       \/ Len(text.digits) > 1 /\ text.digits[1] = 0
       \/ ~text.ascii
    THEN Failed("NotCanonical") ELSE Fits(Decimal(text.digits))

\* A u64 has twenty digits at most.
ASSUME MeteringAssumption == MaxAmount \in Nat \ {0} /\ \E k \in 1..20 : MaxAmount < TenTo(k)

(* A rate on the wire must be in its reduced form.                           *)
DeserializedRate(numerator, denominator) ==
    LET n == Deserialized(numerator)
        d == Deserialized(denominator)
        rate == NewRate(n.n, d.n)
    IN  IF n.err # "none" THEN n ELSE IF d.err # "none" THEN d
        ELSE IF rate.err # "none" THEN rate
        ELSE IF rate.numerator # n.n \/ rate.denominator # d.n THEN Failed("NotCanonical")
        ELSE rate

(* For the rate a/b and quantities q and r: a settlement is the floor or the *)
(* ceiling of a*q/b, computed without the reduction, unless that is no u64   *)
(* or rounding was refused; settling once never loses to settling in parts   *)
(* (floor) and never charges more (ceiling); and the rate travels: a wire    *)
(* rate is accepted exactly when it is the reduced form of itself, and two   *)
(* accepted rates of one value are one rate.                                 *)
SettlementIsExact(a, b, q, r) ==
    LET rate == NewRate(a, b)
        down(x) == (a * x) \div b
        up(x) == (a * x + b - 1) \div b
        ok(s) == s.err = "none"
        settled(x, rounding) == Settle(rate, x, rounding)
        wire == DeserializedRate(Serialized(a), Serialized(b))
    IN  IF b = 0 THEN rate.err = "ZeroDenominator" /\ wire.err # "none"
        ELSE /\ settled(q, "Floor") = Fits(down(q))
             /\ settled(q, "Ceiling") = Fits(up(q))
             /\ ok(settled(q, "RejectInexact")) <=> (a * q) % b = 0 /\ down(q) <= MaxAmount
             /\ q + r <= MaxAmount =>
                   /\ ok(settled(q + r, "Floor")) =>
                         settled(q, "Floor").n + settled(r, "Floor").n <= settled(q + r, "Floor").n
                   /\ ok(settled(q, "Ceiling")) /\ ok(settled(r, "Ceiling")) =>
                         \/ CheckedAdd(settled(q, "Ceiling").n, settled(r, "Ceiling").n).err # "none"
                         \/ settled(q + r, "Ceiling").n
                               <= settled(q, "Ceiling").n + settled(r, "Ceiling").n
             /\ ok(wire) <=> rate.numerator = a /\ rate.denominator = b
             /\ \A c, d \in Amounts :
                   (d # 0 /\ a * d = b * c) => NewRate(c, d) = rate
=============================================================================
