------------------------------ MODULE SaeObjects ------------------------------
(***************************************************************************)
(* The bignum and elliptic-curve objects hostap's SAE works on             *)
(* (crypto_sae.rs): heap objects reached through handles, some of them     *)
(* owned by hostap and some borrowed from the curve context, and ABI calls *)
(* that clone their operands, choose between the PKE hardware and software *)
(* arithmetic, and store the result last.  The curve is                    *)
(* y^2 = x^3 - 3x + B over a prime field of P elements with a prime number *)
(* Q of points, like P-256 but small enough to visit every value.  hostap  *)
(* makes one call at a time.  RustCryptoBignum, RustCryptoGroup19 and the  *)
(* engine are external, and give what their operation means.               *)
(***************************************************************************)
EXTENDS Integers, FiniteSets

CONSTANTS
    P, B, Q,      \* field prime, curve coefficient, group order
    ElementMax,   \* largest value of P256_ELEMENT_BYTES bytes
    BigMax,       \* largest value of BIGNUM_BYTES bytes
    Nums, Points, \* hostap's handles
    ResultNum, ResultPoint  \* the ones it has results stored in

A == P - 3
Element == 0..(P - 1)
Big == 0..BigMax
Free == -1
Borrowed == {"prime", "order", "a", "b"}
Value == [prime |-> P, order |-> Q, a |-> A, b |-> B]
Infinity == <<>>
CurveAt(x) == (x^3 + A * x + B) % P
Curve == {xy \in Element \X Element : (xy[2] * xy[2]) % P = CurveAt(xy[1])}
NoPoint == <<Free>>

Prime(n) == n > 1 /\ \A d \in 2..(n - 1) : n % d # 0

\* A curve like P-256: prime field and order, a = -3, values that fit an element.
CurveIsSmallP256 ==
    /\ P > 3 /\ Prime(P) /\ B \in Element /\ Cardinality(Curve) + 1 = Q /\ Prime(Q)
    /\ Q <= ElementMax /\ P <= ElementMax /\ ElementMax < BigMax

VARIABLES
    ec,      \* the EcObject is allocated
    num,     \* BignumObjects: value or Free
    point,   \* PointObjects: Infinity, a point of Curve, or NoPoint
    call     \* the call hostap is in: its operands, their clones, its answer

vars == <<ec, num, point, call>>

NoCall == [at |-> "none"]

Init ==
    /\ CurveIsSmallP256
    /\ ec = FALSE
    /\ num = [h \in Nums \union Borrowed |-> Free]
    /\ point = [h \in Points |-> NoPoint]
    /\ call = NoCall

--------------------------- (* the arithmetic meant *) ---------------------------
Power(u, e) == IF e = 0 THEN 1 ELSE u^e
InverseOf(v, m) == CHOOSE z \in 1..(m - 1) : (z * v) % m = 1
LegendreOf(v, m) == IF v % m = 0 THEN 0
                    ELSE IF \E z \in 1..(m - 1) : (z * z) % m = v % m THEN 1 ELSE -1

Negated(u) == IF u = Infinity THEN u ELSE <<u[1], (P - u[2]) % P>>
SumOf(u, v) ==
    CASE u = Infinity -> v
      [] v = Infinity -> u
      [] v = Negated(u) -> Infinity
      [] OTHER ->
            LET s == IF u = v THEN ((3 * u[1]^2 + A) * InverseOf(2 * u[2], P)) % P
                     ELSE ((v[2] - u[2] + P) * InverseOf((v[1] - u[1] + P) % P, P)) % P
                x == (s * s + 2 * P - u[1] - v[1]) % P
            IN <<x, (s * (u[1] - x + P) + P - u[2]) % P>>
MultipleOf(u) ==
    LET times[k \in 0..BigMax] == IF k = 0 THEN Infinity ELSE SumOf(u, times[k - 1]) IN times

\* The values call op may give for the operands in; none where it has no value.
Meant(op, in) ==
    CASE op = "add" -> {in[1] + in[2]} \intersect Big
      [] op = "sub" -> {in[1] - in[2]} \intersect Big
      [] op = "div" -> IF in[2] = 0 THEN {} ELSE {in[1] \div in[2]}
      [] op = "mod" -> IF in[2] = 0 THEN {} ELSE {in[1] % in[2]}
      [] op = "inverse" -> {z \in 1..(in[2] - 1) : (z * in[1]) % in[2] = 1}
      [] op = "sqrmod" -> IF in[2] = 0 THEN {} ELSE {in[1]^2 % in[2]}
      [] op = "addmod" -> IF in[3] = 0 THEN {} ELSE {(in[1] + in[2]) % in[3]}
      [] op = "exptmod" -> IF in[3] = 0 THEN {} ELSE {Power(in[1], in[2]) % in[3]}
      [] op = "mulmod" -> IF in[3] = 0 THEN {} ELSE {(in[1] * in[2]) % in[3]}
      [] op = "rshift" -> {in[1] \div 2}
      [] op = "rand" -> 0..(in[1] - 1)
      [] op = "legendre" -> {LegendreOf(in[1], in[2])}
      [] op = "y_sqr" -> {CurveAt(in[1])}
      [] op = "point_add" -> {SumOf(in[1], in[2])}
      [] op = "point_mul" -> {MultipleOf(in[1])[in[2]]}
      [] op = "point_invert" -> {Negated(in[1])}
      [] op = "to_bin" -> {in[1]} \ {Infinity}
      [] op = "is_on_curve" -> {in[1] \in Curve \union {Infinity}, FALSE}

------------------------- (* hardware and software *) -------------------------
\* What an engine gives, and whether it may fail instead: the hardware may
\* refuse any request (its mutex wait timed out, the unit failed), software
\* only one without a value.
Hardware(gives) == [gives |-> gives, fails |-> TRUE]
Software(gives) == [gives |-> gives, fails |-> gives = {}]

\* The field engine knows one modulus.
FieldMulHardware(u, v) == (u * v) % P
FieldPowHardware(u, e) == Power(u, e) % P
ComputeYSquaredHardware(x) ==
    (FieldMulHardware(FieldMulHardware(x, x), x) + FieldMulHardware(A, x) + B) % P

bignum_is_p256_prime(m) == m = P
bignum_to_p256_field(v) == v \in Element
bignum_to_p256_exponent(v) == v <= ElementMax

\* Mutant: the field engine is selected without comparing the modulus.
InverseAnyModulus(in) ==
    IF bignum_to_p256_field(in[1])
    THEN Hardware(IF in[1] = 0 THEN {} ELSE {FieldPowHardware(in[1], P - 2)})
    ELSE Software(Meant("inverse", in))

\* The engine each call selects for its operands.  Fermat inverts a field
\* element; zero is refused before.
Inverse(in) ==
    IF bignum_is_p256_prime(in[2]) /\ bignum_to_p256_field(in[1])
    THEN Hardware(IF in[1] = 0 THEN {} ELSE {FieldPowHardware(in[1], P - 2)})
    ELSE Software(Meant("inverse", in))
SqrMod(in) ==
    IF bignum_is_p256_prime(in[2]) /\ bignum_to_p256_field(in[1])
    THEN Hardware({FieldMulHardware(in[1], in[1])}) ELSE Software(Meant("sqrmod", in))
ExpMod(in) ==
    IF bignum_is_p256_prime(in[3]) /\ bignum_to_p256_field(in[1]) /\ bignum_to_p256_exponent(in[2])
    THEN Hardware({FieldPowHardware(in[1], in[2])}) ELSE Software(Meant("exptmod", in))
MulMod(in) ==
    IF bignum_is_p256_prime(in[3]) /\ bignum_to_p256_field(in[1]) /\ bignum_to_p256_field(in[2])
    THEN Hardware({FieldMulHardware(in[1], in[2])}) ELSE Software(Meant("mulmod", in))

\* Euler's power read as a symbol; any other power is an error.
p256_legendre_result(z) ==
    CASE z = 0 -> {0} [] z = 1 -> {1} [] z = P - 1 -> {-1} [] OTHER -> {}
Legendre(in) ==
    IF bignum_is_p256_prime(in[2]) /\ bignum_to_p256_field(in[1])
    THEN Hardware(p256_legendre_result(FieldPowHardware(in[1], (P - 1) \div 2)))
    ELSE Software(Meant("legendre", in))

\* A coordinate that is no field element is left to the group, which may refuse.
YSquared(in) ==
    IF bignum_to_p256_field(in[1]) THEN Hardware({ComputeYSquaredHardware(in[1])})
    ELSE [gives |-> Meant("y_sqr", in), fails |-> TRUE]

\* The identity has no affine form: a call handles it before the engine, or
\* refuses it.  The multiplication engine answers an affine point.
PointAdd(in) ==
    CASE in[1] = Infinity -> Software({in[2]})
      [] in[2] = Infinity -> Software({in[1]})
      [] OTHER -> Hardware({SumOf(in[1], in[2])})
PointMul(in) ==
    IF in[1] = Infinity \/ ~bignum_to_p256_exponent(in[2]) THEN Software({})
    ELSE Hardware({MultipleOf(in[1])[in[2]]} \ {Infinity})
PointInvert(in) ==
    IF in[1] = Infinity THEN Software({Infinity}) ELSE Hardware({Negated(in[1])})
\* An engine that fails reads as "not on the curve".
PointValidate(in) ==
    IF in[1] = Infinity THEN Software({TRUE}) ELSE Software({in[1] \in Curve, FALSE})

Engine(op, in) ==
    CASE op = "inverse" -> Inverse(in)
      [] op = "sqrmod" -> SqrMod(in)
      [] op = "exptmod" -> ExpMod(in)
      [] op = "mulmod" -> MulMod(in)
      [] op = "rand" -> Hardware(Meant("rand", in))
      [] op = "legendre" -> Legendre(in)
      [] op = "y_sqr" -> YSquared(in)
      [] op = "point_add" -> PointAdd(in)
      [] op = "point_mul" -> PointMul(in)
      [] op = "point_invert" -> PointInvert(in)
      [] op = "is_on_curve" -> PointValidate(in)
      [] OTHER -> Software(Meant(op, in))

---------------------------- (* the steps of a call *) ----------------------------
Live(h) == num[h] # Free
HasPoint(h) == point[h] # NoPoint
Owned(h) == h \in Nums
Values(args) == [i \in DOMAIN args |-> IF args[i] \in Points THEN point[args[i]] ELSE num[args[i]]]
NoResult == "none"

\* Operands and result are whole objects, the same or apart, which is what
\* bignum_aliases and point_aliases ask.  entry, nums and points are history:
\* what the operands and all objects were.
Begin(op, args, r) ==
    /\ call' = [at |-> "begun", op |-> op, args |-> args, r |-> r, in |-> <<>>, out |-> {},
                entry |-> Values(args), nums |-> num, points |-> point]
    /\ UNCHANGED <<ec, num, point>>

CloneOperands ==
    /\ call.at = "begun"
    /\ call' = [call EXCEPT !.at = "cloned", !.in = Values(call.args)]
    /\ UNCHANGED <<ec, num, point>>

Compute ==
    /\ call.at = "cloned"
    /\ LET engine == Engine(call.op, call.in) IN
          \/ \E z \in engine.gives : call' = [call EXCEPT !.at = "computed", !.out = {z}]
          \/ engine.fails /\ call' = [call EXCEPT !.at = "failed"]
    /\ UNCHANGED <<ec, num, point>>

\* bignum_store and point_store: only into an owned object.
Store ==
    /\ call.at = "computed"
    /\ \E z \in call.out :
          CASE call.r \in Points ->
                    /\ point' = [point EXCEPT ![call.r] = z]
                    /\ call' = [call EXCEPT !.at = "ok"] /\ UNCHANGED num
            [] call.r \in Nums ->
                    /\ num' = [num EXCEPT ![call.r] = z]
                    /\ call' = [call EXCEPT !.at = "ok"] /\ UNCHANGED point
            [] OTHER ->
                    /\ call' = [call EXCEPT !.at = IF call.r = NoResult THEN "ok" ELSE "failed"]
                    /\ UNCHANGED <<num, point>>
    /\ UNCHANGED ec

Return == call.at \in {"ok", "failed"} /\ call' = NoCall /\ UNCHANGED <<ec, num, point>>

---------------------------------- (* the calls *) ----------------------------------
crypto_bignum_init(h, v) ==
    /\ ~Live(h)
    /\ num' = [num EXCEPT ![h] = v]
    /\ UNCHANGED <<ec, point, call>>

crypto_bignum_deinit(h) ==
    /\ Live(h)
    /\ num' = IF Owned(h) THEN [num EXCEPT ![h] = Free] ELSE num
    /\ UNCHANGED <<ec, point, call>>

bignum_binary(op, u, v, r) == Live(u) /\ Live(v) /\ Live(r) /\ Begin(op, <<u, v>>, r)
bignum_ternary(op, u, v, m, r) ==
    Live(u) /\ Live(v) /\ Live(m) /\ Live(r) /\ Begin(op, <<u, v, m>>, r)
crypto_bignum_rshift(v, r) == Live(v) /\ Live(r) /\ Begin("rshift", <<v>>, r)
\* Entropy masked to the modulus' width is drawn until it is below it.
crypto_bignum_rand(r, m) == Live(m) /\ Live(r) /\ Begin("rand", <<m>>, r)
crypto_bignum_legendre(v, m) ==
    /\ Live(v) /\ Live(m) /\ num[m] > 2 /\ Prime(num[m])
    /\ Begin("legendre", <<v, m>>, NoResult)

crypto_ec_init ==
    /\ ~ec /\ ec' = TRUE
    /\ num' = [h \in DOMAIN num |-> IF h \in Borrowed THEN Value[h] ELSE num[h]]
    /\ UNCHANGED <<point, call>>
crypto_ec_deinit ==
    /\ ec /\ ec' = FALSE
    /\ num' = [h \in DOMAIN num |-> IF h \in Borrowed THEN Free ELSE num[h]]
    /\ UNCHANGED <<point, call>>

\* point_init makes the identity, from_bin a point it has checked.
NewPoint(h, z) ==
    /\ ec /\ ~HasPoint(h)
    /\ point' = [point EXCEPT ![h] = z]
    /\ UNCHANGED <<ec, num, call>>
crypto_ec_point_deinit(h) ==
    /\ HasPoint(h)
    /\ point' = [point EXCEPT ![h] = NoPoint]
    /\ UNCHANGED <<ec, num, call>>

crypto_ec_point_add(u, v, r) ==
    ec /\ HasPoint(u) /\ HasPoint(v) /\ HasPoint(r) /\ Begin("point_add", <<u, v>>, r)
crypto_ec_point_mul(u, k, r) ==
    ec /\ HasPoint(u) /\ Live(k) /\ HasPoint(r) /\ Begin("point_mul", <<u, k>>, r)
crypto_ec_point_invert(u) == ec /\ HasPoint(u) /\ Begin("point_invert", <<u>>, u)
\* The answer is a new owned bignum.
crypto_ec_point_compute_y_sqr(x, h) == ec /\ Live(x) /\ ~Live(h) /\ Begin("y_sqr", <<x>>, h)
crypto_ec_point_to_bin(u) == ec /\ HasPoint(u) /\ Begin("to_bin", <<u>>, NoResult)
crypto_ec_point_is_on_curve(u) == ec /\ HasPoint(u) /\ Begin("is_on_curve", <<u>>, NoResult)

Operands == Nums \union {"prime", "order"}

Called ==
    \/ crypto_ec_init \/ crypto_ec_deinit
    \/ \E h \in Nums, v \in Big : crypto_bignum_init(h, v)
    \/ \E h \in Operands : crypto_bignum_deinit(h)
    \/ \E u, v \in Operands, r \in ResultNum :
          \/ \E op \in {"add", "sub", "div", "mod", "inverse", "sqrmod"} : bignum_binary(op, u, v, r)
          \/ \E op \in {"addmod", "exptmod", "mulmod"}, m \in Operands : bignum_ternary(op, u, v, m, r)
    \/ \E u \in Operands, r \in ResultNum : crypto_bignum_rshift(u, r) \/ crypto_bignum_rand(r, u)
    \/ \E u, m \in Operands : crypto_bignum_legendre(u, m)
    \/ \E h \in Points, z \in Curve \union {Infinity} : NewPoint(h, z)
    \/ \E h \in Points :
          \/ crypto_ec_point_deinit(h) \/ crypto_ec_point_invert(h)
          \/ crypto_ec_point_to_bin(h) \/ crypto_ec_point_is_on_curve(h)
    \/ \E u, v \in Points, r \in ResultPoint : crypto_ec_point_add(u, v, r)
    \/ \E u \in Points, k \in Operands, r \in ResultPoint : crypto_ec_point_mul(u, k, r)
    \/ \E x \in Operands, h \in Nums : crypto_ec_point_compute_y_sqr(x, h)

\* hostap makes its next call when the last one returned.
Next ==
    \/ call = NoCall /\ Called
    \/ CloneOperands \/ Compute \/ Store \/ Return

Spec == Init /\ [][Next]_vars

---------------------------- (* correctness *) ----------------------------
\* What a call leaves behind: only its result differs.
OnlyResult(r) ==
    /\ \A h \in DOMAIN num \ {r} : num[h] = call.nums[h]
    /\ \A h \in DOMAIN point \ {r} : point[h] = call.points[h]

\* A call that returns success gave a value its operation means for the
\* operands as hostap passed them, the result object among them or not, and
\* whichever engine the values selected; it changed no other object.  A call
\* that fails at any step changed none at all.  Every point stays on the curve,
\* and the constants borrowed from the curve context keep their values
\* (bignum_binary, bignum_ternary, crypto_bignum_*, crypto_ec_point_*).
ValuesAreExact ==
    /\ call.at = "ok" =>
          /\ call.out \subseteq Meant(call.op, call.entry)
          /\ call.r # NoResult => Values(<<call.r>>)[1] \in call.out /\ OnlyResult(call.r)
    /\ call.at = "failed" => OnlyResult(NoResult)
    /\ \A h \in Points : point[h] \in Curve \union {Infinity, NoPoint}
    /\ ec => \A h \in Borrowed : num[h] = Value[h]
===============================================================================
