-------------------------- MODULE DoorWatcherProofs -------------------------
(***************************************************************************)
(* Theorems about the sender, for every size of a byte, every choice of    *)
(* upper halves and every heartbeat; first what the operations on packets  *)
(* give that it is made of.                                                *)
(***************************************************************************)
EXTENDS DoorWatcher, TLAPS

(* The counter and the upper half of a vector are numbers: to adds and      *)
(* multiplies numbers (common.cpp:7-16).                                    *)
LEMMA ToIsNumber ==
  ASSUME NEW v \in IV, NEW at \in {0, 8}
  PROVE  to(v, at) \in Nat
<1> DEFINE digit(m, n) == m + Base * n
<1>1. /\ v[at] \in Nat /\ v[at+1] \in Nat /\ v[at+2] \in Nat /\ v[at+3] \in Nat
      /\ v[at+4] \in Nat /\ v[at+5] \in Nat /\ v[at+6] \in Nat
      /\ v[at+7] \in Nat
  BY BaseAssumption DEF IV, Byte
<1>2. \A m, n \in Nat : digit(m, n) \in Nat
  <2> SUFFICES ASSUME NEW m \in Nat, NEW n \in Nat PROVE digit(m, n) \in Nat
    OBVIOUS
  <2>1. Base * n \in Nat
    BY BaseAssumption
  <2> QED
    BY <2>1
<1>3. to(v, at) =
        digit(v[at+7], digit(v[at+6], digit(v[at+5], digit(v[at+4],
        digit(v[at+3], digit(v[at+2], digit(v[at+1], v[at])))))))
  BY DEF to
<1> HIDE DEF digit
<1> QED
  BY <1>1, <1>2, <1>3, Zenon

(* A message has an upper half and a counter.                               *)
LEMMA HalvesAreNumbers ==
  ASSUME NEW m, m.iv \in IV
  PROVE  iv_top(m) \in Nat /\ iv_bottom(m) \in Nat
BY ToIsNumber DEF iv_top, iv_bottom

(* Counting up leaves a vector of bytes, carries and wrap included          *)
(* (common.cpp:75-87).                                                      *)
LEMMA IncrementedVector ==
  ASSUME NEW p \in Packet
  PROVE  inc_iv_bottom(p) \in Packet
<1> DEFINE s0 == iv_bottom(p) + 1
           s1 == s0 \div Base
           s2 == s1 \div Base
           s3 == s2 \div Base
           s4 == s3 \div Base
           s5 == s4 \div Base
           s6 == s5 \div Base
           s7 == s6 \div Base
           counter == <<s7, s6, s5, s4, s3, s2, s1, s0>>
           iv == [i \in 0 .. 15 |-> IF i < 8 THEN p.iv[i]
                                    ELSE counter[i-7] % Base]
<1>1. inc_iv_bottom(p) = [p EXCEPT !.iv = iv]
  BY DEF inc_iv_bottom
<1>2. \A n \in Nat : n \div Base \in Nat /\ n % Base \in Byte
  BY BaseAssumption DEF Byte
<1>3. s0 \in Nat
  BY HalvesAreNumbers DEF Packet
<1> HIDE DEF s0
<1>4. s1 \in Nat
  BY <1>2, <1>3
<1> HIDE DEF s1
<1>5. s2 \in Nat
  BY <1>2, <1>4
<1> HIDE DEF s2
<1>6. s3 \in Nat
  BY <1>2, <1>5
<1> HIDE DEF s3
<1>7. s4 \in Nat
  BY <1>2, <1>6
<1> HIDE DEF s4
<1>8. s5 \in Nat
  BY <1>2, <1>7
<1> HIDE DEF s5
<1>9. s6 \in Nat
  BY <1>2, <1>8
<1> HIDE DEF s6
<1>10. s7 \in Nat
  BY <1>2, <1>9
<1> HIDE DEF s7
<1>11. \A i \in 8 .. 15 : counter[i-7] \in Nat
  BY <1>3, <1>4, <1>5, <1>6, <1>7, <1>8, <1>9, <1>10
<1> HIDE DEF counter
<1>12. \A i \in 0 .. 7 : p.iv[i] \in Byte
  BY DEF IV, Packet
<1>13. iv \in IV
  BY <1>2, <1>11, <1>12 DEF IV
<1> QED
  BY <1>1, <1>13 DEF Packet

(* Numbers of digits: quotient and remainder are the only ones.             *)
LEMMA Remainders ==
  ASSUME NEW b \in Nat, b >= 1, NEW q \in Nat, NEW r \in 0 .. b - 1
  PROVE  (r + b * q) \div b = q /\ (r + b * q) % b = r
OBVIOUS

LEMMA Quotients ==
  ASSUME NEW b \in Nat, b >= 1, NEW x \in Nat
  PROVE  /\ x = (x % b) + b * (x \div b)
         /\ x % b \in 0 .. b - 1 /\ x \div b \in Nat
OBVIOUS

(* The last digit, and the others.                                          *)
LEMMA LastDigit ==
  ASSUME NEW b \in Nat, b >= 1, NEW m \in Nat, m >= 1, NEW x \in Nat
  PROVE  /\ x % (b * m) = (x % b) + b * ((x \div b) % m)
         /\ b * m \in Nat /\ b * m >= 1
<1> DEFINE q == x \div b
           r == x % b
           p == q \div m
           s == q % m
<1>1. /\ x = r + b * q /\ r \in 0 .. b - 1 /\ q \in Nat
  BY Quotients
<1>2. /\ q = s + m * p /\ s \in 0 .. m - 1 /\ p \in Nat
  BY <1>1, Quotients
<1> HIDE DEF q, r, p, s
<1>3. x = (r + b * s) + (b * m) * p
  <2>1. \A i, j, k, l, n \in Nat : i + j * (k + l * n) = (i + j * k) + (j * l) * n
    OBVIOUS
  <2> QED
    BY <1>1, <1>2, <2>1
<1>4. b * m \in Nat /\ b * m >= 1
  OBVIOUS
<1>5. r + b * s \in 0 .. b * m - 1
  <2>1. b * s \in Nat /\ r + b * s \in Nat
    BY <1>1, <1>2
  <2>2. b * s <= b * (m - 1) /\ b * (m - 1) = b * m - b
    BY <1>2
  <2> QED
    BY <1>1, <1>4, <2>1, <2>2
<1>6. x % (b * m) = r + b * s
  BY <1>2, <1>3, <1>4, <1>5, Remainders
<1> QED
  BY <1>4, <1>6 DEF q, r, s

(* Counting up is adding one to the number that the bytes are, modulo what   *)
(* eight bytes hold; the upper half keeps out of it (common.cpp:75-87).      *)
LEMMA CountsUp ==
  ASSUME NEW p \in Packet
  PROVE  /\ iv_bottom(inc_iv_bottom(p)) = (iv_bottom(p) + 1) % Base8
         /\ \A i \in 0 .. 7 : inc_iv_bottom(p).iv[i] = p.iv[i]
<1> DEFINE s0 == iv_bottom(p) + 1
           s1 == s0 \div Base
           s2 == s1 \div Base
           s3 == s2 \div Base
           s4 == s3 \div Base
           s5 == s4 \div Base
           s6 == s5 \div Base
           s7 == s6 \div Base
           counter == <<s7, s6, s5, s4, s3, s2, s1, s0>>
           iv == [i \in 0 .. 15 |-> IF i < 8 THEN p.iv[i]
                                    ELSE counter[i-7] % Base]
           P2 == Base * Base
           P3 == Base * P2
           P4 == Base * P3
           P5 == Base * P4
           P6 == Base * P5
           P7 == Base * P6
<1>1. inc_iv_bottom(p).iv = iv
  BY DEF inc_iv_bottom, Packet
<1>2. /\ iv[15] = s0 % Base /\ iv[14] = s1 % Base /\ iv[13] = s2 % Base
      /\ iv[12] = s3 % Base /\ iv[11] = s4 % Base /\ iv[10] = s5 % Base
      /\ iv[9] = s6 % Base /\ iv[8] = s7 % Base
      /\ \A i \in 0 .. 7 : iv[i] = p.iv[i]
  OBVIOUS
<1> HIDE DEF iv, counter
<1>3. s0 \in Nat
  BY HalvesAreNumbers DEF Packet
<1>4. /\ s1 \in Nat /\ s2 \in Nat /\ s3 \in Nat /\ s4 \in Nat
      /\ s5 \in Nat /\ s6 \in Nat /\ s7 \in Nat
  <2>1. \A n \in Nat : n \div Base \in Nat
    BY BaseAssumption
  <2> QED
    BY <1>3, <2>1, Zenon
<1>5. ASSUME NEW m \in Nat, m >= 1, NEW x \in Nat
      PROVE  /\ x % (Base * m) = (x % Base) + Base * ((x \div Base) % m)
             /\ Base * m \in Nat /\ Base * m >= 1
  <2>1. Base \in Nat /\ Base >= 1
    BY BaseAssumption
  <2> QED
    BY <1>5, <2>1, LastDigit, Zenon
<1>6. P2 \in Nat /\ P2 >= 1 /\ s6 % P2 = (s6 % Base) + Base * (s7 % Base)
  <2>1. Base \in Nat /\ Base >= 1
    BY BaseAssumption
  <2> QED
    BY <1>4, <1>5, <2>1
<1>7. P3 \in Nat /\ P3 >= 1 /\ s5 % P3 = (s5 % Base) + Base * (s6 % P2)
  <2> HIDE DEF P2
  <2> QED  BY <1>4, <1>5, <1>6
<1>8. P4 \in Nat /\ P4 >= 1 /\ s4 % P4 = (s4 % Base) + Base * (s5 % P3)
  <2> HIDE DEF P3
  <2> QED  BY <1>4, <1>5, <1>7
<1>9. P5 \in Nat /\ P5 >= 1 /\ s3 % P5 = (s3 % Base) + Base * (s4 % P4)
  <2> HIDE DEF P4
  <2> QED  BY <1>4, <1>5, <1>8
<1>10. P6 \in Nat /\ P6 >= 1 /\ s2 % P6 = (s2 % Base) + Base * (s3 % P5)
  <2> HIDE DEF P5
  <2> QED  BY <1>4, <1>5, <1>9
<1>11. P7 \in Nat /\ P7 >= 1 /\ s1 % P7 = (s1 % Base) + Base * (s2 % P6)
  <2> HIDE DEF P6
  <2> QED  BY <1>4, <1>5, <1>10
<1>12. s0 % (Base * P7) = (s0 % Base) + Base * (s1 % P7)
  <2> HIDE DEF P7
  <2> QED  BY <1>3, <1>5, <1>11
<1>13. Base * P7 = Base8
  <2>1. \A b \in Nat :
          b * (b * (b * (b * (b * (b * (b * b))))))
            = ((b * b) * (b * b)) * ((b * b) * (b * b))
    OBVIOUS
  <2> QED
    BY <2>1, BaseAssumption DEF Base8, Base2
<1>14. iv_bottom(inc_iv_bottom(p)) =
         iv[15] + Base * (iv[14] + Base * (iv[13] + Base * (iv[12] +
         Base * (iv[11] + Base * (iv[10] + Base * (iv[9] + Base * iv[8]))))))
  BY <1>1 DEF iv_bottom, to
<1> HIDE DEF s0, s1, s2, s3, s4, s5, s6, s7, P2, P3, P4, P5, P6, P7
<1>15. iv_bottom(inc_iv_bottom(p)) = s0 % Base8
  BY <1>2, <1>6, <1>7, <1>8, <1>9, <1>10, <1>11, <1>12, <1>13, <1>14, Zenon
<1> QED
  BY <1>1, <1>2, <1>15 DEF s0

(* Equal numbers are of equal bytes (common.cpp:7-16): receivers that compare *)
(* upper halves as numbers compare the bytes.                               *)
LEMMA EqualBytes ==
  ASSUME NEW v \in IV, NEW w \in IV, to(v, 0) = to(w, 0)
  PROVE  \A i \in 0 .. 7 : v[i] = w[i]
<1> DEFINE digit(r, q) == r + Base * q
           a1(u) == digit(u[1], u[0])
           a2(u) == digit(u[2], a1(u))
           a3(u) == digit(u[3], a2(u))
           a4(u) == digit(u[4], a3(u))
           a5(u) == digit(u[5], a4(u))
           a6(u) == digit(u[6], a5(u))
<1>1. ASSUME NEW u \in IV, NEW i \in 0 .. 7 PROVE u[i] \in 0 .. Base - 1 /\ u[i] \in Nat
  BY BaseAssumption DEF IV, Byte
<1>2. \A r \in 0 .. Base - 1, q \in Nat : digit(r, q) \in Nat
  <2> SUFFICES ASSUME NEW r \in 0 .. Base - 1, NEW q \in Nat PROVE digit(r, q) \in Nat
    OBVIOUS
  <2>1. Base * q \in Nat
    BY BaseAssumption
  <2> QED
    BY <2>1
<1>3. \A r, s \in 0 .. Base - 1, p, q \in Nat :
        digit(r, p) = digit(s, q) => r = s /\ p = q
  <2>1. Base \in Nat /\ Base >= 1
    BY BaseAssumption
  <2>2. ASSUME NEW r \in 0 .. Base - 1, NEW q \in Nat
        PROVE  digit(r, q) \div Base = q /\ digit(r, q) % Base = r
    BY <2>1, Remainders
  <2> HIDE DEF digit
  <2> QED
    BY <2>2
<1>4. \A u : to(u, 0) = digit(u[7], a6(u))
  BY DEF to
<1> HIDE DEF digit
<1>5. \A u \in IV : a1(u) \in Nat
  BY <1>1, <1>2
<1> HIDE DEF a1
<1>6. \A u \in IV : a2(u) \in Nat
  BY <1>1, <1>2, <1>5
<1> HIDE DEF a2
<1>7. \A u \in IV : a3(u) \in Nat
  BY <1>1, <1>2, <1>6
<1> HIDE DEF a3
<1>8. \A u \in IV : a4(u) \in Nat
  BY <1>1, <1>2, <1>7
<1> HIDE DEF a4
<1>9. \A u \in IV : a5(u) \in Nat
  BY <1>1, <1>2, <1>8
<1> HIDE DEF a5
<1>10. \A u \in IV : a6(u) \in Nat
  BY <1>1, <1>2, <1>9
<1> HIDE DEF a6
<1>11. v[7] = w[7] /\ a6(v) = a6(w)
  BY <1>1, <1>3, <1>4, <1>10
<1>12. v[6] = w[6] /\ a5(v) = a5(w)
  BY <1>1, <1>3, <1>9, <1>11 DEF a6
<1>13. v[5] = w[5] /\ a4(v) = a4(w)
  BY <1>1, <1>3, <1>8, <1>12 DEF a5
<1>14. v[4] = w[4] /\ a3(v) = a3(w)
  BY <1>1, <1>3, <1>7, <1>13 DEF a4
<1>15. v[3] = w[3] /\ a2(v) = a2(w)
  BY <1>1, <1>3, <1>6, <1>14 DEF a3
<1>16. v[2] = w[2] /\ a1(v) = a1(w)
  BY <1>1, <1>3, <1>5, <1>15 DEF a2
<1>17. v[1] = w[1] /\ v[0] = w[0]
  BY <1>1, <1>3, <1>16 DEF a1
<1> QED
  BY <1>11, <1>12, <1>13, <1>14, <1>15, <1>16, <1>17

(* What the two bytes that parse_packet mixes up count.                      *)
LEMMA MiddleDigits ==
  ASSUME NEW v \in IV
  PROVE  /\ (to(v, 8) \div Base2) % Base = v[13]
         /\ (to(v, 8) \div (Base2 * Base)) % Base = v[12]
<1> DEFINE n == v[11] + Base * (v[10] + Base * (v[9] + Base * v[8]))
           d == v[12] + Base * n
           e == v[13] + Base * d
<1>1. /\ \A i \in 8 .. 15 : v[i] \in Nat /\ v[i] \in 0 .. Base - 1
      /\ Base \in Nat /\ Base >= 1
  BY BaseAssumption DEF IV, Byte
<1>2. \A i, j \in Nat : i + Base * j \in Nat
  BY <1>1
<1>3. n \in Nat /\ d \in Nat /\ e \in Nat
  <2>1. n \in Nat
    BY <1>1, <1>2
  <2> HIDE DEF n
  <2>2. d \in Nat
    BY <1>1, <1>2, <2>1
  <2> HIDE DEF d
  <2> QED
    BY <1>1, <1>2, <2>1, <2>2
<1>4. to(v, 8) = v[15] + Base * (v[14] + Base * e)
  BY DEF to
<1>5. d % Base = v[12] /\ e % Base = v[13] /\ e \div Base = d
  <2>1. ASSUME NEW q \in Nat, NEW r \in 0 .. Base - 1
        PROVE  (r + Base * q) \div Base = q /\ (r + Base * q) % Base = r
    BY <1>1, Remainders
  <2>2. v[12] \in 0 .. Base - 1 /\ v[13] \in 0 .. Base - 1
    BY <1>1
  <2>3. d % Base = v[12]
    BY <1>3, <2>1, <2>2, Zenon
  <2>4. e % Base = v[13] /\ e \div Base = d
    BY <1>3, <2>1, <2>2, Zenon
  <2> QED
    BY <2>3, <2>4
<1> HIDE DEF n, d, e
<1>6. to(v, 8) \div Base2 = e
  <2>1. Base2 \in Nat /\ Base2 >= 1
    BY <1>1 DEF Base2
  <2>2. v[15] + Base * v[14] \in 0 .. Base2 - 1
    <3>1. \A i, j \in 0 .. Base - 1 : i + Base * j \in 0 .. Base * Base - 1
      <4> SUFFICES ASSUME NEW i \in 0 .. Base - 1, NEW j \in 0 .. Base - 1
                   PROVE  i + Base * j \in 0 .. Base * Base - 1
        OBVIOUS
      <4>1. Base * j <= Base * (Base - 1) /\ Base * (Base - 1) = Base * Base - Base
        BY <1>1
      <4> QED
        BY <1>1, <1>2, <4>1
    <3> QED
      BY <1>1, <3>1 DEF Base2
  <2>3. to(v, 8) = (v[15] + Base * v[14]) + Base2 * e
    <3>1. \A i, j, k, l \in Nat : i + k * (j + k * l) = (i + k * j) + (k * k) * l
      OBVIOUS
    <3> QED
      BY <1>1, <1>3, <1>4, <3>1 DEF Base2
  <2> QED
    BY <1>3, <2>1, <2>2, <2>3, Remainders
<1>7. to(v, 8) \div (Base2 * Base) = d
  <2>1. \A x, a, b \in Nat : a >= 1 /\ b >= 1 => x \div (a * b) = (x \div a) \div b
    <3> SUFFICES ASSUME NEW x \in Nat, NEW a \in Nat, NEW b \in Nat, a >= 1, b >= 1
                 PROVE  x \div (a * b) = (x \div a) \div b
      OBVIOUS
    <3>1. x % (a * b) = (x % a) + a * ((x \div a) % b) /\ a * b \in Nat /\ a * b >= 1
      BY LastDigit
    <3>2. x = (x % a) + a * (x \div a) /\ x \div a \in Nat /\ x % a \in Nat
      BY Quotients
    <3> DEFINE r == x % a
               y == x \div a
               s == y % b
               q == y \div b
    <3>3. y = s + b * q /\ s \in Nat /\ q \in Nat
      <4>1. y \in Nat
        BY <3>2
      <4> HIDE DEF y
      <4> QED
        BY <4>1, Quotients
    <3>4. x = (r + a * s) + (a * b) * q
      <4>1. \A i, j, k, l, m \in Nat :
              i + j * (k + l * m) = (i + j * k) + (j * l) * m
        OBVIOUS
      <4>2. x = r + a * y /\ r \in Nat
        BY <3>2
      <4> HIDE DEF r, y, s, q
      <4> QED
        BY <3>3, <4>1, <4>2
    <3>5. x % (a * b) \in 0 .. a * b - 1
      BY <3>1, Quotients
    <3> HIDE DEF r, y, s, q
    <3>6. r + a * s \in 0 .. a * b - 1 /\ q \in Nat
      BY <3>1, <3>3, <3>5 DEF r, y, s
    <3>7. x \div (a * b) = q
      BY <3>1, <3>4, <3>6, Remainders
    <3> QED
      BY <3>7 DEF q, y
  <2>2. to(v, 8) \in Nat /\ Base2 \in Nat /\ Base2 >= 1
    BY <1>1, ToIsNumber DEF Base2
  <2> QED
    BY <1>1, <1>5, <1>6, <2>1, <2>2
<1> QED
  BY <1>5, <1>6, <1>7

(* A frame is read right if and only if these two bytes agree                *)
(* (common.cpp:59-61).                                                      *)
LEMMA ReadRight ==
  ASSUME NEW p, p.iv \in IV
  PROVE  parse_packet(lora_write(p)).iv = p.iv <=> p.iv[12] = p.iv[13]
<1> DEFINE iv == parse_packet(lora_write(p)).iv
<1>1. iv = [i \in 0 .. 15 |-> p.iv[SourceByte(i) - 1]]
  <2>1. lora_write(p).bytes =
          [i \in 0 .. 16 |-> IF i = 0 THEN p.header ELSE p.iv[i-1]]
    BY DEF lora_write, FRAMING_SIZE
  <2>2. \A i \in 0 .. 15 : SourceByte(i) \in 1 .. 16
    BY DEF SourceByte
  <2>3. iv = [i \in 0 .. 15 |-> lora_write(p).bytes[SourceByte(i)]]
    BY DEF parse_packet
  <2> QED
    BY <2>1, <2>2, <2>3
<1>2. iv[12] = p.iv[13] /\ \A i \in 0 .. 15 : i # 12 => iv[i] = p.iv[i]
  BY <1>1 DEF SourceByte
<1> HIDE DEF iv
<1>3. DOMAIN p.iv = 0 .. 15 /\ DOMAIN iv = 0 .. 15
  BY <1>1 DEF IV
<1>4. ASSUME p.iv[12] = p.iv[13] PROVE iv = p.iv
  <2>1. \A i \in 0 .. 15 : iv[i] = p.iv[i]
    BY <1>2, <1>4
  <2>2. iv = [i \in 0 .. 15 |-> iv[i]] /\ p.iv = [i \in 0 .. 15 |-> p.iv[i]]
    BY <1>1 DEF IV
  <2> QED
    BY <2>1, <2>2
<1> QED
  BY <1>2, <1>4 DEF iv

(* A packet with a payload is written as a whole frame (common.cpp:20-26).  *)
LEMMA WrittenFrame ==
  ASSUME NEW p \in Packet, p.payload \in Cipher
  PROVE  lora_write(p) \in Frame
<1>1. [i \in 0 .. FRAMING_SIZE - 1 |-> IF i = 0 THEN p.header ELSE p.iv[i-1]]
        \in [0 .. FRAMING_SIZE - 1 -> Byte]
  <2>1. p.header \in Byte
    BY BaseAssumption DEF Packet, MESSAGE_HEADER, Byte
  <2>2. \A i \in 1 .. FRAMING_SIZE - 1 : p.iv[i-1] \in Byte
    BY DEF Packet, IV, FRAMING_SIZE
  <2> QED
    BY <2>1, <2>2 DEF FRAMING_SIZE
<1> QED
  BY <1>1 DEF lora_write, Frame

-----------------------------------------------------------------------------
(* send_message (main.cpp:99-111) puts a whole frame on the air, which tells *)
(* the reading it was called with.                                          *)
LEMMA SentFrame ==
  ASSUME TypeOK, send_message
  PROVE  /\ air' \in Frame
         /\ air'.payload.text = Message(new_state)
         /\ packet' \in Packet
         /\ state' = new_state
<1> DEFINE cipher == Encrypt(Message(new_state), packet.iv)
           p == [packet EXCEPT !.payload = cipher]
<1>1. packet \in Packet
  BY DEF TypeOK
<1>2. cipher \in Cipher
  BY <1>1 DEF Encrypt, Cipher, Message, Text, DoorMessage, Packet
<1>3. p \in Packet /\ p.payload = cipher
  BY <1>1, <1>2 DEF Packet
<1>4. air' = lora_write(p) /\ packet' = inc_iv_bottom(p) /\ state' = new_state
  BY DEF send_message, Payload
<1>5. cipher.text = Message(new_state)
  BY DEF Encrypt
<1> HIDE DEF p, cipher
<1>6. lora_write(p).payload = cipher
  BY <1>3 DEF lora_write
<1> QED
  BY <1>2, <1>3, <1>4, <1>5, <1>6, WrittenFrame, IncrementedVector

(***************************************************************************)
(* The state of class DoorWatcher (main.cpp:17-35) keeps its types.        *)
(***************************************************************************)
LEMMA TypeStep == TypeOK /\ [Next]_vars => TypeOK'
<1> SUFFICES ASSUME TypeOK, [Next]_vars PROVE TypeOK'
  OBVIOUS
<1>1. CASE MoveDoor
  BY <1>1 DEF TypeOK, MoveDoor, watcherVars, DoorState
<1>2. CASE Tick
  BY <1>2, WatcherAssumption DEF TypeOK, Tick, doorVars, watcherVars
<1>3. CASE init_lora_failed
  BY <1>3 DEF TypeOK, init_lora_failed, doorVars, watcherVars
<1>4. CASE init_encryption
  <2>1. PICK top \in Tops :
          packet' = [packet EXCEPT !.iv =
                       [i \in 0 .. 15 |-> IF i < 8 THEN top[i] ELSE @[i]]]
    BY <1>4 DEF init_encryption
  <2>2. [i \in 0 .. 15 |-> IF i < 8 THEN top[i] ELSE packet.iv[i]] \in IV
    <3>1. \A i \in 0 .. 7 : top[i] \in Byte
      BY WatcherAssumption
    <3>2. \A i \in 8 .. 15 : packet.iv[i] \in Byte
      BY DEF TypeOK, Packet, IV
    <3> QED
      BY <3>1, <3>2 DEF IV
  <2> QED
    BY <1>4, <2>1, <2>2 DEF TypeOK, init_encryption, doorVars, Packet
<1>5. CASE check_door
  BY <1>5 DEF TypeOK, check_door, doorVars
<1>6. CASE send_message
  <2>1. air' \in Frame /\ packet' \in Packet /\ state' = new_state
    BY <1>6, SentFrame
  <2> QED
    BY <1>6, <2>1 DEF TypeOK, send_message, Packet, doorVars
<1>7. CASE go_dormant
  BY <1>7 DEF TypeOK, go_dormant, watcherVars
<1>8. CASE wake_up
  BY <1>8 DEF TypeOK, wake_up, watcherVars
<1>9. CASE Restart
  <2>1. ZeroPacket \in Packet
    BY BaseAssumption DEF ZeroPacket, Packet, IV, Byte
  <2>2. 0 \in 0 .. MaxClock
    BY WatcherAssumption
  <2> QED
    BY <1>9, <2>1, <2>2 DEF TypeOK, Restart, DoorState
<1>10. CASE UNCHANGED vars
  BY <1>10 DEF TypeOK, vars
<1> QED
  BY <1>1, <1>2, <1>3, <1>4, <1>5, <1>6, <1>7, <1>8, <1>9, <1>10
  DEF Next, Program

(* It has them when the power comes on. *)
LEMMA TypeInit == Init => TypeOK
<1>1. ZeroPacket \in Packet
  BY BaseAssumption DEF ZeroPacket, Packet, IV, Byte
<1>2. 0 \in 0 .. MaxClock
  BY WatcherAssumption
<1> QED
  BY <1>1, <1>2 DEF Init, TypeOK, DoorState

(* The variables of the sender always have their types; in particular the   *)
(* counter never leaves the bytes of the vector.                            *)
THEOREM TypeCorrect == Spec => []TypeOK
BY TypeInit, TypeStep, PTL DEF Spec

(***************************************************************************)
(* What check_door compares the next reading with is what the last frame   *)
(* told (main.cpp:124-128).                                                *)
(***************************************************************************)
THEOREM BeliefIsTold == Spec => []BelievesWhatItSent
<1>1. Init => BelievesWhatItSent
  BY DEF Init, BelievesWhatItSent
<1>2. BelievesWhatItSent /\ TypeOK /\ [Next]_vars => BelievesWhatItSent'
  <2> SUFFICES ASSUME BelievesWhatItSent, TypeOK, [Next]_vars
               PROVE  BelievesWhatItSent'
    OBVIOUS
  <2>1. CASE UNCHANGED <<state, air>>
    BY <2>1 DEF BelievesWhatItSent
  <2>2. CASE send_message
    BY <2>2, SentFrame, WatcherAssumption DEF BelievesWhatItSent
  <2>3. CASE Restart
    BY <2>3 DEF Restart, BelievesWhatItSent
  <2> QED
    BY <2>1, <2>2, <2>3
    DEF Next, Program, vars, watcherVars, MoveDoor, Tick, init_lora_failed,
        init_encryption, check_door, go_dormant, wake_up
<1> QED
  BY <1>1, <1>2, TypeCorrect, PTL DEF Spec

(***************************************************************************)
(* Every message moves the counter on by one, through all carries of its   *)
(* eight bytes and its wrap, and leaves the upper half alone               *)
(* (common.cpp:75-87).                                                     *)
(***************************************************************************)
THEOREM MessagesAreCounted == Spec => CountsMessages
<1>1. TypeOK /\ [Next]_vars =>
        [pc = "send" /\ pc' = "arm" =>
           /\ iv_bottom(packet') = (iv_bottom(packet) + 1) % Base8
           /\ \A i \in 0 .. 7 : packet'.iv[i] = packet.iv[i]]_vars
  <2> SUFFICES ASSUME TypeOK, [Next]_vars, pc = "send", pc' = "arm"
               PROVE  /\ iv_bottom(packet') = (iv_bottom(packet) + 1) % Base8
                      /\ \A i \in 0 .. 7 : packet'.iv[i] = packet.iv[i]
    OBVIOUS
  <2>1. send_message
    BY DEF vars, Next, Program, MoveDoor, Tick, init_lora_failed, init_encryption,
           check_door, go_dormant, wake_up, Restart
  <2> DEFINE p == [packet EXCEPT !.payload = Payload(new_state)]
  <2>2. p \in Packet /\ p.iv = packet.iv
    BY DEF TypeOK, Packet, Cipher, Payload, Encrypt, Message, Text, DoorMessage
  <2>3. packet' = inc_iv_bottom(p)
    BY <2>1 DEF send_message
  <2>4. iv_bottom(p) = iv_bottom(packet)
    BY <2>2 DEF iv_bottom
  <2> HIDE DEF p
  <2> QED
    BY <2>2, <2>3, <2>4, CountsUp
<1> QED
  BY <1>1, TypeCorrect, PTL DEF Spec, CountsMessages

(***************************************************************************)
(* Which messages parse_packet misreads, for every size of a byte          *)
(* (common.cpp:59-61).                                                     *)
(***************************************************************************)
THEOREM MisreadExactly == Spec => []MisreadFrom
<1>1. TypeOK => MisreadFrom
  <2> SUFFICES ASSUME TypeOK PROVE MisreadFrom
    OBVIOUS
  <2> DEFINE p == [packet EXCEPT !.payload = Encrypt("close", packet.iv)]
  <2>1. packet.iv \in IV /\ p.iv = packet.iv
    BY DEF TypeOK, Packet
  <2>2. parse_packet(lora_write(p)).iv = packet.iv <=> packet.iv[12] = packet.iv[13]
    <3> HIDE DEF p
    <3> QED  BY <2>1, ReadRight
  <2>3. iv_bottom(packet) = to(packet.iv, 8)
    BY DEF iv_bottom
  <2> QED
    BY <2>1, <2>2, <2>3, MiddleDigits DEF MisreadFrom
<1> QED
  BY <1>1, TypeCorrect, PTL
=============================================================================
