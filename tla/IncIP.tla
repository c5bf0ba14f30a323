------------------------------- MODULE IncIP -------------------------------
(***************************************************************************)
(* The step of the allocator's search (ipam/ipam.go, incIP) on the four    *)
(* bytes of an address, and that it is the addition of 1 that Claims takes *)
(* it for, with the wrap-around that ends a search of the last addresses   *)
(* there are.                                                              *)
(***************************************************************************)
EXTENDS Integers, TLAPS

Bytes == 0..255
Address == [1..4 -> Bytes]

\* A byte is incremented, modulo 2^8, if every byte after it has wrapped.
incIP(ip) ==
    [j \in 1..4 |-> IF \A i \in 1..4 : i > j => ip[i] = 255
                    THEN (ip[j] + 1) % 256
                    ELSE ip[j]]

Number(ip) == ((ip[1] * 256 + ip[2]) * 256 + ip[3]) * 256 + ip[4]

\* incIP steps to the next address, and from 255.255.255.255 to 0.0.0.0. No
\* CIDR but 0.0.0.0/0 contains both of these: so Allocate's loop visits each
\* address of any other CIDR once, in order, and ends.
THEOREM IncIPAddsOne ==
    ASSUME NEW ip \in Address
    PROVE  /\ incIP(ip) \in Address
           /\ Number(incIP(ip)) =
                IF \A j \in 1..4 : ip[j] = 255 THEN 0 ELSE Number(ip) + 1
<1>1. ip[1] \in Bytes /\ ip[2] \in Bytes /\ ip[3] \in Bytes /\ ip[4] \in Bytes
  BY DEF Address
<1> DEFINE next(j) == (ip[j] + 1) % 256
<1>2. \A j \in 1..4 :
        /\ next(j) \in Bytes
        /\ ip[j] = 255 => next(j) = 0
        /\ ip[j] # 255 => next(j) = ip[j] + 1
  BY SMT DEF Address, Bytes
<1>3. incIP(ip) \in Address
  BY <1>1, <1>2, SMT DEF incIP, Address
<1>4. /\ incIP(ip)[4] = next(4)
      /\ incIP(ip)[3] = IF ip[4] = 255 THEN next(3) ELSE ip[3]
      /\ incIP(ip)[2] = IF ip[4] = 255 /\ ip[3] = 255 THEN next(2) ELSE ip[2]
      /\ incIP(ip)[1] = IF ip[4] = 255 /\ ip[3] = 255 /\ ip[2] = 255
                        THEN next(1) ELSE ip[1]
  BY SMT DEF incIP
<1> HIDE DEF next
<1>a. ip[1] \in Int /\ ip[2] \in Int /\ ip[3] \in Int /\ ip[4] \in Int
  BY <1>1, SMT DEF Bytes
<1>b. next(1) \in Bytes /\ next(2) \in Bytes /\ next(3) \in Bytes /\ next(4) \in Bytes
  BY <1>2, SMT
<1>5. CASE ip[4] # 255
  <2>1. /\ incIP(ip)[4] = ip[4] + 1 /\ incIP(ip)[3] = ip[3]
        /\ incIP(ip)[2] = ip[2] /\ incIP(ip)[1] = ip[1]
    BY <1>2, <1>4, <1>5, SMT
  <2>2. Number(incIP(ip)) = Number(ip) + 1
    BY <2>1, <1>a, SMT DEF Number
  <2> QED
    BY <2>2, <1>3, <1>5, SMT
<1>6. CASE ip[4] = 255 /\ ip[3] # 255
  <2>1. /\ incIP(ip)[4] = 0 /\ incIP(ip)[3] = ip[3] + 1
        /\ incIP(ip)[2] = ip[2] /\ incIP(ip)[1] = ip[1]
    BY <1>2, <1>4, <1>6, SMT
  <2>2. Number(incIP(ip)) = Number(ip) + 1
    BY <2>1, <1>a, <1>6, SMT DEF Number
  <2> QED
    BY <2>2, <1>3, <1>6, SMT
<1>7. CASE ip[4] = 255 /\ ip[3] = 255 /\ ip[2] # 255
  <2>1. /\ incIP(ip)[4] = 0 /\ incIP(ip)[3] = 0
        /\ incIP(ip)[2] = ip[2] + 1 /\ incIP(ip)[1] = ip[1]
    BY <1>2, <1>4, <1>7, SMT
  <2>2. Number(incIP(ip)) = Number(ip) + 1
    BY <2>1, <1>a, <1>7, SMT DEF Number
  <2> QED
    BY <2>2, <1>3, <1>7, SMT
<1>8. CASE ip[4] = 255 /\ ip[3] = 255 /\ ip[2] = 255
  <2>1. /\ incIP(ip)[4] = 0 /\ incIP(ip)[3] = 0 /\ incIP(ip)[2] = 0
        /\ incIP(ip)[1] = IF ip[1] = 255 THEN 0 ELSE ip[1] + 1
    BY <1>2, <1>4, <1>8, SMT
  <2>2. Number(incIP(ip)) = IF ip[1] = 255 THEN 0 ELSE Number(ip) + 1
    BY <2>1, <1>a, <1>8, SMT DEF Number
  <2>3. (\A j \in 1..4 : ip[j] = 255) <=> ip[1] = 255
    BY <1>8, SMT
  <2> QED
    BY <2>2, <2>3, <1>3, SMT
<1> QED
  BY <1>5, <1>6, <1>7, <1>8

=============================================================================
