---------------------------- MODULE ScrollProofs ----------------------------
(***************************************************************************)
(* Proofs about Scroll, for screens, tiles and pictures of any size and    *)
(* any use of the registers: every pixel of an undisturbed picture is in   *)
(* its place.                                                              *)
(*                                                                         *)
(* An address is a number whose digits are the row of pixels, the          *)
(* nametable and the tile: the first part shows that each of its           *)
(* operations changes the digits that it should.  The row of the world     *)
(* that a line shows, and the column of each of its tiles, then move on as *)
(* v does.                                                                 *)
(*                                                                         *)
(* The invariant says where v is at every dot at which rendering moves it  *)
(* (InY and InX), and what was fetched so far: the registers for fetches   *)
(* hold the tile at v, the shift registers the two tiles before it, as far *)
(* as they were shifted.  A pixel is in its place because of that.         *)
(***************************************************************************)
EXTENDS Scroll, SequenceTheorems, TLAPS

-----------------------------------------------------------------------------
(* Places in rows of a length: the quotient and the rest are the only ones. *)

LEMMA Division ==
  ASSUME NEW b \in Nat, b >= 1, NEW q \in Nat, NEW r \in Nat, r < b
  PROVE  (b * q + r) \div b = q /\ (b * q + r) % b = r
<1>1. PICK k, s : k = (b * q + r) \div b /\ s = (b * q + r) % b
  OBVIOUS
<1>2. b * q + r \in Nat
  OBVIOUS
<1>3. k \in Nat /\ s \in Nat /\ s < b /\ b * q + r = b * k + s
  BY <1>1, <1>2
<1>4. CASE k <= q - 1
  <2>1. b * k <= b * (q - 1)
    BY <1>3, <1>4
  <2>2. b * (q - 1) = b * q - b
    OBVIOUS
  <2>3. b * q \in Nat /\ b * k \in Nat
    BY <1>3
  <2> QED BY <1>3, <2>1, <2>2, <2>3
<1>5. CASE k >= q + 1
  <2>1. b * (q + 1) <= b * k
    BY <1>3, <1>5
  <2>2. b * (q + 1) = b * q + b
    OBVIOUS
  <2>3. b * q \in Nat /\ b * k \in Nat
    BY <1>3
  <2> QED BY <1>3, <2>1, <2>2, <2>3
<1>6. k = q
  BY <1>3, <1>4, <1>5
<1>7. s = r
  <2>1. b * q \in Nat
    OBVIOUS
  <2> QED BY <1>3, <1>6, <2>1
<1> QED BY <1>1, <1>6, <1>7

LEMMA Quotients ==
  ASSUME NEW n \in Nat, NEW b \in Nat, b >= 1
  PROVE  n \div b \in Nat /\ n % b \in Nat /\ n % b < b /\ n = b * (n \div b) + (n % b)
OBVIOUS

LEMMA Below ==
  ASSUME NEW b \in Nat, b >= 1, NEW n \in Nat, n < b
  PROVE  n \div b = 0 /\ n % b = n
OBVIOUS

(* One more: the rest grows until it starts again in the next row. *)
LEMMA NextPlace ==
  ASSUME NEW n \in Nat, NEW b \in Nat, b >= 1
  PROVE  /\ n % b < b - 1 => (n + 1) % b = (n % b) + 1 /\ (n + 1) \div b = n \div b
         /\ n % b = b - 1 => (n + 1) % b = 0 /\ (n + 1) \div b = (n \div b) + 1
<1>1. PICK q, r : q = n \div b /\ r = n % b
  OBVIOUS
<1>2. q \in Nat /\ r \in Nat /\ r < b /\ n = b * q + r
  BY <1>1, Quotients
<1>3. PICK p \in Nat : p = b * q
  BY <1>2
<1>4. CASE r < b - 1
  <2>1. n + 1 = b * q + (r + 1)
    BY <1>2, <1>3
  <2>2. r + 1 \in Nat /\ r + 1 < b
    BY <1>2, <1>4
  <2>3. (n + 1) \div b = q /\ (n + 1) % b = r + 1
    BY <1>2, <2>1, <2>2, Division
  <2> QED BY <1>1, <1>4, <2>3
<1>5. CASE r = b - 1
  <2>1. b * (q + 1) = b * q + b
    BY <1>2
  <2>2. n + 1 = b * (q + 1) + 0
    BY <1>2, <1>3, <1>5, <2>1
  <2>3. (n + 1) \div b = q + 1 /\ (n + 1) % b = 0
    BY <1>2, <2>2, Division
  <2> QED BY <1>1, <1>5, <2>3
<1> QED BY <1>1, <1>4, <1>5

(* A quotient in range. *)
LEMMA SmallQuotient ==
  ASSUME NEW n \in Nat, NEW b \in Nat, b >= 1, NEW k \in Nat, n < b * k
  PROVE  n \div b < k
<1>1. PICK q, r : q = n \div b /\ r = n % b
  OBVIOUS
<1>2. q \in Nat /\ r \in Nat /\ r < b /\ n = b * q + r
  BY <1>1, Quotients
<1>3. CASE q >= k
  <2>1. b * k <= b * q
    BY <1>2, <1>3
  <2>2. b * k \in Nat /\ b * q \in Nat
    BY <1>2
  <2> QED BY <1>2, <2>1, <2>2
<1> QED BY <1>1, <1>2, <1>3

(* The last binary digit is the parity. *)
LEMMA Parity ==
  ASSUME NEW n \in Nat
  PROVE  /\ n % 2 \in {0, 1} /\ (n + 1) % 2 = 1 - (n % 2)
         /\ n \in {0, 1} => n % 2 = n
OBVIOUS

(* Two digits: the higher one counts in bases of b * c. *)
TwoDigits(b, c, k, f, n, l) ==
  /\ b \in Nat /\ b >= 1 /\ c \in Nat /\ c >= 1 /\ k \in Nat /\ f \in Nat /\ f < b
  /\ n = b * k + f /\ l = c * b

(* A digit above the lowest is one of the quotient. *)
LEMMA HigherDigit ==
  ASSUME NEW b, NEW c, NEW k, NEW f, NEW n, NEW l, TwoDigits(b, c, k, f, n, l)
  PROVE  n \div l = k \div c /\ n % l = b * (k % c) + f
<1>0. /\ b \in Nat /\ b >= 1 /\ c \in Nat /\ c >= 1 /\ k \in Nat /\ f \in Nat /\ f < b
      /\ n = b * k + f /\ l = c * b
  BY DEF TwoDigits
<1>1. PICK q, r : q = k \div c /\ r = k % c
  OBVIOUS
<1>2. q \in Nat /\ r \in Nat /\ r < c /\ k = c * q + r
  BY <1>0, <1>1, Quotients
<1>3. c * b \in Nat /\ c * b >= 1
  <2>1. c * b >= 1 * b
    BY <1>0
  <2> QED BY <1>0, <2>1
<1>4. b * r + f \in Nat /\ b * r + f < c * b
  <2>1. b * (r + 1) <= b * c
    BY <1>0, <1>2
  <2>2. b * (r + 1) = b * r + b /\ b * c = c * b
    BY <1>0, <1>2
  <2>3. b * r \in Nat /\ c * b \in Nat
    BY <1>0, <1>2
  <2> QED BY <1>0, <1>2, <2>1, <2>2, <2>3
<1>5. b * k + f = (c * b) * q + (b * r + f)
  <2>1. b * k = b * (c * q) + b * r
    BY <1>0, <1>2
  <2>2. b * (c * q) = (c * b) * q
    BY <1>0, <1>2
  <2>3. b * k \in Nat /\ b * r \in Nat /\ (c * b) * q \in Nat
    BY <1>0, <1>2
  <2> QED BY <1>0, <1>2, <2>1, <2>2, <2>3
<1>6. PICK e, p : e = c * b /\ p = b * r + f
  OBVIOUS
<1>7. b * k + f = e * q + p
  BY <1>5, <1>6
<1>8. e \in Nat /\ e >= 1 /\ p \in Nat /\ p < e
  BY <1>3, <1>4, <1>6
<1>9. (e * q + p) \div e = q /\ (e * q + p) % e = p
  BY <1>2, <1>8, Division
<1> QED BY <1>0, <1>1, <1>6, <1>7, <1>9

-----------------------------------------------------------------------------
(* Addresses. *)

Bit == {0, 1}

LEMMA Sizes ==
  /\ Cols \in Nat /\ Cols >= 2 /\ Rows \in Nat /\ Rows >= 4
  /\ FineRows \in Nat /\ FineRows >= 8 /\ TileWidth \in Nat /\ TileWidth >= 4
  /\ Cells \in Nat /\ Cells >= 8
<1>1. Cols * Rows >= 2 * 4
  <2>1. Cols * Rows >= 2 * Rows
    BY ScrollAssumption
  <2> QED BY <2>1, ScrollAssumption
<1>2. Cols * Rows \in Nat
  BY ScrollAssumption
<1> QED BY <1>1, <1>2, ScrollAssumption DEF Cells

(* The fields of an address, each in its place. *)
Places(fy, ny, nx, cy, cx) ==
  fy \in Nat /\ ny \in Bit /\ nx \in Bit /\ cy \in Nat /\ cy < Rows /\ cx \in Nat /\ cx < Cols

Has(a, fy, ny, nx, cy, cx) ==
  /\ a \in Nat
  /\ FineY(a) = fy /\ NtY(a) = ny /\ NtX(a) = nx /\ CoarseY(a) = cy /\ CoarseX(a) = cx

(* An address has the fields that it was made of, ... *)
LEMMA AddrFields ==
  ASSUME NEW fy, NEW ny, NEW nx, NEW cy, NEW cx, Places(fy, ny, nx, cy, cx)
  PROVE  Has(Addr(fy, ny, nx, cy, cx), fy, ny, nx, cy, cx)
<1>1. /\ fy \in Nat /\ ny \in Nat /\ ny < 2 /\ nx \in Nat /\ nx < 2
      /\ cy \in Nat /\ cy < Rows /\ cx \in Nat /\ cx < Cols
  BY DEF Places, Bit
<1>2. PICK n \in Nat : n = ny + 2 * fy
  BY <1>1
<1>3. PICK m \in Nat : m = nx + 2 * n
  BY <1>1
<1>4. PICK l \in Nat : l = cy + Rows * m
  <2>1. Rows * m \in Nat
    BY Sizes
  <2> QED BY <1>1, <2>1
<1>5. PICK a : a = Addr(fy, ny, nx, cy, cx)
  OBVIOUS
<1>6. a = Cols * l + cx
  BY <1>1, <1>2, <1>3, <1>4, <1>5, Sizes DEF Addr
<1>7. a \in Nat
  BY <1>1, <1>6, Sizes
<1>8. a \div Cols = l /\ a % Cols = cx
  <2>1. Cols \in Nat /\ Cols >= 1
    BY Sizes
  <2>2. (Cols * l + cx) \div Cols = l /\ (Cols * l + cx) % Cols = cx
    BY <1>1, <2>1, Division
  <2> QED BY <1>6, <2>2
<1>9. l % Rows = cy
  <2>1. Rows \in Nat /\ Rows >= 1
    BY Sizes
  <2>2. l = Rows * m + cy
    BY <1>1, <1>4, <2>1
  <2>3. (Rows * m + cy) % Rows = cy
    BY <1>1, <2>1, Division
  <2> QED BY <2>2, <2>3
<1>10. PICK p \in Nat : p = cx + Cols * cy /\ p < Cells
  <2>1. Cols * (cy + 1) <= Cols * Rows
    BY <1>1, Sizes
  <2>2. Cols * (cy + 1) = Cols * cy + Cols
    BY <1>1, Sizes
  <2>3. Cols * cy \in Nat
    BY <1>1, Sizes
  <2>4. cx + Cols * cy < Cells
    BY <1>1, <2>1, <2>2, <2>3, Sizes DEF Cells
  <2> QED BY <1>1, <2>3, <2>4
<1>11. a = Cells * m + p
  <2>1. Cols * l = Cols * cy + Cols * (Rows * m)
    BY <1>1, <1>4, Sizes
  <2>2. Cols * (Rows * m) = Cells * m
    BY Sizes DEF Cells
  <2>3. Cols * cy \in Nat /\ Cells * m \in Nat
    BY <1>1, Sizes
  <2> QED BY <1>1, <1>6, <1>10, <2>1, <2>2, <2>3
<1>12. a \div Cells = m
  BY <1>10, <1>11, Sizes, Division
<1>13. m % 2 = nx
  BY <1>1, <1>3
<1>14. PICK c \in Nat : c = 2 * Cells /\ c >= 1
  BY Sizes
<1>15. a \div c = n
  <2>1. PICK e \in Nat : e = Cells * nx
    BY <1>1, Sizes
  <2>2. e <= Cells
    <3>1. nx = 0 \/ nx = 1
      BY <1>1
    <3> QED BY <2>1, <3>1, Sizes
  <2>3. Cells * m = Cells * nx + Cells * (2 * n)
    BY <1>1, <1>3, Sizes
  <2>4. Cells * (2 * n) = c * n
    BY <1>14, Sizes
  <2>5. c * n \in Nat
    BY <1>14
  <2>6. a = c * n + (p + e)
    BY <1>10, <1>11, <2>1, <2>3, <2>4, <2>5
  <2>7. p + e \in Nat /\ p + e < c
    BY <1>10, <1>14, <2>1, <2>2, Sizes
  <2> QED BY <1>14, <2>6, <2>7, Division
<1>16. n % 2 = ny
  BY <1>1, <1>2
<1>17. PICK h \in Nat : h = 4 * Cells /\ h >= 1
  BY Sizes
<1>18. a \div h = fy
  <2>1. PICK q, r : q = a \div c /\ r = a % c
    OBVIOUS
  <2>2. q = n /\ r \in Nat /\ r < c /\ a = c * n + r
    BY <1>7, <1>14, <1>15, <2>1, Quotients
  <2>3. c * n = c * ny + h * fy
    BY <1>1, <1>2, <1>14, <1>17, Sizes
  <2>4. PICK e \in Nat : e = c * ny
    BY <1>1, <1>14
  <2>5. e <= c
    <3>1. ny = 0 \/ ny = 1
      BY <1>1
    <3> QED BY <1>14, <2>4, <3>1
  <2>6. h * fy \in Nat
    BY <1>1, <1>17
  <2>7. a = h * fy + (e + r)
    BY <2>2, <2>3, <2>4, <2>6
  <2>8. e + r \in Nat /\ e + r < h
    BY <1>14, <1>17, <2>2, <2>4, <2>5, Sizes
  <2> QED BY <1>1, <1>17, <2>7, <2>8, Division
<1>19. CoarseX(a) = cx /\ CoarseY(a) = cy
  BY <1>8, <1>9 DEF CoarseX, CoarseY
<1>20. NtX(a) = nx
  BY <1>12, <1>13 DEF NtX
<1>21. NtY(a) = ny
  BY <1>14, <1>15, <1>16 DEF NtY
<1>22. FineY(a) = fy
  BY <1>17, <1>18 DEF FineY
<1> QED BY <1>5, <1>7, <1>19, <1>20, <1>21, <1>22 DEF Has

(* Every address is that of its fields. *)
LEMMA FieldsAddr ==
  ASSUME NEW a \in Nat
  PROVE  /\ Places(FineY(a), NtY(a), NtX(a), CoarseY(a), CoarseX(a))
         /\ a = Addr(FineY(a), NtY(a), NtX(a), CoarseY(a), CoarseX(a))
<1>1. PICK l, cx : l = a \div Cols /\ cx = a % Cols
  OBVIOUS
<1>2. l \in Nat /\ cx \in Nat /\ cx < Cols /\ a = Cols * l + cx
  BY <1>1, Sizes, Quotients
<1>3. PICK m, cy : m = l \div Rows /\ cy = l % Rows
  OBVIOUS
<1>4. m \in Nat /\ cy \in Nat /\ cy < Rows /\ l = Rows * m + cy
  BY <1>2, <1>3, Sizes, Quotients
<1>5. PICK n, nx : n = m \div 2 /\ nx = m % 2
  OBVIOUS
<1>6. n \in Nat /\ nx \in Bit /\ m = 2 * n + nx
  BY <1>4, <1>5 DEF Bit
<1>7. PICK fy, ny : fy = n \div 2 /\ ny = n % 2
  OBVIOUS
<1>8. fy \in Nat /\ ny \in Bit /\ n = 2 * fy + ny
  BY <1>6, <1>7 DEF Bit
<1>9. Places(fy, ny, nx, cy, cx)
  BY <1>2, <1>4, <1>6, <1>8 DEF Places
<1>10. a = Addr(fy, ny, nx, cy, cx)
  <2>1. /\ n = ny + 2 * fy /\ m = nx + 2 * n
        /\ fy \in Int /\ ny \in Int /\ nx \in Int
    BY <1>6, <1>8 DEF Bit
  <2>2. l = cy + Rows * m
    BY <1>4, Sizes
  <2>3. a = cx + Cols * l
    BY <1>2, Sizes
  <2> QED BY <2>1, <2>2, <2>3 DEF Addr
<1>11. Has(a, fy, ny, nx, cy, cx)
  BY <1>9, <1>10, AddrFields
<1> QED BY <1>9, <1>10, <1>11 DEF Has

(* What becomes of the fields of an address. *)
LEMMA IncrementedX ==
  ASSUME NEW a \in Nat
  PROVE  IF CoarseX(a) = Cols - 1
         THEN Has(IncrementX(a), FineY(a), NtY(a), 1 - NtX(a), CoarseY(a), 0)
         ELSE Has(IncrementX(a), FineY(a), NtY(a), NtX(a), CoarseY(a), CoarseX(a) + 1)
<1>1. PICK fy, ny, nx, cy, cx : fy = FineY(a) /\ ny = NtY(a) /\ nx = NtX(a) /\ cy = CoarseY(a) /\ cx = CoarseX(a)
  OBVIOUS
<1>2. Places(fy, ny, nx, cy, cx) /\ a = Addr(fy, ny, nx, cy, cx)
  BY <1>1, FieldsAddr
<1>3. CASE cx = Cols - 1
  <2>1. Places(fy, ny, 1 - nx, cy, 0)
    BY <1>2, Sizes DEF Places, Bit
  <2>2. IncrementX(a) = Addr(fy, ny, 1 - nx, cy, 0)
    BY <1>1, <1>3 DEF IncrementX
  <2> QED BY <1>1, <1>3, <2>1, <2>2, AddrFields
<1>4. CASE cx # Cols - 1
  <2>1. Places(fy, ny, nx, cy, cx + 1)
    BY <1>2, <1>4, Sizes DEF Places
  <2>2. IncrementX(a) = a + 1
    BY <1>1, <1>4 DEF IncrementX
  <2>3. a + 1 = Addr(fy, ny, nx, cy, cx + 1)
    <3>1. PICK p : p = Cols * (cy + Rows * (nx + 2 * (ny + 2 * fy)))
      OBVIOUS
    <3>2. a = cx + p /\ Addr(fy, ny, nx, cy, cx + 1) = (cx + 1) + p
      BY <1>2, <3>1 DEF Addr
    <3>3. p \in Int
      BY <1>2, <3>1, Sizes DEF Places, Bit
    <3> QED BY <1>2, <3>2, <3>3 DEF Places
  <2> QED BY <1>1, <1>4, <2>1, <2>2, <2>3, AddrFields
<1> QED BY <1>3, <1>4

(* Y goes down a row, and below the last row of tiles into the next table. *)
LEMMA IncrementedY ==
  ASSUME NEW a \in Nat
  PROVE  IF FineY(a) < FineRows - 1
         THEN Has(IncrementY(a), FineY(a) + 1, NtY(a), NtX(a), CoarseY(a), CoarseX(a))
         ELSE IF CoarseY(a) = Rows - 3 THEN Has(IncrementY(a), 0, 1 - NtY(a), NtX(a), 0, CoarseX(a))
         ELSE IF CoarseY(a) = Rows - 1 THEN Has(IncrementY(a), 0, NtY(a), NtX(a), 0, CoarseX(a))
         ELSE Has(IncrementY(a), 0, NtY(a), NtX(a), CoarseY(a) + 1, CoarseX(a))
<1>1. PICK fy, ny, nx, cy, cx : fy = FineY(a) /\ ny = NtY(a) /\ nx = NtX(a) /\ cy = CoarseY(a) /\ cx = CoarseX(a)
  OBVIOUS
<1>2. Places(fy, ny, nx, cy, cx) /\ a = Addr(fy, ny, nx, cy, cx)
  BY <1>1, FieldsAddr
<1>3. CASE fy < FineRows - 1
  <2>1. Places(fy + 1, ny, nx, cy, cx)
    BY <1>2 DEF Places
  <2>2. IncrementY(a) = a + 4 * Cells
    BY <1>1, <1>3 DEF IncrementY
  <2>3. a + 4 * Cells = Addr(fy + 1, ny, nx, cy, cx)
    <3>1. PICK m, n : m = nx + 2 * (ny + 2 * fy) /\ n = nx + 2 * (ny + 2 * (fy + 1))
      OBVIOUS
    <3>2. m \in Int /\ n = m + 4 /\ cy \in Int /\ cx \in Int /\ Rows \in Int /\ Cols \in Int
      BY <1>2, <3>1, Sizes DEF Places, Bit
    <3>3. Rows * n = Rows * m + 4 * Rows
      BY <3>2
    <3>4. Cols * (cy + Rows * n) = Cols * (cy + Rows * m) + Cols * (4 * Rows)
      BY <3>2, <3>3
    <3>5. Cols * (4 * Rows) = 4 * Cells
      BY <3>2 DEF Cells
    <3>6. Cols * (cy + Rows * m) \in Int /\ 4 * Cells \in Int
      BY <3>2, Sizes
    <3>7. a = cx + Cols * (cy + Rows * m) /\ Addr(fy + 1, ny, nx, cy, cx) = cx + Cols * (cy + Rows * n)
      BY <1>2, <3>1 DEF Addr
    <3> QED BY <3>2, <3>4, <3>5, <3>6, <3>7
  <2> QED BY <1>1, <1>3, <2>1, <2>2, <2>3, AddrFields
<1>4. CASE ~(fy < FineRows - 1) /\ cy = Rows - 3
  <2>1. Places(0, 1 - ny, nx, 0, cx)
    BY <1>2, Sizes DEF Places, Bit
  <2>2. IncrementY(a) = Addr(0, 1 - ny, nx, 0, cx)
    BY <1>1, <1>4 DEF IncrementY
  <2> QED BY <1>1, <1>4, <2>1, <2>2, AddrFields
<1>5. CASE ~(fy < FineRows - 1) /\ cy # Rows - 3 /\ cy = Rows - 1
  <2>1. Places(0, ny, nx, 0, cx)
    BY <1>2, Sizes DEF Places
  <2>2. IncrementY(a) = Addr(0, ny, nx, 0, cx)
    BY <1>1, <1>5 DEF IncrementY
  <2> QED BY <1>1, <1>5, <2>1, <2>2, AddrFields
<1>6. CASE ~(fy < FineRows - 1) /\ cy # Rows - 3 /\ cy # Rows - 1
  <2>1. Places(0, ny, nx, cy + 1, cx)
    BY <1>2, <1>6, Sizes DEF Places
  <2>2. IncrementY(a) = Addr(0, ny, nx, cy + 1, cx)
    BY <1>1, <1>6 DEF IncrementY
  <2> QED BY <1>1, <1>6, <2>1, <2>2, AddrFields
<1> QED BY <1>1, <1>3, <1>4, <1>5, <1>6

(* A copy takes its part of the fields from t and leaves the others. *)
LEMMA Copied ==
  ASSUME NEW a \in Nat, t \in Nat
  PROVE  /\ Has(CopyX(a), FineY(a), NtY(a), NtX(t), CoarseY(a), CoarseX(t))
         /\ Has(CopyY(a), FineY(t), NtY(t), NtX(a), CoarseY(t), CoarseX(a))
<1>1. /\ Places(FineY(a), NtY(a), NtX(a), CoarseY(a), CoarseX(a))
      /\ Places(FineY(t), NtY(t), NtX(t), CoarseY(t), CoarseX(t))
  BY FieldsAddr
<1>2. /\ Places(FineY(a), NtY(a), NtX(t), CoarseY(a), CoarseX(t))
      /\ Places(FineY(t), NtY(t), NtX(a), CoarseY(t), CoarseX(a))
  BY <1>1 DEF Places
<1> QED BY <1>2, AddrFields DEF CopyX, CopyY

-----------------------------------------------------------------------------
(* The rows of the world. *)

Begun(c) == c.nt \in 0..3 /\ c.y \in Nat /\ c.y < Rows * FineRows

(* The row below. *)
After(r) ==
  IF r.y = ScreenRows - 1 THEN [nt_y |-> 1 - r.nt_y, y |-> 0]
  ELSE [nt_y |-> r.nt_y, y |-> IF r.y = Rows * FineRows - 1 THEN 0 ELSE r.y + 1]

InWorld(r) == r.nt_y \in Bit /\ r.y \in Nat /\ r.y < Rows * FineRows

LEMMA ScreenSize ==
  /\ ScreenRows \in Nat /\ ScreenRows >= 1 /\ Rows * FineRows \in Nat
  /\ ScreenRows + 2 * FineRows = Rows * FineRows
  /\ ScreenRows - 1 = FineRows * (Rows - 3) + (FineRows - 1)
  /\ Rows * FineRows - 1 = FineRows * (Rows - 1) + (FineRows - 1)
<1>1. (Rows - 2) * FineRows = Rows * FineRows - 2 * FineRows
  BY Sizes
<1>2. FineRows * (Rows - 3) = Rows * FineRows - 3 * FineRows
  BY Sizes
<1>3. FineRows * (Rows - 1) = Rows * FineRows - FineRows
  BY Sizes
<1>4. Rows * FineRows \in Nat
  BY Sizes
<1>5. Rows * FineRows >= 4 * FineRows
  BY Sizes
<1> QED BY <1>1, <1>2, <1>3, <1>4, <1>5, Sizes DEF ScreenRows

(* Rows that are counted from the top of a screen. *)
Under(ny, p) == [nt_y |-> (ny + p \div ScreenRows) % 2, y |-> p % ScreenRows]

(* Going down the rows of the screens one by one. *)
LEMMA UnderSteps ==
  ASSUME NEW ny \in Bit, NEW p \in Nat
  PROVE  /\ InWorld(Under(ny, p)) /\ Under(ny, p + 1) = After(Under(ny, p))
         /\ p < ScreenRows => Under(ny, p) = [nt_y |-> ny, y |-> p]
<1>1. PICK b : b = ScreenRows
  OBVIOUS
<1>2. b \in Nat /\ b >= 1 /\ b < Rows * FineRows /\ b - 1 # Rows * FineRows - 1
  BY <1>1, ScreenSize, Sizes
<1>3. PICK q, r : q = p \div b /\ r = p % b
  OBVIOUS
<1>4. q \in Nat /\ r \in Nat /\ r < b
  BY <1>2, <1>3, Quotients
<1>5. Under(ny, p) = [nt_y |-> (ny + q) % 2, y |-> r]
  BY <1>1, <1>3 DEF Under
<1>6. ny + q \in Nat
  BY <1>4 DEF Bit
<1>7. (ny + q) % 2 \in Bit /\ ((ny + q) + 1) % 2 = 1 - ((ny + q) % 2)
  BY <1>6, Parity DEF Bit
<1>8. r < Rows * FineRows
  BY <1>2, <1>4, ScreenSize
<1>9. InWorld(Under(ny, p))
  BY <1>4, <1>5, <1>7, <1>8 DEF InWorld
<1>10. Under(ny, p + 1) = After(Under(ny, p))
  <2>1. CASE r < b - 1
    <3>1. (p + 1) \div b = q /\ (p + 1) % b = r + 1
      BY <1>2, <1>3, <2>1, NextPlace
    <3>2. Under(ny, p + 1) = [nt_y |-> (ny + q) % 2, y |-> r + 1]
      BY <1>1, <3>1 DEF Under
    <3>3. r # ScreenRows - 1 /\ r # Rows * FineRows - 1
      BY <1>1, <1>2, <1>4, <2>1, ScreenSize
    <3> QED BY <1>5, <3>2, <3>3 DEF After
  <2>2. CASE r = b - 1
    <3>1. (p + 1) \div b = q + 1 /\ (p + 1) % b = 0
      BY <1>2, <1>3, <2>2, NextPlace
    <3>2. Under(ny, p + 1) = [nt_y |-> (ny + (q + 1)) % 2, y |-> 0]
      BY <1>1, <3>1 DEF Under
    <3>3. PICK e \in Nat : e = ny + q /\ ny + (q + 1) = e + 1
      BY <1>4 DEF Bit
    <3>4. PICK w, h : w = e % 2 /\ h = (e + 1) % 2
      OBVIOUS
    <3>5. h = 1 - w
      BY <3>4, Parity
    <3>6. Under(ny, p) = [nt_y |-> w, y |-> r] /\ Under(ny, p + 1) = [nt_y |-> h, y |-> 0]
      BY <1>5, <3>2, <3>3, <3>4
    <3>7. r = ScreenRows - 1
      BY <1>1, <2>2
    <3> QED BY <3>5, <3>6, <3>7 DEF After
  <2> QED BY <1>2, <1>4, <2>1, <2>2
<1>11. ASSUME p < ScreenRows PROVE Under(ny, p) = [nt_y |-> ny, y |-> p]
  <2>1. q = 0 /\ r = p
    BY <1>1, <1>2, <1>3, <1>11, Below
  <2>2. (ny + 0) % 2 = ny
    BY DEF Bit
  <2> QED BY <1>5, <2>1, <2>2
<1> QED BY <1>9, <1>10, <1>11

(* The n-th row below the one in which a picture began. *)
RowFrom(c, n) ==
  IF c.y < ScreenRows THEN Under(c.nt \div 2, c.y + n)
  ELSE IF c.y + n < Rows * FineRows THEN [nt_y |-> c.nt \div 2, y |-> c.y + n]
  ELSE Under(c.nt \div 2, (c.y + n) - Rows * FineRows)

LEMMA RowIs ==
  ASSUME NEW n
  PROVE  Row(n) = RowFrom(top, n) /\ Row(n)' = RowFrom(top', n)
BY DEF Row, RowFrom, Under

LEMMA HalfTable ==
  ASSUME NEW c, Begun(c)
  PROVE  c.nt \div 2 \in Bit
<1>1. c.nt = 0 \/ c.nt = 1 \/ c.nt = 2 \/ c.nt = 3
  BY DEF Begun
<1> QED BY <1>1 DEF Bit

LEMMA FirstRow ==
  ASSUME NEW c, Begun(c)
  PROVE  RowFrom(c, 0) = [nt_y |-> c.nt \div 2, y |-> c.y]
<1>1. PICK y, ny : y = c.y /\ ny = c.nt \div 2
  OBVIOUS
<1>2. y \in Nat /\ y < Rows * FineRows /\ ny \in Bit /\ y + 0 = y
  BY <1>1, HalfTable DEF Begun
<1>3. RowFrom(c, 0) = IF y < ScreenRows THEN Under(ny, y + 0)
                     ELSE IF y + 0 < Rows * FineRows THEN [nt_y |-> ny, y |-> y + 0]
                     ELSE Under(ny, (y + 0) - Rows * FineRows)
  BY <1>1 DEF RowFrom
<1> QED BY <1>1, <1>2, <1>3, UnderSteps

(* The next line shows the row below, ... *)
LEMMA NextRow ==
  ASSUME Begun(top), NEW n \in Nat
  PROVE  InWorld(Row(n)) /\ Row(n + 1) = After(Row(n))
<1>1. PICK y, ny, l : y = top.y /\ ny = top.nt \div 2 /\ l = Rows * FineRows
  OBVIOUS
<1>2. y \in Nat /\ l \in Nat /\ y < l /\ ny \in Bit /\ ScreenRows \in Nat /\ ScreenRows < l /\ ScreenRows >= 1
  BY <1>1, HalfTable, ScreenSize, Sizes DEF Begun
<1>3. /\ Row(n) = IF y < ScreenRows THEN Under(ny, y + n)
                  ELSE IF y + n < l THEN [nt_y |-> ny, y |-> y + n]
                  ELSE Under(ny, (y + n) - l)
      /\ Row(n + 1) = IF y < ScreenRows THEN Under(ny, y + (n + 1))
                      ELSE IF y + (n + 1) < l THEN [nt_y |-> ny, y |-> y + (n + 1)]
                      ELSE Under(ny, (y + (n + 1)) - l)
  BY <1>1, RowIs DEF RowFrom
<1>4. CASE y < ScreenRows
  <2>1. y + n \in Nat /\ y + (n + 1) = (y + n) + 1
    BY <1>2
  <2> QED BY <1>2, <1>3, <1>4, <2>1, UnderSteps
<1>5. CASE ~(y < ScreenRows) /\ y + n < l
  <2>1. Row(n) = [nt_y |-> ny, y |-> y + n]
    BY <1>3, <1>5
  <2>2. y + n \in Nat /\ y + n < Rows * FineRows
    BY <1>1, <1>2, <1>5
  <2>3. InWorld(Row(n))
    BY <1>2, <2>1, <2>2 DEF InWorld
  <2>4. y + n # ScreenRows - 1
    BY <1>2, <1>5
  <2>5. CASE y + (n + 1) < l
    <3>1. y + (n + 1) = (y + n) + 1 /\ y + n # l - 1
      BY <1>2, <2>5
    <3>2. Row(n + 1) = [nt_y |-> ny, y |-> (y + n) + 1]
      BY <1>3, <1>5, <2>5, <3>1
    <3> QED BY <1>1, <2>1, <2>3, <2>4, <3>1, <3>2 DEF After
  <2>6. CASE ~(y + (n + 1) < l)
    <3>1. (y + (n + 1)) - l = 0 /\ y + n = l - 1
      BY <1>2, <1>5, <2>6
    <3>2. Row(n + 1) = Under(ny, 0)
      BY <1>3, <1>5, <2>6, <3>1
    <3>3. Row(n + 1) = [nt_y |-> ny, y |-> 0]
      BY <1>2, <3>2, UnderSteps
    <3> QED BY <1>1, <2>1, <2>3, <2>4, <3>1, <3>3 DEF After
  <2> QED BY <2>5, <2>6
<1>6. CASE ~(y < ScreenRows) /\ ~(y + n < l)
  <2>1. PICK p : p = (y + n) - l
    OBVIOUS
  <2>2. p \in Nat /\ (y + (n + 1)) - l = p + 1 /\ ~(y + (n + 1) < l)
    BY <1>2, <1>6, <2>1
  <2>3. Row(n) = Under(ny, p) /\ Row(n + 1) = Under(ny, p + 1)
    BY <1>3, <1>6, <2>1, <2>2
  <2> QED BY <1>2, <2>2, <2>3, UnderSteps
<1> QED BY <1>4, <1>5, <1>6

(* v at the row r. *)
At(a, r) == NtY(a) = r.nt_y /\ CoarseY(a) = r.y \div FineRows /\ FineY(a) = r.y % FineRows

(* ... and IncrementY goes there. *)
LEMMA RowBelow ==
  ASSUME NEW a \in Nat, NEW r, InWorld(r), At(a, r)
  PROVE  /\ At(IncrementY(a), After(r)) /\ IncrementY(a) \in Nat
         /\ NtX(IncrementY(a)) = NtX(a) /\ CoarseX(IncrementY(a)) = CoarseX(a)
<1>1. PICK y, q, f : y = r.y /\ q = y \div FineRows /\ f = y % FineRows
  OBVIOUS
<1>2. y \in Nat /\ q \in Nat /\ f \in Nat /\ f < FineRows /\ y = FineRows * q + f
  <2>1. y \in Nat
    BY <1>1 DEF InWorld
  <2>2. FineRows \in Nat /\ FineRows >= 1
    BY Sizes
  <2> QED BY <1>1, <2>1, <2>2, Quotients
<1>3. q < Rows
  BY <1>1, <1>2, SmallQuotient, Sizes DEF InWorld
<1>4. NtY(a) = r.nt_y /\ CoarseY(a) = q /\ FineY(a) = f
  BY <1>1 DEF At
<1>5. PICK b : b = IncrementY(a)
  OBVIOUS
<1>6. IF f < FineRows - 1 THEN Has(b, f + 1, NtY(a), NtX(a), q, CoarseX(a))
      ELSE IF q = Rows - 3 THEN Has(b, 0, 1 - NtY(a), NtX(a), 0, CoarseX(a))
      ELSE IF q = Rows - 1 THEN Has(b, 0, NtY(a), NtX(a), 0, CoarseX(a))
      ELSE Has(b, 0, NtY(a), NtX(a), q + 1, CoarseX(a))
  BY <1>4, <1>5, IncrementedY
<1>7. 0 \div FineRows = 0 /\ 0 % FineRows = 0
  BY Sizes, Below
<1>8. FineRows \in Nat /\ FineRows >= 1
  BY Sizes
<1>9. PICK s, w : s = ScreenRows - 1 /\ w = Rows * FineRows - 1
  OBVIOUS
<1>10. /\ s = FineRows * (Rows - 3) + (FineRows - 1)
       /\ w = FineRows * (Rows - 1) + (FineRows - 1)
  BY <1>9, ScreenSize
<1>11. /\ s \div FineRows = Rows - 3 /\ s % FineRows = FineRows - 1
       /\ w \div FineRows = Rows - 1 /\ w % FineRows = FineRows - 1
  <2>1. PICK c, d, e : c = Rows - 3 /\ d = Rows - 1 /\ e = FineRows - 1
    OBVIOUS
  <2>2. c \in Nat /\ d \in Nat /\ e \in Nat /\ e < FineRows
    BY <2>1, Sizes
  <2> QED BY <1>8, <1>10, <2>1, <2>2, Division
<1>12. CASE f < FineRows - 1
  <2>1. (y + 1) \div FineRows = q /\ (y + 1) % FineRows = f + 1
    BY <1>1, <1>2, <1>8, <1>12, NextPlace
  <2>2. y # s /\ y # w
    BY <1>1, <1>11, <1>12, <1>2, <1>8
  <2>3. After(r) = [nt_y |-> r.nt_y, y |-> y + 1]
    BY <1>1, <1>9, <2>2 DEF After
  <2> QED BY <1>4, <1>5, <1>6, <1>12, <2>1, <2>3 DEF At, Has
<1>13. CASE ~(f < FineRows - 1)
  <2>1. f = FineRows - 1
    BY <1>2, <1>8, <1>13
  <2>2. CASE q = Rows - 3
    <3>1. y = s
      BY <1>2, <1>10, <2>1, <2>2
    <3>2. After(r) = [nt_y |-> 1 - r.nt_y, y |-> 0]
      BY <1>1, <1>9, <3>1 DEF After
    <3> QED BY <1>4, <1>5, <1>6, <1>7, <1>13, <2>2, <3>2 DEF At, Has
  <2>3. CASE q = Rows - 1
    <3>1. y = w
      BY <1>2, <1>10, <2>1, <2>3
    <3>2. q # Rows - 3
      BY <2>3, Sizes
    <3>3. y # s
      BY <1>1, <1>11, <3>2
    <3>4. After(r) = [nt_y |-> r.nt_y, y |-> 0]
      BY <1>1, <1>9, <3>1, <3>3 DEF After
    <3> QED BY <1>4, <1>5, <1>6, <1>7, <1>13, <2>3, <3>2, <3>4 DEF At, Has
  <2>4. CASE q # Rows - 3 /\ q # Rows - 1
    <3>1. y # s /\ y # w
      BY <1>1, <1>11, <2>4
    <3>2. After(r) = [nt_y |-> r.nt_y, y |-> y + 1]
      BY <1>1, <1>9, <3>1 DEF After
    <3>3. (y + 1) \div FineRows = q + 1 /\ (y + 1) % FineRows = 0
      <4>1. y \div FineRows = q /\ y % FineRows = FineRows - 1 /\ y \in Nat
        BY <1>1, <1>2, <2>1
      <4> QED BY <1>8, <4>1, NextPlace
    <3> QED BY <1>4, <1>5, <1>6, <1>13, <2>4, <3>2, <3>3 DEF At, Has
  <2> QED BY <2>2, <2>3, <2>4
<1> QED BY <1>12, <1>13

-----------------------------------------------------------------------------
(* The tiles of a line. *)

KnownX == column.nt # Unknown /\ column.x # Unknown
KnownY == top.nt # Unknown /\ top.y # Unknown

InScreen(c) == c.nt \in 0..3 /\ c.x \in Nat /\ c.x < Cols * TileWidth

(* The m-th tile, from the column in which the line began. *)
Tiles(m)   == column.x \div TileWidth + m
TileNt(m)  == (column.nt + Tiles(m) \div Cols) % 2
TileCol(m) == Tiles(m) % Cols

(* The address a is at the m-th tile. *)
AtTile(a, m) == NtX(a) = TileNt(m) /\ CoarseX(a) = TileCol(m)

LEMMA TilesAre ==
  ASSUME InScreen(column), NEW m \in Nat
  PROVE  /\ column.x \div TileWidth \in Nat /\ column.x \div TileWidth < Cols
         /\ Tiles(m) \in Nat /\ Tiles(m + 1) = Tiles(m) + 1
<1>1. PICK c, q : c = column.x /\ q = c \div TileWidth
  OBVIOUS
<1>2. c \in Nat /\ c < TileWidth * Cols /\ TileWidth \in Nat /\ TileWidth >= 1 /\ Cols \in Nat
  BY <1>1, Sizes DEF InScreen
<1>3. q \in Nat /\ q < Cols
  <2>1. q \in Nat
    BY <1>1, <1>2, Quotients
  <2>2. q < Cols
    BY <1>1, <1>2, SmallQuotient
  <2> QED BY <2>1, <2>2
<1> QED BY <1>1, <1>3 DEF Tiles

LEMMA FirstTile ==
  ASSUME InScreen(column)
  PROVE  TileNt(0) = column.nt % 2 /\ TileCol(0) = column.x \div TileWidth
<1>1. PICK q : q = column.x \div TileWidth
  OBVIOUS
<1>2. q \in Nat /\ q < Cols /\ Tiles(0) = q
  BY <1>1, TilesAre DEF Tiles
<1>3. q \div Cols = 0 /\ q % Cols = q
  BY <1>2, Sizes, Below
<1>4. column.nt + 0 = column.nt
  BY DEF InScreen
<1> QED BY <1>1, <1>2, <1>3, <1>4 DEF TileNt, TileCol

(* IncrementX goes from a tile to the next. *)
LEMMA TileRight ==
  ASSUME InScreen(column), NEW m \in Nat, NEW a \in Nat, AtTile(a, m)
  PROVE  /\ IncrementX(a) \in Nat /\ AtTile(IncrementX(a), m + 1)
         /\ \A r : At(a, r) => At(IncrementX(a), r)
<1>1. PICK b, k, nt : b = IncrementX(a) /\ k = Tiles(m) /\ nt = column.nt
  OBVIOUS
<1>2. k \in Nat /\ Tiles(m + 1) = k + 1 /\ nt \in Nat
  BY <1>1, TilesAre DEF InScreen
<1>3. Cols \in Nat /\ Cols >= 1
  BY Sizes
<1>4. PICK q \in Nat : q = k \div Cols
  BY <1>2, <1>3, Quotients
<1>5. NtX(a) = (nt + q) % 2 /\ CoarseX(a) = k % Cols
  BY <1>1, <1>4 DEF AtTile, TileNt, TileCol
<1>6. PICK e \in Nat : e = nt + q /\ nt + (q + 1) = e + 1
  BY <1>2, <1>4
<1>7. IF CoarseX(a) = Cols - 1
      THEN Has(b, FineY(a), NtY(a), 1 - NtX(a), CoarseY(a), 0)
      ELSE Has(b, FineY(a), NtY(a), NtX(a), CoarseY(a), CoarseX(a) + 1)
  BY <1>1, IncrementedX
<1>8. k % Cols \in Nat /\ k % Cols < Cols
  BY <1>2, <1>3, Quotients
<1>9. b \in Nat /\ NtY(b) = NtY(a) /\ CoarseY(b) = CoarseY(a) /\ FineY(b) = FineY(a)
  BY <1>7 DEF Has
<1>10. CASE k % Cols = Cols - 1
  <2>1. (k + 1) % Cols = 0 /\ (k + 1) \div Cols = q + 1
    BY <1>2, <1>3, <1>4, <1>10, NextPlace
  <2>2. TileNt(m + 1) = (e + 1) % 2 /\ TileCol(m + 1) = 0
    BY <1>1, <1>2, <1>6, <2>1 DEF TileNt, TileCol
  <2>3. NtX(b) = 1 - NtX(a) /\ CoarseX(b) = 0
    BY <1>5, <1>7, <1>10 DEF Has
  <2>4. PICK w, h : w = e % 2 /\ h = (e + 1) % 2
    OBVIOUS
  <2>5. h = 1 - w
    BY <2>4, Parity
  <2>6. NtX(a) = w
    BY <1>5, <1>6, <2>4
  <2> QED BY <1>1, <1>9, <2>2, <2>3, <2>4, <2>5, <2>6 DEF AtTile, At
<1>11. CASE k % Cols # Cols - 1
  <2>1. k % Cols < Cols - 1
    BY <1>3, <1>8, <1>11
  <2>2. (k + 1) % Cols = (k % Cols) + 1 /\ (k + 1) \div Cols = q
    BY <1>2, <1>3, <1>4, <2>1, NextPlace
  <2>3. TileNt(m + 1) = (nt + q) % 2 /\ TileCol(m + 1) = (k % Cols) + 1
    BY <1>1, <1>2, <2>2 DEF TileNt, TileCol
  <2>4. NtX(b) = NtX(a) /\ CoarseX(b) = CoarseX(a) + 1
    BY <1>5, <1>7, <1>11 DEF Has
  <2> QED BY <1>1, <1>5, <1>9, <2>3, <2>4 DEF AtTile, At
<1> QED BY <1>10, <1>11

(* The pixel at a position of the k-th tile. *)
LEMMA ColumnIs ==
  ASSUME InScreen(column), x \in Nat, NEW d \in Nat, NEW k \in Nat, NEW f \in Nat, f < TileWidth,
         x + d = (TileWidth * k + f) + 1
  PROVE  /\ Column(d).nt_x = TileNt(k)
         /\ Column(d).x \div TileWidth = TileCol(k) /\ Column(d).x % TileWidth = f
<1>1. TileWidth \in Nat /\ TileWidth >= 1 /\ Cols \in Nat /\ Cols >= 1
  BY Sizes
<1>2. PICK q \in Nat : q = column.x \div TileWidth
  BY TilesAre
<1>3. PICK n \in Nat : n = q + k /\ Tiles(k) = n
  BY <1>2 DEF Tiles
<1>4. TileWidth * q + x + d - 1 = TileWidth * n + f
  <2>1. TileWidth * n = TileWidth * q + TileWidth * k
    BY <1>1, <1>3
  <2>2. PICK g \in Nat, h \in Nat : g = TileWidth * q /\ h = TileWidth * k
    BY <1>1
  <2> QED BY <2>1, <2>2
<1>5. /\ (TileWidth * n + f) \div (Cols * TileWidth) = n \div Cols
      /\ (TileWidth * n + f) % (Cols * TileWidth) = TileWidth * (n % Cols) + f
  <2>1. TwoDigits(TileWidth, Cols, n, f, TileWidth * n + f, Cols * TileWidth)
    BY <1>1 DEF TwoDigits
  <2> QED BY <2>1, HigherDigit
<1>7. n % Cols \in Nat
  BY <1>1, Quotients
<1>8. PICK e : e = n % Cols
  OBVIOUS
<1>9. (TileWidth * e + f) \div TileWidth = e /\ (TileWidth * e + f) % TileWidth = f
  BY <1>1, <1>7, <1>8, Division
<1>10. Column(d).nt_x = (column.nt + n \div Cols) % 2 /\ Column(d).x = TileWidth * e + f
  BY <1>2, <1>4, <1>5, <1>8 DEF Column, VisibleEnd
<1> QED BY <1>3, <1>8, <1>9, <1>10 DEF TileNt, TileCol

-----------------------------------------------------------------------------
(* The shift registers. *)

Holds(shift) == shift = [i \in 1..(2 * TileWidth) |-> shift[i]]

(* A shift moves every position down by one and clears the last. *)
LEMMA Shifting ==
  ASSUME NEW shift, Holds(shift)
  PROVE  /\ Holds(Shifted(shift))
         /\ \A i \in 1..(2 * TileWidth) : Shifted(shift)[i] = IF i = 2 * TileWidth THEN {} ELSE shift[i + 1]
<1>1. PICK n \in Nat : n = 2 * TileWidth /\ n >= 1
  BY Sizes
<1>2. PICK S : S = {shift[i] : i \in 1..n} \union {{}}
  OBVIOUS
<1>3. \A i \in 1..n : shift[i] \in S
  BY <1>2
<1>4. shift \in [1..n -> S]
  BY <1>1, <1>3 DEF Holds
<1>5. shift \in Seq(S) /\ Len(shift) = n
  BY <1>4
<1>6. shift # <<>>
  BY <1>1, <1>5
<1>7. PICK u : u = Tail(shift)
  OBVIOUS
<1>8. u \in Seq(S) /\ Len(u) = n - 1 /\ \A i \in 1..(n - 1) : u[i] = shift[i + 1]
  BY <1>5, <1>6, <1>7, HeadTailProperties
<1>9. PICK w : w = Append(u, {})
  OBVIOUS
<1>10. {} \in S
  BY <1>2
<1>11. /\ w \in Seq(S) /\ Len(w) = Len(u) + 1
       /\ \A i \in 1..Len(u) : w[i] = u[i]
       /\ w[Len(u) + 1] = {}
  BY <1>8, <1>9, <1>10, AppendProperties
<1>12. /\ Len(w) = n /\ w[n] = {}
       /\ \A i \in 1..(n - 1) : w[i] = shift[i + 1]
  BY <1>1, <1>8, <1>11
<1>13. w = [i \in 1..n |-> w[i]]
  BY <1>11, <1>12
<1>14. Shifted(shift) = w
  BY <1>7, <1>9 DEF Shifted
<1>15. Holds(w)
  BY <1>1, <1>13 DEF Holds
<1>16. \A i \in 1..n : w[i] = IF i = n THEN {} ELSE shift[i + 1]
  BY <1>1, <1>12
<1> QED BY <1>1, <1>14, <1>15, <1>16

-----------------------------------------------------------------------------
(* The invariant. *)

TileAt(m, n) ==
  [page |-> Page(TileNt(m), Row(n).nt_y), row |-> Row(n).y \div FineRows, col |-> TileCol(m),
   fine_y |-> Row(n).y % FineRows]

PaletteAt(m, n) ==
  [page |-> Page(TileNt(m), Row(n).nt_y), row |-> (Row(n).y \div FineRows) \div 2,
   col |-> TileCol(m) \div 2]

(* What a position of the shift registers holds that began as the p-th one *)
(* in the m-th tile, with the tiles low and high in their halves.          *)
InLane(lane, p, m, low, high) ==
  /\ p <= TileWidth /\ m >= 2 => lane = {<<low, p - 1>>}
  /\ TileWidth < p /\ p <= 2 * TileWidth /\ m >= 1 => lane = {<<high, p - TileWidth - 1>>}
  /\ p > 2 * TileWidth => lane = {}

(* The shift registers when they were shifted s times. *)
Filled(shift, m, s, low, high) == \A i \in 1..(2 * TileWidth) : InLane(shift[i], i + s, m, low, high)

Lanes(shift, m, s, n) == Filled(shift, m, s, TileAt(m - 2, n), TileAt(m - 1, n))

(* The palette in use for the lower half of the shift registers: that of   *)
(* the tile in it, but the two fetches before the line's first dot leave   *)
(* the first tile with the second one's palette.                           *)
PaletteOf(m, n) == PaletteAt(IF m = 2 THEN 1 ELSE m - 2, n)

(* The m-th tile comes next, ... *)
Comes(m, n) ==
  /\ m >= 1 => tile = TileAt(m - 1, n) /\ next_palette = PaletteAt(m - 1, n)
  /\ m >= 3 => curr_palette = PaletteOf(m, n)
  /\ Lanes(Loaded(tile_shift), m, 0, n)

(* ... and s of its dots were fetched. *)
Fetched(m, s, n) ==
  /\ tile_addr = TileAt(m, n)
  /\ s >= 3 => tile = TileAt(m, n)
  /\ s >= 2 => next_palette = PaletteAt(m, n)
  /\ m >= 1 => curr_palette = PaletteAt(m - 1, n)
  /\ m >= 2 => prev_palette = PaletteOf(m, n)
  /\ Lanes(tile_shift, m, s, n)

Known == KnownX /\ KnownY

Fetching(m, s, n) ==
  /\ KnownX => AtTile(v, m)
  /\ Known => IF s = 0 THEN Comes(m, n) ELSE Fetched(m, s, n)

Drawing == steady /\ (line < Height \/ (line = Prerender /\ dot >= SprFetchStart))

(* The line that is fetched: this one, and from its end on the next one.   *)
Due == IF line = Prerender THEN 0 ELSE IF dot >= VisibleEnd THEN line + 1 ELSE line

InY == (line = Prerender /\ dot = SprFetchStart) \/ (KnownY => At(v, Row(Due)))

InX ==
  /\ dot < VisibleEnd => Fetching(2 + dot \div TileWidth, dot % TileWidth, Due)
  /\ SprFetchStart <= dot /\ dot < SprFetchEnd /\ KnownX => AtTile(v, 0)
  /\ SprFetchEnd <= dot /\ dot < PrefetchEnd =>
       Fetching((dot - SprFetchEnd) \div TileWidth, (dot - SprFetchEnd) % TileWidth, Due)
  /\ dot >= PrefetchEnd => Fetching(2, 0, Due)
  /\ (dot = 0 \/ dot > PrefetchEnd) /\ Known => curr_palette = PaletteOf(2, Due)

InPlace == Drawing => InY /\ InX

NtIn(c) == c.nt = Unknown \/ c.nt \in 0..3
XIn(c)  == c.x = Unknown \/ (c.x \in Nat /\ c.x < Cols * TileWidth)
YIn(c)  == c.y = Unknown \/ (c.y \in Nat /\ c.y < Rows * FineRows)

Typed ==
  /\ line \in Nat /\ line <= Prerender /\ dot \in Nat /\ dot <= CycleEnd
  /\ v \in Nat /\ t \in Nat /\ x \in Nat /\ x < TileWidth
  /\ write_latch \in BOOLEAN /\ second = write_latch
  /\ rendering \in BOOLEAN /\ steady \in BOOLEAN /\ (steady => rendering)
  /\ Holds(tile_shift)
  /\ want = [nt |-> want.nt, x |-> want.x, y |-> want.y]
  /\ NtIn(want) /\ XIn(want) /\ YIn(want) /\ NtIn(column) /\ XIn(column) /\ NtIn(top) /\ YIn(top)

(* Of what the program asked for, t holds what is known. *)
Asks ==
  /\ want.nt # Unknown => NtX(t) = want.nt % 2 /\ NtY(t) = want.nt \div 2
  /\ want.x # Unknown => CoarseX(t) = want.x \div TileWidth
  /\ want.y # Unknown => CoarseY(t) = want.y \div FineRows /\ FineY(t) = want.y % FineRows

IInv == Typed /\ Asks /\ InPlace /\ PictureInPlace

-----------------------------------------------------------------------------
(* Types. *)

(* The dots of a line in their order. *)
LEMMA Dots ==
  /\ VisibleEnd \in Nat /\ VisibleEnd >= 8 /\ TileWidth \in Nat /\ TileWidth >= 4
  /\ SprFetchStart = VisibleEnd + 1 /\ SprFetchEnd = VisibleEnd + TileWidth
  /\ PrefetchStart = VisibleEnd + TileWidth + 1 /\ PrefetchEnd = VisibleEnd + 3 * TileWidth
  /\ CycleEnd = VisibleEnd + 3 * TileWidth + 2
  /\ Height \in Nat /\ Height >= 1 /\ Height <= Rows * FineRows /\ Prerender = Height + 1
<1>1. VisibleEnd \in Nat /\ VisibleEnd >= 8
  <2>1. Cols * TileWidth >= 2 * TileWidth
    BY Sizes
  <2>2. Cols * TileWidth \in Nat
    BY Sizes
  <2> QED BY <2>1, <2>2, Sizes DEF VisibleEnd
<1>2. Height \in Nat /\ Height >= 1 /\ Height <= Rows * FineRows
  BY ScrollAssumption
<1> QED BY <1>1, <1>2, Sizes DEF SprFetchStart, SprFetchEnd, PrefetchStart, PrefetchEnd, CycleEnd, Prerender

LEMMA InitTypes == Init => Typed /\ Asks
<1> SUFFICES ASSUME Init PROVE Typed /\ Asks
  OBVIOUS
<1>1. PICK c \in Corners : want = c /\ t = CornerAddr(c) /\ x = c.x % TileWidth
  BY DEF Init
<1>2. c \in [nt : 0..3, x : 0..(Cols * TileWidth - 1), y : 0..(Rows * FineRows - 1)]
  BY ScrollAssumption
<1>3. c = [nt |-> c.nt, x |-> c.x, y |-> c.y] /\ c.nt \in 0..3
  BY <1>2
<1>4. c.x \in Nat /\ c.x < Cols * TileWidth /\ c.y \in Nat /\ c.y < Rows * FineRows
  <2>1. Cols * TileWidth \in Nat /\ Rows * FineRows \in Nat
    BY Sizes
  <2> QED BY <1>2, <2>1
<1>5. TileWidth \in Nat /\ TileWidth >= 1 /\ FineRows \in Nat /\ FineRows >= 1 /\ Cols \in Nat /\ Rows \in Nat
  BY Sizes
<1>6. PICK q, r, n, f : q = c.x \div TileWidth /\ r = c.x % TileWidth /\ n = c.y \div FineRows /\ f = c.y % FineRows
  OBVIOUS
<1>7. q \in Nat /\ r \in Nat /\ r < TileWidth /\ n \in Nat /\ f \in Nat
  <2>1. q \in Nat /\ r \in Nat /\ r < TileWidth
    BY <1>4, <1>5, <1>6, Quotients
  <2>2. n \in Nat /\ f \in Nat
    BY <1>4, <1>5, <1>6, Quotients
  <2> QED BY <2>1, <2>2
<1>8. q < Cols
  <2>1. c.x < TileWidth * Cols
    BY <1>4, <1>5
  <2> QED BY <1>4, <1>5, <1>6, <2>1, SmallQuotient
<1>9. n < Rows
  <2>1. c.y < FineRows * Rows
    BY <1>4, <1>5
  <2> QED BY <1>4, <1>5, <1>6, <2>1, SmallQuotient
<1>10. PICK ny, nx : ny = c.nt \div 2 /\ nx = c.nt % 2
  OBVIOUS
<1>11. ny \in Bit /\ nx \in Bit
  <2>1. c.nt = 0 \/ c.nt = 1 \/ c.nt = 2 \/ c.nt = 3
    BY <1>3
  <2> QED BY <1>10, <2>1 DEF Bit
<1>12. Places(f, ny, nx, n, q)
  BY <1>7, <1>8, <1>9, <1>11 DEF Places
<1>13. Has(t, f, ny, nx, n, q)
  BY <1>1, <1>6, <1>10, <1>12, AddrFields DEF CornerAddr
<1>14. Asks
  BY <1>1, <1>6, <1>10, <1>13 DEF Asks, Has
<1>15. t \in Nat /\ x \in Nat /\ x < TileWidth
  BY <1>1, <1>6, <1>7, <1>13 DEF Has
<1>16. want = [nt |-> want.nt, x |-> want.x, y |-> want.y] /\ NtIn(want) /\ XIn(want) /\ YIn(want)
  BY <1>1, <1>3, <1>4 DEF NtIn, XIn, YIn
<1>17. NtIn(column) /\ XIn(column) /\ NtIn(top) /\ YIn(top)
  <2>1. 0 < Cols * TileWidth /\ 0 < Rows * FineRows
    BY Dots, ScreenSize, Sizes DEF VisibleEnd
  <2> QED BY <2>1 DEF Init, NtIn, XIn, YIn
<1>18. line \in Nat /\ line <= Prerender /\ dot \in Nat /\ dot <= CycleEnd
  BY Dots DEF Init
<1>19. Holds(tile_shift)
  BY DEF Init, Holds
<1> QED BY <1>14, <1>15, <1>16, <1>17, <1>18, <1>19 DEF Init, Typed

LEMMA MovedIsAddr ==
  ASSUME v \in Nat, t \in Nat, NEW d
  PROVE  Moved(d) \in Nat /\ MovedX(d) \in Nat
<1>1. MovedX(d) \in Nat
  BY IncrementedX DEF MovedX, Has
<1>2. IncrementY(MovedX(d)) \in Nat
  BY <1>1, IncrementedY DEF Has
<1>3. CopyX(v) \in Nat /\ CopyY(v) \in Nat
  BY Copied DEF Has
<1> QED BY <1>1, <1>2, <1>3 DEF Moved

LEMMA Loading ==
  ASSUME NEW shift
  PROVE  /\ Holds(Loaded(shift))
         /\ \A i \in 1..(2 * TileWidth) :
              Loaded(shift)[i] = IF i <= TileWidth THEN shift[i] ELSE shift[i] \union {<<tile, i - TileWidth - 1>>}
BY DEF Loaded, Holds

(* No dot leaves the types. *)
LEMMA DotTypes ==
  ASSUME Typed, Dot
  PROVE  Typed'
<1>1. line' \in Nat /\ line' <= Prerender /\ dot' \in Nat /\ dot' <= CycleEnd
  BY Dots DEF Typed, Dot
<1>2. t' \in Nat /\ x' \in Nat /\ x' < TileWidth
  BY DEF Typed, Dot
<1>3. v' \in Nat
  BY MovedIsAddr DEF Typed, Dot, Render
<1>4. write_latch' \in BOOLEAN /\ second' = write_latch'
  BY DEF Typed, Dot
<1>5. Holds(tile_shift)'
  <2>1. PICK s : s = IF rendering /\ RenderLine /\ FetchesNt(dot + 1) THEN Loaded(tile_shift) ELSE tile_shift
    OBVIOUS
  <2>2. Holds(s)
    BY <2>1, Loading DEF Typed
  <2>3. tile_shift' = IF Fetches(dot + 1) THEN Shifted(s) ELSE s
    BY <2>1 DEF Dot, Render
  <2>4. PICK w : w = tile_shift'
    OBVIOUS
  <2>5. Holds(w)
    BY <2>2, <2>3, <2>4, Shifting
  <2> QED BY <2>4, <2>5 DEF Holds
<1>6. want' = [nt |-> want'.nt, x |-> want'.x, y |-> want'.y] /\ NtIn(want)' /\ XIn(want)' /\ YIn(want)'
  BY DEF Typed, Dot, NtIn, XIn, YIn
<1>7. CASE rendering /\ RenderLine
  <2>1. Begins(dot + 1)
    BY <1>7 DEF Dot, Render
  <2>2. NtIn(column)' /\ XIn(column)'
    BY <2>1 DEF Typed, Begins, NtIn, XIn
  <2>3. NtIn(top)' /\ YIn(top)'
    BY <2>1 DEF Typed, Begins, NtIn, YIn
  <2>4. rendering' /\ rendering' \in BOOLEAN /\ steady' \in BOOLEAN
    BY <1>7, <2>1 DEF Typed, Begins, Dot
  <2> QED BY <1>1, <1>2, <1>3, <1>4, <1>5, <1>6, <2>2, <2>3, <2>4 DEF Typed
<1>8. CASE ~(rendering /\ RenderLine)
  <2>1. UNCHANGED <<column, top, steady>>
    BY <1>8 DEF Dot, Render
  <2>2. NtIn(column)' /\ XIn(column)' /\ NtIn(top)' /\ YIn(top)'
    BY <2>1 DEF Typed, NtIn, XIn, YIn
  <2>3. rendering' \in BOOLEAN /\ steady' \in BOOLEAN /\ (steady' => rendering')
    BY <2>1 DEF Typed, Dot
  <2> QED BY <1>1, <1>2, <1>3, <1>4, <1>5, <1>6, <2>2, <2>3 DEF Typed
<1> QED BY <1>7, <1>8

LEMMA NextLineTypes ==
  ASSUME Typed, NextLine
  PROVE  Typed'
<1>1. line' \in Nat /\ line' <= Prerender /\ dot' \in Nat /\ dot' <= CycleEnd
  BY Dots DEF Typed, NextLine
<1>2. UNCHANGED <<v, t, x, write_latch, rendering, steady, tile_shift, want, second, column, top>>
  BY DEF NextLine, registers, fetches, asked
<1> QED BY <1>1, <1>2 DEF Typed, Holds, NtIn, XIn, YIn

-----------------------------------------------------------------------------
(* The registers. *)

(* Places change with the column and the row in which lines began. *)
LEMMA SamePlaces ==
  ASSUME UNCHANGED <<mirroring, column, top>>
  PROVE  /\ \A m, n : TileAt(m, n)' = TileAt(m, n) /\ PaletteAt(m, n)' = PaletteAt(m, n)
                      /\ PaletteOf(m, n)' = PaletteOf(m, n)
         /\ \A m : TileNt(m)' = TileNt(m) /\ TileCol(m)' = TileCol(m)
         /\ \A n : Row(n)' = Row(n)
         /\ (KnownX' <=> KnownX) /\ (KnownY' <=> KnownY) /\ (Known' <=> Known)
<1>1. mirroring' = mirroring /\ column' = column /\ top' = top
  OBVIOUS
<1>2. \A m, n : TileAt(m, n)' = TileAt(m, n) /\ PaletteAt(m, n)' = PaletteAt(m, n)
  BY <1>1 DEF TileAt, PaletteAt, TileNt, TileCol, Tiles, Page, Row
<1>3. \A m, n : PaletteOf(m, n)' = PaletteOf(m, n)
  BY <1>2 DEF PaletteOf
<1>4. \A m : TileNt(m)' = TileNt(m) /\ TileCol(m)' = TileCol(m)
  BY <1>1 DEF TileNt, TileCol, Tiles
<1>5. \A n : Row(n)' = Row(n)
  BY <1>1 DEF Row
<1>6. (KnownX' <=> KnownX) /\ (KnownY' <=> KnownY) /\ (Known' <=> Known)
  BY <1>1 DEF KnownX, KnownY, Known
<1> QED BY <1>2, <1>3, <1>4, <1>5, <1>6

LEMMA SameFetches ==
  ASSUME UNCHANGED <<mirroring, v, fetches, column, top>>
  PROVE  /\ \A m, s, n : Fetching(m, s, n) => Fetching(m, s, n)'
         /\ \A m : AtTile(v, m)' <=> AtTile(v, m)
         /\ \A n : At(v, Row(n))' <=> At(v, Row(n))
<1>1. UNCHANGED <<tile_addr, tile, tile_shift, prev_palette, curr_palette, next_palette, v>>
  BY DEF fetches
<1>2. \A m, n : TileAt(m, n)' = TileAt(m, n) /\ PaletteAt(m, n)' = PaletteAt(m, n) /\ PaletteOf(m, n)' = PaletteOf(m, n)
  BY SamePlaces
<1>3. \A m, n : Comes(m, n) => Comes(m, n)'
  BY <1>1, <1>2 DEF Comes, Lanes, Filled, InLane, Loaded
<1>4. \A m, s, n : Fetched(m, s, n) => Fetched(m, s, n)'
  BY <1>1, <1>2 DEF Fetched, Lanes, Filled, InLane
<1>5. \A m : AtTile(v, m)' <=> AtTile(v, m)
  BY <1>1, SamePlaces DEF AtTile
<1>6. (KnownX' <=> KnownX) /\ (Known' <=> Known)
  BY SamePlaces
<1>7. \A m, s, n : Fetching(m, s, n) => Fetching(m, s, n)'
  BY <1>3, <1>4, <1>5, <1>6 DEF Fetching
<1>8. \A n : At(v, Row(n))' <=> At(v, Row(n))
  BY <1>1, SamePlaces DEF At
<1> QED BY <1>5, <1>7, <1>8

(* What an access leaves alone, unless it ends a steady picture. *)
LEMMA Undisturbed ==
  ASSUME InPlace, UNCHANGED <<mirroring, line, dot, v, fetches, column, top>>, steady' => steady
  PROVE  InPlace'
<1>1. Due' = Due /\ curr_palette' = curr_palette /\ line' = line /\ dot' = dot
  BY DEF Due, fetches
<1>2. InX => InX'
  BY <1>1, SamePlaces, SameFetches DEF InX
<1>3. InY => InY'
  BY <1>1, SamePlaces, SameFetches DEF InY
<1>4. Drawing' => Drawing
  BY <1>1 DEF Drawing
<1> QED BY <1>2, <1>3, <1>4 DEF InPlace

Kept == Typed' /\ Asks' /\ InPlace' /\ pixel' = {}

(* Fields of what is written to t. *)
LEMMA WrittenX ==
  ASSUME NEW val, val \in Nat, val < Cols * TileWidth, t \in Nat
  PROVE  /\ Has(Addr(FineY(t), NtY(t), NtX(t), CoarseY(t), val \div TileWidth),
                FineY(t), NtY(t), NtX(t), CoarseY(t), val \div TileWidth)
         /\ val % TileWidth \in Nat /\ val % TileWidth < TileWidth
<1>1. PICK q, r : q = val \div TileWidth /\ r = val % TileWidth
  OBVIOUS
<1>2. TileWidth \in Nat /\ TileWidth >= 1 /\ Cols \in Nat
  BY Sizes
<1>3. q \in Nat /\ r \in Nat /\ r < TileWidth
  BY <1>1, <1>2, Quotients
<1>4. val < TileWidth * Cols
  BY <1>2
<1>5. q < Cols
  BY <1>1, <1>2, <1>4, SmallQuotient
<1>6. Places(FineY(t), NtY(t), NtX(t), CoarseY(t), q)
  BY <1>3, <1>5, FieldsAddr DEF Places
<1> QED BY <1>1, <1>3, <1>6, AddrFields

LEMMA WrittenY ==
  ASSUME NEW val, val \in Nat, val < Rows * FineRows, t \in Nat
  PROVE  Has(Addr(val % FineRows, NtY(t), NtX(t), (val \div FineRows) % Rows, CoarseX(t)),
             val % FineRows, NtY(t), NtX(t), val \div FineRows, CoarseX(t))
<1>1. PICK q, r : q = val \div FineRows /\ r = val % FineRows
  OBVIOUS
<1>2. FineRows \in Nat /\ FineRows >= 1 /\ Rows \in Nat /\ Rows >= 1
  BY Sizes
<1>3. q \in Nat /\ r \in Nat
  BY <1>1, <1>2, Quotients
<1>4. val < FineRows * Rows
  BY <1>2
<1>5. q < Rows
  BY <1>1, <1>2, <1>4, SmallQuotient
<1>6. q % Rows = q
  BY <1>2, <1>3, <1>5, Below
<1>7. Places(r, NtY(t), NtX(t), q, CoarseX(t))
  BY <1>3, <1>5, FieldsAddr DEF Places
<1> QED BY <1>1, <1>6, <1>7, AddrFields

(* An access to a register keeps the invariant, and draws no pixel. *)
LEMMA WriteCtrlKept ==
  ASSUME Typed, Asks, InPlace, NEW nt \in Tables, WriteCtrl(nt)
  PROVE  Kept
<1>1. nt \in 0..3
  BY ScrollAssumption
<1>2. PICK ny, nx : ny = nt \div 2 /\ nx = nt % 2
  OBVIOUS
<1>3. ny \in Bit /\ nx \in Bit
  <2>1. nt = 0 \/ nt = 1 \/ nt = 2 \/ nt = 3
    BY <1>1
  <2> QED BY <1>2, <2>1 DEF Bit
<1>4. t \in Nat
  BY DEF Typed
<1>5. Places(FineY(t), ny, nx, CoarseY(t), CoarseX(t))
  BY <1>3, <1>4, FieldsAddr DEF Places
<1>6. Has(t', FineY(t), ny, nx, CoarseY(t), CoarseX(t))
  BY <1>2, <1>5, AddrFields DEF WriteCtrl
<1>7. want' = [nt |-> nt, x |-> want.x, y |-> want.y]
  BY DEF WriteCtrl, Typed
<1>8. Asks'
  <2>1. /\ NtX(t') = nx /\ NtY(t') = ny /\ CoarseX(t') = CoarseX(t)
        /\ CoarseY(t') = CoarseY(t) /\ FineY(t') = FineY(t)
    BY <1>6 DEF Has
  <2> QED BY <1>2, <1>7, <2>1 DEF Asks, NtX, NtY, CoarseX, CoarseY, FineY
<1>9. /\ UNCHANGED <<mirroring, line, dot, rendering, v, x, write_latch, fetches, second, column, top, steady>>
      /\ pixel' = {}
  BY DEF WriteCtrl, beam
<1>10. Typed'
  <2>1. NtIn(want)' /\ XIn(want)' /\ YIn(want)'
    BY <1>1, <1>7 DEF Typed, NtIn, XIn, YIn
  <2>2. want' = [nt |-> want'.nt, x |-> want'.x, y |-> want'.y]
    BY <1>7
  <2>3. t' \in Nat
    BY <1>6 DEF Has
  <2>4. NtIn(column)' /\ XIn(column)' /\ NtIn(top)' /\ YIn(top)' /\ Holds(tile_shift)'
    BY <1>9 DEF Typed, NtIn, XIn, YIn, Holds, fetches
  <2> QED BY <1>9, <2>1, <2>2, <2>3, <2>4 DEF Typed
<1> QED BY <1>8, <1>9, <1>10, Undisturbed DEF Kept

LEMMA WriteScrollKept ==
  ASSUME Typed, Asks, InPlace, NEW val, WriteScroll(val)
  PROVE  Kept
<1>1. /\ UNCHANGED <<mirroring, line, dot, rendering, v, fetches, column, top, steady>>
      /\ pixel' = {} /\ write_latch' = ~write_latch /\ second' = ~second
  BY DEF WriteScroll, beam
<1>2. NtIn(column)' /\ XIn(column)' /\ NtIn(top)' /\ YIn(top)' /\ Holds(tile_shift)'
  BY <1>1 DEF Typed, NtIn, XIn, YIn, Holds, fetches
<1>3. t \in Nat /\ second = write_latch /\ x \in Nat /\ x < TileWidth
  BY DEF Typed
<1>4. CASE write_latch
  <2>1. val \in Nat /\ val < Rows * FineRows
    <3>1. val \in 0..(Rows * FineRows - 1)
      BY <1>4, ScrollAssumption DEF WriteScroll
    <3> QED BY <3>1, ScreenSize
  <2>2. Has(t', val % FineRows, NtY(t), NtX(t), val \div FineRows, CoarseX(t))
    BY <1>3, <1>4, <2>1, WrittenY DEF WriteScroll, WriteY
  <2>3. want' = [nt |-> want.nt, x |-> want.x, y |-> val]
    BY <1>3, <1>4 DEF WriteScroll, Typed
  <2>4. Asks'
    <3>1. /\ NtX(t') = NtX(t) /\ NtY(t') = NtY(t) /\ CoarseX(t') = CoarseX(t)
          /\ CoarseY(t') = val \div FineRows /\ FineY(t') = val % FineRows
      BY <2>2 DEF Has
    <3> QED BY <2>3, <3>1 DEF Asks, NtX, NtY, CoarseX, CoarseY, FineY
  <2>5. NtIn(want)' /\ XIn(want)' /\ YIn(want)' /\ want' = [nt |-> want'.nt, x |-> want'.x, y |-> want'.y]
    BY <2>1, <2>3 DEF Typed, NtIn, XIn, YIn
  <2>6. t' \in Nat /\ x' = x
    BY <1>4, <2>2 DEF Has, WriteScroll, WriteY
  <2>7. Typed'
    BY <1>1, <1>2, <2>5, <2>6 DEF Typed
  <2> QED BY <1>1, <2>4, <2>7, Undisturbed DEF Kept
<1>5. CASE ~write_latch
  <2>1. val \in Nat /\ val < Cols * TileWidth
    <3>1. val \in 0..(Cols * TileWidth - 1)
      BY <1>5, ScrollAssumption DEF WriteScroll
    <3>2. Cols * TileWidth \in Nat
      BY Dots DEF VisibleEnd
    <3> QED BY <3>1, <3>2
  <2>2. Has(t', FineY(t), NtY(t), NtX(t), CoarseY(t), val \div TileWidth)
    BY <1>3, <1>5, <2>1, WrittenX DEF WriteScroll, WriteX
  <2>3. want' = [nt |-> want.nt, x |-> val, y |-> want.y]
    BY <1>3, <1>5 DEF WriteScroll, Typed
  <2>4. Asks'
    <3>1. /\ NtX(t') = NtX(t) /\ NtY(t') = NtY(t) /\ CoarseX(t') = val \div TileWidth
          /\ CoarseY(t') = CoarseY(t) /\ FineY(t') = FineY(t)
      BY <2>2 DEF Has
    <3> QED BY <2>3, <3>1 DEF Asks, NtX, NtY, CoarseX, CoarseY, FineY
  <2>5. NtIn(want)' /\ XIn(want)' /\ YIn(want)' /\ want' = [nt |-> want'.nt, x |-> want'.x, y |-> want'.y]
    BY <2>1, <2>3 DEF Typed, NtIn, XIn, YIn
  <2>6. t' \in Nat
    BY <2>2 DEF Has
  <2>7. x' \in Nat /\ x' < TileWidth
    BY <1>3, <1>5, <2>1, WrittenX DEF WriteScroll, WriteX
  <2>8. Typed'
    BY <1>1, <1>2, <2>5, <2>6, <2>7 DEF Typed
  <2> QED BY <1>1, <2>4, <2>8, Undisturbed DEF Kept
<1> QED BY <1>3, <1>4, <1>5 DEF Typed

LEMMA WriteAddrKept ==
  ASSUME Typed, Asks, InPlace, NEW val \in HiBytes \union LoBytes, WriteAddr(val)
  PROVE  Kept
<1>1. /\ UNCHANGED <<mirroring, line, dot, rendering, x, fetches, column, top>>
      /\ pixel' = {} /\ write_latch' = ~write_latch /\ second' = ~second
      /\ want' = Forgotten /\ steady' = (steady /\ ~second)
  BY DEF WriteAddr, beam
<1>2. NtIn(column)' /\ XIn(column)' /\ NtIn(top)' /\ YIn(top)' /\ Holds(tile_shift)'
  BY <1>1 DEF Typed, NtIn, XIn, YIn, Holds, fetches
<1>3. t \in Nat /\ v \in Nat /\ val \in Nat
  BY ScrollAssumption DEF Typed
<1>4. HiPart(val) \in Nat /\ LoPart(val) \in Nat /\ AddrMirror(LoPart(val)) \in Nat
  <2>1. PICK l \in Nat : l = LoValues /\ l >= 1
    BY Sizes DEF LoValues
  <2>2. t \div l \in Nat /\ t % l \in Nat
    BY <1>3, <2>1, Quotients
  <2>3. HiPart(val) \in Nat
    <3>1. l * val \in Nat
      BY <1>3, <2>1
    <3> QED BY <2>1, <2>2, <3>1 DEF HiPart
  <2>4. LoPart(val) \in Nat
    <3>1. l * (t \div l) \in Nat
      BY <2>1, <2>2
    <3> QED BY <1>3, <2>1, <3>1 DEF LoPart
  <2>5. PICK k : k = 2 * FineRows * Cells
    OBVIOUS
  <2>6. k \in Nat /\ k >= 1
    <3>1. (2 * FineRows) * Cells >= 1 * Cells
      BY Sizes
    <3>2. (2 * FineRows) * Cells \in Nat
      BY Sizes
    <3> QED BY <2>5, <3>1, <3>2, Sizes
  <2>7. AddrMirror(LoPart(val)) \in Nat
    BY <2>4, <2>5, <2>6, Quotients DEF AddrMirror
  <2> QED BY <2>3, <2>4, <2>7
<1>5. t' \in Nat /\ v' \in Nat
  BY <1>3, <1>4 DEF WriteAddr
<1>6. steady' => v' = v
  BY <1>1 DEF WriteAddr, Typed
<1>7. Asks'
  BY <1>1 DEF Asks, Forgotten
<1>8. NtIn(want)' /\ XIn(want)' /\ YIn(want)' /\ want' = [nt |-> want'.nt, x |-> want'.x, y |-> want'.y]
  BY <1>1 DEF Forgotten, NtIn, XIn, YIn
<1>9. Typed'
  BY <1>1, <1>2, <1>5, <1>8 DEF Typed
<1>10. InPlace'
  <2>1. CASE steady'
    BY <1>1, <1>6, <2>1, Undisturbed
  <2>2. CASE ~steady'
    BY <2>2 DEF InPlace, Drawing
  <2> QED BY <2>1, <2>2
<1> QED BY <1>1, <1>7, <1>9, <1>10 DEF Kept

LEMMA OtherAccessKept ==
  ASSUME Typed, Asks, InPlace, WriteMask \/ ReadStatus \/ AccessData \/ \E hard \in BOOLEAN : Reset(hard)
  PROVE  Kept
<1>1. CASE WriteMask
  <2>1. /\ UNCHANGED <<line, dot, v, t, x, write_latch, fetches, want, second, column, top>>
        /\ rendering' = ~rendering /\ steady' = FALSE /\ pixel' = {}
    BY <1>1 DEF WriteMask, beam, registers
  <2>2. Typed'
    BY <2>1 DEF Typed, NtIn, XIn, YIn, Holds, fetches
  <2>3. Asks'
    BY <2>1 DEF Asks, NtX, NtY, CoarseX, CoarseY, FineY
  <2> QED BY <2>1, <2>2, <2>3 DEF Kept, InPlace, Drawing
<1>2. CASE ReadStatus
  <2>1. /\ UNCHANGED <<mirroring, line, dot, rendering, v, t, x, fetches, want, column, top, steady>>
        /\ write_latch' = FALSE /\ second' = FALSE /\ pixel' = {}
    BY <1>2 DEF ReadStatus, beam
  <2>2. Typed'
    BY <2>1 DEF Typed, NtIn, XIn, YIn, Holds, fetches
  <2>3. Asks'
    BY <2>1 DEF Asks, NtX, NtY, CoarseX, CoarseY, FineY
  <2>4. InPlace'
    BY <2>1, Undisturbed
  <2> QED BY <2>1, <2>2, <2>3, <2>4 DEF Kept
<1>3. CASE AccessData
  <2>1. /\ UNCHANGED <<line, dot, rendering, t, x, write_latch, fetches, want, second, column, top>>
        /\ steady' = FALSE /\ pixel' = {}
    BY <1>3 DEF AccessData, beam
  <2>2. v' \in Nat
    <3>1. IncrementY(IncrementX(v)) \in Nat
      <4>1. IncrementX(v) \in Nat
        BY IncrementedX DEF Typed, Has
      <4> QED BY <4>1, IncrementedY DEF Has
    <3>2. Increment(v) \in Nat
      <4>1. PICK k : k = 2 * FineRows * Cells
        OBVIOUS
      <4>2. k \in Nat /\ k >= 1
        <5>1. (2 * FineRows) * Cells >= 1 * Cells
          BY Sizes
        <5>2. (2 * FineRows) * Cells \in Nat
          BY Sizes
        <5> QED BY <4>1, <5>1, <5>2, Sizes
      <4>3. v + 1 \in Nat
        BY DEF Typed
      <4> QED BY <4>1, <4>2, <4>3, Quotients DEF Increment, AddrMirror
    <3> QED BY <1>3, <3>1, <3>2 DEF AccessData
  <2>3. Typed'
    BY <2>1, <2>2 DEF Typed, NtIn, XIn, YIn, Holds, fetches
  <2>4. Asks'
    BY <2>1 DEF Asks, NtX, NtY, CoarseX, CoarseY, FineY
  <2> QED BY <2>1, <2>3, <2>4 DEF Kept, InPlace, Drawing
<1>4. CASE \E hard \in BOOLEAN : Reset(hard)
  <2>1. /\ UNCHANGED <<fetches, column, top>> /\ line' = 0 /\ dot' = 0 /\ rendering' = FALSE
        /\ t' = 0 /\ x' = 0 /\ write_latch' = FALSE /\ pixel' = {}
        /\ want' = [nt |-> 0, x |-> 0, y |-> 0] /\ second' = FALSE /\ steady' = FALSE
        /\ v' \in {0, v}
    BY <1>4 DEF Reset
  <2>2. 0 < Cols * TileWidth /\ 0 < Rows * FineRows
    BY Dots, ScreenSize, Sizes DEF VisibleEnd
  <2>3. NtIn(want)' /\ XIn(want)' /\ YIn(want)' /\ want' = [nt |-> want'.nt, x |-> want'.x, y |-> want'.y]
    BY <2>1, <2>2 DEF NtIn, XIn, YIn
  <2>4. NtIn(column)' /\ XIn(column)' /\ NtIn(top)' /\ YIn(top)' /\ Holds(tile_shift)'
    BY <2>1 DEF Typed, NtIn, XIn, YIn, Holds, fetches
  <2>5. Typed'
    <3>1. v' \in Nat
      BY <2>1 DEF Typed
    <3>2. line' <= Prerender' /\ dot' <= CycleEnd' /\ x' < TileWidth'
      BY <2>1, Dots
    <3> QED BY <2>1, <2>3, <2>4, <3>1, <3>2 DEF Typed
  <2>6. Asks'
    <3>1. Places(0, 0, 0, 0, 0)
      BY Sizes DEF Places, Bit
    <3>2. Addr(0, 0, 0, 0, 0) = 0
      BY Sizes DEF Addr
    <3>3. Has(0, 0, 0, 0, 0, 0)
      BY <3>1, <3>2, AddrFields
    <3>4. NtX(t)' = 0 /\ NtY(t)' = 0 /\ CoarseX(t)' = 0 /\ CoarseY(t)' = 0 /\ FineY(t)' = 0
      BY <2>1, <3>3 DEF Has, NtX, NtY, CoarseX, CoarseY, FineY
    <3>5. 0 \div TileWidth = 0 /\ 0 \div FineRows = 0 /\ 0 % FineRows = 0
      BY Below, Sizes
    <3> QED BY <2>1, <3>4, <3>5 DEF Asks
  <2> QED BY <2>1, <2>5, <2>6 DEF Kept, InPlace, Drawing
<1> QED BY <1>1, <1>2, <1>3, <1>4

-----------------------------------------------------------------------------
(* From one line to the next. *)

(* So does the end of a line. *)
LEMMA NextLineKept ==
  ASSUME Typed, Asks, InPlace, NextLine
  PROVE  Kept
<1>1. UNCHANGED <<mirroring, v, t, fetches, want, column, top, steady>> /\ pixel' = {}
  BY DEF NextLine, registers, asked
<1>2. Asks'
  BY <1>1 DEF Asks, NtX, NtY, CoarseX, CoarseY, FineY
<1>3. InPlace'
  <2> SUFFICES ASSUME Drawing' PROVE InY' /\ InX'
    BY DEF InPlace
  <2>1. dot = CycleEnd /\ dot' = 0 /\ line' = IF line = Prerender THEN 0 ELSE line + 1
    BY DEF NextLine
  <2>2. line \in Nat /\ line <= Prerender
    BY DEF Typed
  <2>3. steady /\ line' < Height
    BY <1>1, <2>1, Dots DEF Drawing
  <2>4. Drawing
    BY <2>1, <2>2, <2>3, Dots DEF Drawing
  <2>5. InY /\ InX
    BY <2>4 DEF InPlace
  <2>6. Due' = Due
    BY <2>1, <2>2, <2>3, Dots DEF Due
  <2>7. InY'
    <3>1. KnownY => At(v, Row(Due))
      BY <2>1, <2>5, Dots DEF InY
    <3> QED BY <1>1, <2>6, <3>1, SamePlaces, SameFetches DEF InY
  <2>8. Fetching(2, 0, Due) /\ (Known => curr_palette = PaletteOf(2, Due))
    BY <2>1, <2>5, Dots DEF InX
  <2>9. Fetching(2, 0, Due)' /\ (Known' => curr_palette' = PaletteOf(2, Due)')
    <3>1. curr_palette' = curr_palette
      BY <1>1 DEF fetches
    <3> QED BY <1>1, <2>6, <2>8, <3>1, SamePlaces, SameFetches
  <2>10. 0 \div TileWidth = 0 /\ 0 % TileWidth = 0 /\ 2 + 0 = 2
    BY Dots, Below
  <2>11. ~(SprFetchStart <= dot') /\ ~(SprFetchEnd <= dot')
    BY <2>1, Dots
  <2>12. 2 + dot' \div TileWidth = 2 /\ dot' % TileWidth = 0
    BY <2>1, <2>10
  <2> QED BY <2>7, <2>9, <2>11, <2>12 DEF InX
<1> QED BY <1>1, <1>2, <1>3, NextLineTypes DEF Kept

-----------------------------------------------------------------------------
(* The fetches of one dot. *)

(* A shift of registers that were shifted s times. *)
LEMMA FilledShift ==
  ASSUME NEW shift, NEW m, NEW s, s \in Nat, s < TileWidth, NEW low, NEW high,
         Holds(shift), Filled(shift, m, s, low, high)
  PROVE  Filled(Shifted(shift), m, s + 1, low, high)
<1>1. PICK u : u = Shifted(shift)
  OBVIOUS
<1>2. \A i \in 1..(2 * TileWidth) : u[i] = IF i = 2 * TileWidth THEN {} ELSE shift[i + 1]
  BY <1>1, Shifting
<1>3. TileWidth \in Nat /\ TileWidth >= 4
  BY Sizes
<1>4. ASSUME NEW i \in 1..(2 * TileWidth)
      PROVE  InLane(u[i], i + (s + 1), m, low, high)
  <2>1. CASE i = 2 * TileWidth
    <3>1. PICK p : p = i + (s + 1)
      OBVIOUS
    <3>2. u[i] = {} /\ p > 2 * TileWidth /\ p \in Nat
      BY <1>2, <1>3, <2>1, <3>1
    <3> QED BY <1>3, <3>1, <3>2 DEF InLane
  <2>2. CASE i # 2 * TileWidth
    <3>1. PICK j \in 1..(2 * TileWidth) : j = i + 1
      BY <1>3, <2>2
    <3>2. u[i] = shift[j]
      BY <1>2, <2>2, <3>1
    <3>3. InLane(shift[j], j + s, m, low, high)
      BY DEF Filled
    <3>4. j + s = i + (s + 1)
      BY <3>1
    <3> QED BY <3>2, <3>3, <3>4
  <2> QED BY <2>1, <2>2
<1> QED BY <1>1, <1>4 DEF Filled

(* A tile is put into the registers that were shifted empty. *)
Puts(new, shift, tl) ==
  \A i \in 1..(2 * TileWidth) :
    new[i] = IF i <= TileWidth THEN shift[i] ELSE shift[i] \union {<<tl, i - TileWidth - 1>>}

(* A tile loaded after TileWidth shifts. *)
LEMMA FilledLoad ==
  ASSUME NEW shift, NEW m \in Nat, NEW low, NEW high, NEW new, NEW tl,
         Filled(shift, m, TileWidth, low, high), Puts(new, shift, tl)
  PROVE  Filled(new, m + 1, 0, high, tl)
<1>1. TileWidth \in Nat /\ TileWidth >= 4
  BY Sizes
<1>2. ASSUME NEW i \in 1..(2 * TileWidth)
      PROVE  InLane(new[i], i + 0, m + 1, high, tl)
  <2>1. new[i] = IF i <= TileWidth THEN shift[i] ELSE shift[i] \union {<<tl, i - TileWidth - 1>>}
    BY DEF Puts
  <2>2. PICK p : p = i + TileWidth
    OBVIOUS
  <2>3. InLane(shift[i], p, m, low, high)
    BY <2>2 DEF Filled
  <2>4. TileWidth < p /\ (p <= 2 * TileWidth <=> i <= TileWidth) /\ p - TileWidth - 1 = i - 1 /\ i + 0 = i
        /\ i \in Nat /\ i <= 2 * TileWidth /\ p \in Nat
    BY <1>1, <2>2
  <2>5. CASE i <= TileWidth
    <3>1. new[i] = shift[i]
      BY <2>1, <2>5
    <3>2. m >= 1 => shift[i] = {<<high, p - TileWidth - 1>>}
      BY <2>3, <2>4, <2>5 DEF InLane
    <3>3. m >= 1 => new[i] = {<<high, i - 1>>}
      BY <2>4, <3>1, <3>2
    <3>4. m + 1 >= 2 => m >= 1
      OBVIOUS
    <3> QED BY <1>1, <2>4, <2>5, <3>3, <3>4 DEF InLane
  <2>6. CASE ~(i <= TileWidth)
    <3>1. shift[i] = {}
      BY <1>1, <2>3, <2>4, <2>6 DEF InLane
    <3>2. new[i] = {<<tl, i - TileWidth - 1>>}
      BY <2>1, <2>6, <3>1
    <3>3. ~(i <= TileWidth /\ m + 1 >= 2) /\ ~(i > 2 * TileWidth)
      BY <1>1, <2>4, <2>6
    <3>4. InLane(new[i], i, m + 1, high, tl)
      BY <3>2, <3>3 DEF InLane
    <3> QED BY <2>4, <3>4
  <2> QED BY <2>5, <2>6
<1> QED BY <1>2 DEF Filled

(* What a dot works with, after what it fetches for the next tile. *)
ShiftAt(d) == IF FetchesNt(d) THEN Loaded(tile_shift) ELSE tile_shift
PrevAt(d)  == IF FetchesNt(d) THEN curr_palette ELSE prev_palette
CurrAt(d)  == IF FetchesNt(d) THEN next_palette ELSE curr_palette

(* What rendering does at a dot, part by part. *)
LEMMA Working ==
  ASSUME rendering, RenderLine, NEW d, Render(d)
  PROVE  /\ tile_addr' = (IF FetchesNt(d) THEN TileRow ELSE tile_addr)
         /\ prev_palette' = PrevAt(d) /\ curr_palette' = CurrAt(d)
         /\ next_palette' = (IF FetchesAttr(d) THEN Palette ELSE next_palette)
         /\ tile' = (IF FetchesTile(d) THEN tile_addr ELSE tile)
         /\ pixel' = (IF Shows(d) /\ line < Height THEN {Pixel(d, ShiftAt(d), PrevAt(d), CurrAt(d))} ELSE {})
         /\ tile_shift' = (IF Fetches(d) THEN Shifted(ShiftAt(d)) ELSE ShiftAt(d))
         /\ v' = Moved(d) /\ Begins(d)
BY DEF Render, ShiftAt, PrevAt, CurrAt

(* The dot after s dots of the m-th tile. *)
Steps(d, m, s) ==
  /\ m \in Nat /\ s \in Nat /\ s < TileWidth
  /\ Fetches(d) /\ ~SprDot(d) /\ ~DummyDot(d) /\ ~CopiesX(d) /\ ~CopiesY(d)
  /\ d % TileWidth = IF s = TileWidth - 1 THEN 0 ELSE s + 1

(* Which of the fetches of a tile a dot makes. *)
LEMMA StepsFetch ==
  ASSUME NEW d, NEW m, NEW s, Steps(d, m, s)
  PROVE  /\ FetchesNt(d) <=> s = 0
         /\ FetchesAttr(d) <=> s = 1
         /\ FetchesTile(d) <=> s = 2
         /\ (d % TileWidth = 0) <=> s = TileWidth - 1
BY Sizes DEF Steps, FetchesNt, FetchesAttr, FetchesTile

(* The palettes and the registers that it works with. *)
LEMMA WorksWith ==
  ASSUME Known, NEW d, NEW m, NEW s, NEW n, Steps(d, m, s), Fetching(m, s, n),
         m = 2 /\ s = 0 => curr_palette = PaletteOf(2, n)
  PROVE  /\ Lanes(ShiftAt(d), m, s, n)
         /\ m >= 1 => CurrAt(d) = PaletteAt(m - 1, n)
         /\ m >= 2 => PrevAt(d) = PaletteOf(m, n)
<1>1. m \in Nat
  BY DEF Steps
<1>2. CASE s = 0
  <2>1. Comes(m, n)
    BY <1>2 DEF Fetching
  <2>2. ShiftAt(d) = Loaded(tile_shift) /\ PrevAt(d) = curr_palette /\ CurrAt(d) = next_palette
    BY <1>2, StepsFetch DEF ShiftAt, PrevAt, CurrAt
  <2>3. Lanes(ShiftAt(d), m, s, n)
    BY <1>2, <2>1, <2>2 DEF Comes
  <2>4. m >= 1 => CurrAt(d) = PaletteAt(m - 1, n)
    BY <2>1, <2>2 DEF Comes
  <2>5. m >= 2 => PrevAt(d) = PaletteOf(m, n)
    <3>1. m >= 3 => curr_palette = PaletteOf(m, n)
      BY <2>1 DEF Comes
    <3>2. m >= 2 => m = 2 \/ m >= 3
      BY <1>1
    <3> QED BY <1>2, <2>2, <3>1, <3>2
  <2> QED BY <2>3, <2>4, <2>5
<1>3. CASE s # 0
  <2>1. Fetched(m, s, n)
    BY <1>3 DEF Fetching
  <2>2. ShiftAt(d) = tile_shift /\ PrevAt(d) = prev_palette /\ CurrAt(d) = curr_palette
    BY <1>3, StepsFetch DEF ShiftAt, PrevAt, CurrAt
  <2> QED BY <2>1, <2>2 DEF Fetched
<1> QED BY <1>2, <1>3

(* What v selects. *)
LEMMA Selected ==
  ASSUME NEW m, NEW n, AtTile(v, m), At(v, Row(n))
  PROVE  TileRow = TileAt(m, n) /\ Palette = PaletteAt(m, n)
BY DEF AtTile, At, TileRow, Palette, TileAt, PaletteAt

(* One dot more of the tile was fetched. *)
LEMMA FetchedMore ==
  ASSUME Typed, rendering, RenderLine, Known, UNCHANGED <<mirroring, column, top>>,
         NEW d, Render(d), NEW m, NEW s, NEW n, Steps(d, m, s), Fetching(m, s, n), At(v, Row(n)),
         m = 2 /\ s = 0 => curr_palette = PaletteOf(2, n)
  PROVE  Fetched(m, s + 1, n)'
<1>1. m \in Nat /\ s \in Nat /\ s < TileWidth /\ TileWidth \in Nat
  BY Sizes DEF Steps
<1>2. s # 0 => Fetched(m, s, n)
  BY DEF Fetching
<1>3. TileRow = TileAt(m, n) /\ Palette = PaletteAt(m, n)
  BY Selected DEF Fetching, Known
<1>4. tile_addr' = TileAt(m, n)
  BY <1>2, <1>3, Working, StepsFetch DEF Fetched
<1>5. s + 1 >= 3 => tile' = TileAt(m, n)
  <2>1. CASE s = 2
    <3>1. tile_addr = TileAt(m, n) /\ FetchesTile(d)
      BY <1>2, <2>1, StepsFetch DEF Fetched
    <3> QED BY <3>1, Working
  <2>2. CASE s # 2
    <3>1. tile' = tile
      BY <2>2, Working, StepsFetch
    <3>2. s + 1 >= 3 => s >= 3 /\ s # 0
      BY <1>1, <2>2
    <3> QED BY <1>2, <3>1, <3>2 DEF Fetched
  <2> QED BY <2>1, <2>2
<1>6. s + 1 >= 2 => next_palette' = PaletteAt(m, n)
  <2>1. CASE s = 1
    BY <1>3, <2>1, Working, StepsFetch
  <2>2. CASE s # 1
    <3>1. next_palette' = next_palette
      BY <2>2, Working, StepsFetch
    <3>2. s + 1 >= 2 => s >= 2 /\ s # 0
      BY <1>1, <2>2
    <3> QED BY <1>2, <3>1, <3>2 DEF Fetched
  <2> QED BY <2>1, <2>2
<1>7. /\ Lanes(ShiftAt(d), m, s, n)
      /\ m >= 1 => curr_palette' = PaletteAt(m - 1, n)
      /\ m >= 2 => prev_palette' = PaletteOf(m, n)
  BY WorksWith, Working
<1>8. Holds(ShiftAt(d))
  BY Loading DEF ShiftAt, Typed
<1>9. tile_shift' = Shifted(ShiftAt(d))
  BY Working DEF Steps
<1>10. PICK u, w, low, high : u = ShiftAt(d) /\ w = tile_shift' /\ low = TileAt(m - 2, n) /\ high = TileAt(m - 1, n)
  OBVIOUS
<1>11. Filled(u, m, s, low, high) /\ Holds(u) /\ w = Shifted(u)
  BY <1>7, <1>8, <1>9, <1>10 DEF Lanes
<1>12. Filled(w, m, s + 1, low, high)
  BY <1>1, <1>11, FilledShift
<1>13. /\ TileAt(m, n)' = TileAt(m, n) /\ TileAt(m - 1, n)' = TileAt(m - 1, n) /\ TileAt(m - 2, n)' = TileAt(m - 2, n)
       /\ PaletteAt(m, n)' = PaletteAt(m, n) /\ PaletteAt(m - 1, n)' = PaletteAt(m - 1, n)
       /\ PaletteOf(m, n)' = PaletteOf(m, n)
  BY SamePlaces
<1>14. Lanes(tile_shift, m, s + 1, n)'
  BY <1>10, <1>12, <1>13 DEF Lanes, Filled, InLane
<1> QED BY <1>4, <1>5, <1>6, <1>7, <1>13, <1>14 DEF Fetched

(* After its last dot the next tile comes. *)
LEMMA ComesNext ==
  ASSUME NEW m \in Nat, NEW n, Fetched(m, TileWidth, n)'
  PROVE  Comes(m + 1, n)'
<1>1. TileWidth >= 4
  BY Sizes
<1>2. PICK a, b, c, h, l, p, q : /\ a = TileAt(m, n)' /\ b = TileAt(m - 1, n)' /\ c = TileAt(m - 2, n)'
                                 /\ h = PaletteAt(m, n)' /\ l = PaletteAt(m - 1, n)'
                                 /\ p = Loaded(tile_shift)' /\ q = tile_shift'
  OBVIOUS
<1>3. /\ tile' = a /\ next_palette' = h /\ (m >= 1 => curr_palette' = l)
      /\ Filled(q, m, TileWidth, c, b)
  <2>1. TileWidth >= 3 /\ TileWidth >= 2
    BY <1>1, Sizes
  <2>2. tile' = a /\ next_palette' = h /\ (m >= 1 => curr_palette' = l)
    BY <1>2, <2>1 DEF Fetched
  <2>3. Lanes(tile_shift, m, TileWidth, n)'
    BY DEF Fetched
  <2>4. Filled(q, m, TileWidth, c, b)
    BY <1>2, <2>3 DEF Lanes, Filled, InLane
  <2> QED BY <2>2, <2>4
<1>4. Puts(p, q, a)
  BY <1>2, <1>3 DEF Loaded, Puts
<1>5. Filled(p, m + 1, 0, b, a)
  BY <1>3, <1>4, FilledLoad
<1>6. (m + 1) - 1 = m /\ (m + 1) - 2 = m - 1
  OBVIOUS
<1>7. Lanes(Loaded(tile_shift), m + 1, 0, n)'
  BY <1>2, <1>5, <1>6 DEF Lanes, Filled, InLane
<1>8. m + 1 >= 3 => curr_palette' = PaletteOf(m + 1, n)'
  <2>1. m + 1 >= 3 => m + 1 # 2 /\ m >= 1
    OBVIOUS
  <2> QED BY <1>2, <1>3, <1>6, <2>1 DEF PaletteOf
<1> QED BY <1>2, <1>3, <1>6, <1>7, <1>8 DEF Comes

LEMMA XKeepsRow ==
  ASSUME NEW a \in Nat, NEW r, At(a, r)
  PROVE  At(IncrementX(a), r)
BY IncrementedX DEF At, Has

(* A dot in which nothing is copied goes on to the next one. *)
LEMMA StepKept ==
  ASSUME Typed, rendering, RenderLine, UNCHANGED <<mirroring, column, top>>,
         NEW d, Render(d), NEW m, NEW s, NEW n, Steps(d, m, s), Fetching(m, s, n), d # VisibleEnd,
         KnownY => At(v, Row(n)),
         m = 2 /\ s = 0 /\ Known => curr_palette = PaletteOf(2, n)
  PROVE  /\ IF s = TileWidth - 1 THEN Fetching(m + 1, 0, n)' ELSE Fetching(m, s + 1, n)'
         /\ KnownY' => At(v, Row(n))'
<1>1. m \in Nat /\ s \in Nat /\ s < TileWidth /\ TileWidth \in Nat
  BY Sizes DEF Steps
<1>2. v' = IF s = TileWidth - 1 THEN IncrementX(v) ELSE v
  <2>1. v' = MovedX(d)
    BY Working DEF Steps, Moved
  <2> QED BY <2>1, StepsFetch DEF Steps, MovedX
<1>3. v \in Nat
  BY DEF Typed
<1>4. \A r : At(v, r) => At(v', r)
  BY <1>2, <1>3, XKeepsRow
<1>5. KnownY' => At(v, Row(n))'
  <2>1. (KnownY' <=> KnownY) /\ Row(n)' = Row(n)
    BY SamePlaces
  <2> QED BY <1>4, <2>1 DEF At, NtY, CoarseY, FineY
<1>6. (KnownX' <=> KnownX) /\ (Known' <=> Known)
  BY SamePlaces
<1>7. Known => Fetched(m, s + 1, n)'
  BY FetchedMore DEF Known
<1>8. CASE s = TileWidth - 1
  <2>1. KnownX => AtTile(v', m + 1)
    <3> SUFFICES ASSUME KnownX PROVE AtTile(v', m + 1)
      OBVIOUS
    <3>1. InScreen(column)
      BY DEF KnownX, InScreen, Typed, NtIn, XIn
    <3>2. AtTile(v, m)
      BY DEF Fetching
    <3> QED BY <1>1, <1>2, <1>3, <1>8, <3>1, <3>2, TileRight
  <2>2. KnownX' => AtTile(v, m + 1)'
    BY <1>6, <2>1, SamePlaces DEF AtTile, NtX, CoarseX
  <2>3. s + 1 = TileWidth
    BY <1>1, <1>8
  <2>4. Known' => Comes(m + 1, n)'
    BY <1>1, <1>6, <1>7, <2>3, ComesNext
  <2>5. Fetching(m + 1, 0, n)'
    BY <2>2, <2>4 DEF Fetching
  <2> QED BY <1>5, <1>8, <2>5
<1>9. CASE s # TileWidth - 1
  <2>1. KnownX' => AtTile(v, m)'
    BY <1>2, <1>6, <1>9, SamePlaces DEF AtTile, NtX, CoarseX, Fetching
  <2>2. s + 1 # 0
    BY <1>1
  <2>3. Fetching(m, s + 1, n)'
    BY <1>6, <1>7, <2>1, <2>2 DEF Fetching
  <2> QED BY <1>5, <1>9, <2>3
<1> QED BY <1>8, <1>9

-----------------------------------------------------------------------------
(* The dots of a line. *)

LEMMA TileSteps ==
  ASSUME NEW n \in Nat
  PROVE  /\ n \div TileWidth \in Nat /\ n % TileWidth \in Nat /\ n % TileWidth < TileWidth
         /\ n = TileWidth * (n \div TileWidth) + (n % TileWidth)
         /\ IF n % TileWidth = TileWidth - 1
            THEN (n + 1) \div TileWidth = (n \div TileWidth) + 1 /\ (n + 1) % TileWidth = 0
            ELSE (n + 1) \div TileWidth = n \div TileWidth /\ (n + 1) % TileWidth = (n % TileWidth) + 1
<1>1. PICK w : w = TileWidth
  OBVIOUS
<1>2. w \in Nat /\ w >= 1
  BY <1>1, Sizes
<1>3. n \div w \in Nat /\ n % w \in Nat /\ n % w < w /\ n = w * (n \div w) + (n % w)
  BY <1>2, Quotients
<1>4. CASE n % w = w - 1
  <2>1. (n + 1) % w = 0 /\ (n + 1) \div w = (n \div w) + 1
    BY <1>2, <1>4, NextPlace
  <2> QED BY <1>1, <1>3, <1>4, <2>1
<1>5. CASE n % w # w - 1
  <2>1. n % w < w - 1
    BY <1>2, <1>3, <1>5
  <2>2. (n + 1) % w = (n % w) + 1 /\ (n + 1) \div w = n \div w
    BY <1>2, <2>1, NextPlace
  <2> QED BY <1>1, <1>3, <1>5, <2>2
<1> QED BY <1>4, <1>5

(* Every dot of the picture is a step of the fetches of a tile, ... *)
LEMMA PictureDots ==
  ASSUME dot \in Nat, dot < VisibleEnd
  PROVE  /\ Steps(dot + 1, 2 + dot \div TileWidth, dot % TileWidth) /\ Shows(dot + 1)
         /\ IF dot % TileWidth = TileWidth - 1
            THEN (dot + 1) \div TileWidth = (dot \div TileWidth) + 1 /\ (dot + 1) % TileWidth = 0
            ELSE (dot + 1) \div TileWidth = dot \div TileWidth /\ (dot + 1) % TileWidth = (dot % TileWidth) + 1
<1>1. PICK q, s : q = dot \div TileWidth /\ s = dot % TileWidth
  OBVIOUS
<1>2. q \in Nat /\ s \in Nat /\ s < TileWidth /\ TileWidth \in Nat /\ TileWidth >= 1
  <2>1. TileWidth \in Nat /\ TileWidth >= 1
    BY Sizes
  <2> QED BY <1>1, <2>1, Quotients
<1>3. IF s = TileWidth - 1
      THEN (dot + 1) \div TileWidth = q + 1 /\ (dot + 1) % TileWidth = 0
      ELSE (dot + 1) \div TileWidth = q /\ (dot + 1) % TileWidth = s + 1
  BY <1>1, TileSteps
<1>4. PICK d : d = dot + 1
  OBVIOUS
<1>5. Shows(d) /\ Fetches(d) /\ ~SprDot(d) /\ ~DummyDot(d) /\ ~CopiesX(d) /\ ~CopiesY(d)
  <2>1. d \in Nat /\ d >= 1 /\ d <= VisibleEnd
    BY <1>4, Dots
  <2>2. Shows(d)
    BY <2>1, Dots DEF Shows
  <2>3. ~SprDot(d)
    BY <2>1, Dots DEF SprDot
  <2>4. ~DummyDot(d) /\ ~CopiesX(d)
    BY <2>1, Dots DEF DummyDot, CopiesX
  <2>5. ~CopiesY(d)
    BY <2>1, Dots DEF CopiesY
  <2> QED BY <2>2, <2>3, <2>4, <2>5 DEF Fetches
<1>6. 2 + q \in Nat
  BY <1>2
<1>7. Steps(d, 2 + q, s)
  BY <1>2, <1>3, <1>4, <1>5, <1>6 DEF Steps
<1> QED BY <1>1, <1>3, <1>4, <1>5, <1>7

(* ... and so is every dot that fetches the next line's first two. *)
LEMMA PrefetchDots ==
  ASSUME NEW e, NEW q, NEW s, dot \in Nat, SprFetchEnd <= dot, dot < PrefetchEnd, e = dot - SprFetchEnd,
         q = e \div TileWidth, s = e % TileWidth
  PROVE  /\ Steps(dot + 1, q, s) /\ dot + 1 # VisibleEnd /\ e \in Nat
         /\ q \in {0, 1}
         /\ IF s = TileWidth - 1
            THEN (e + 1) \div TileWidth = q + 1 /\ (e + 1) % TileWidth = 0
            ELSE (e + 1) \div TileWidth = q /\ (e + 1) % TileWidth = s + 1
         /\ dot + 1 = PrefetchEnd <=> (q = 1 /\ s = TileWidth - 1)
<1>1. TileWidth \in Nat /\ TileWidth >= 4 /\ e \in Nat /\ e < 2 * TileWidth
  BY Dots
<1>2. q \in Nat /\ s \in Nat /\ s < TileWidth /\ e = TileWidth * q + s
  BY <1>1, TileSteps
<1>3. q < 2
  <2>1. PICK w : w = TileWidth
    OBVIOUS
  <2>2. w \in Nat /\ w >= 1 /\ e < w * 2
    BY <1>1, <2>1
  <2>3. e \div w < 2
    BY <1>1, <2>2, SmallQuotient
  <2> QED BY <2>1, <2>3
<1>4. IF s = TileWidth - 1
      THEN (e + 1) \div TileWidth = q + 1 /\ (e + 1) % TileWidth = 0
      ELSE (e + 1) \div TileWidth = q /\ (e + 1) % TileWidth = s + 1
  BY <1>1, TileSteps
<1>5. PICK d : d = dot + 1
  OBVIOUS
<1>6. d % TileWidth = (e + 1) % TileWidth
  <2>1. PICK g, h : g = (e + 1) \div TileWidth /\ h = (e + 1) % TileWidth
    OBVIOUS
  <2>2. g \in Nat /\ h \in Nat /\ h < TileWidth /\ e + 1 = TileWidth * g + h
    <3>1. e + 1 \in Nat
      BY <1>1
    <3> QED BY <2>1, <3>1, TileSteps
  <2>3. SprFetchEnd = TileWidth * (Cols + 1)
    BY Sizes DEF SprFetchEnd, VisibleEnd
  <2>4. PICK k \in Nat : k = Cols + 1
    BY Sizes
  <2>5. d = SprFetchEnd + (e + 1)
    BY <1>5, Dots
  <2>6. TileWidth * (k + g) = TileWidth * k + TileWidth * g
    BY <1>1, <2>2
  <2>7. TileWidth * k \in Nat /\ TileWidth * g \in Nat
    BY <1>1, <2>2
  <2>8. d = TileWidth * (k + g) + h
    BY <2>2, <2>3, <2>4, <2>5, <2>6, <2>7
  <2>9. k + g \in Nat
    BY <2>2
  <2>10. d % TileWidth = h
    <3>1. PICK w, j : w = TileWidth /\ j = k + g
      OBVIOUS
    <3>2. w \in Nat /\ w >= 1 /\ j \in Nat /\ h < w /\ h \in Nat
      BY <1>1, <2>2, <2>9, <3>1
    <3>3. (w * j + h) % w = h
      BY <3>2, Division
    <3> QED BY <2>8, <3>1, <3>3
  <2> QED BY <2>1, <2>10
<1>7. Fetches(d) /\ ~SprDot(d) /\ ~DummyDot(d) /\ ~CopiesX(d) /\ ~CopiesY(d) /\ d # VisibleEnd
  <2>1. d \in Nat /\ d >= PrefetchStart /\ d <= PrefetchEnd
    BY <1>5, Dots
  <2>2. d \in PrefetchStart..PrefetchEnd
    BY <2>1, Dots
  <2>3. ~SprDot(d)
    BY <2>1, Dots DEF SprDot
  <2>4. ~DummyDot(d) /\ ~CopiesX(d) /\ d # VisibleEnd
    BY <2>1, Dots DEF DummyDot, CopiesX
  <2>5. ~CopiesY(d)
    BY <2>1, Dots DEF CopiesY
  <2> QED BY <2>2, <2>3, <2>4, <2>5 DEF Fetches
<1>8. Steps(d, q, s)
  BY <1>2, <1>4, <1>6, <1>7 DEF Steps
<1>9. q \in {0, 1}
  BY <1>2, <1>3
<1>10. dot + 1 = PrefetchEnd <=> (q = 1 /\ s = TileWidth - 1)
  <2>1. CASE q = 0
    BY <1>1, <1>2, <2>1, Dots
  <2>2. CASE q = 1
    BY <1>1, <1>2, <2>2, Dots
  <2> QED BY <1>9, <2>1, <2>2
<1> QED BY <1>1, <1>4, <1>5, <1>7, <1>8, <1>9, <1>10

(* A dot at the end of which the picture is steady and drawn. *)
Drawn == Typed /\ Asks /\ InPlace /\ Dot /\ Drawing'

LEMMA DrawnDot ==
  ASSUME Drawn
  PROVE  /\ rendering /\ RenderLine /\ Render(dot + 1) /\ Begins(dot + 1)
         /\ mirroring' = mirroring /\ line' = line
         /\ dot \in Nat /\ dot < CycleEnd
         /\ dot' = dot + 1 \/ (dot = PrefetchEnd /\ dot' = CycleEnd)
         /\ line < Height \/ (line = Prerender /\ dot' >= SprFetchStart)
         /\ ~(line = Prerender /\ dot + 1 = SprFetchStart) => InY /\ InX
<1>1. mirroring' = mirroring /\ line' = line /\ Render(dot + 1) /\ dot \in Nat /\ dot < CycleEnd /\ line \in Nat
  BY DEF Drawn, Dot, Typed
<1>2. dot' = dot + 1 \/ (dot = PrefetchEnd /\ dot' = CycleEnd)
  BY <1>1, Dots DEF Drawn, Dot, SkipsLast
<1>3. steady' /\ (line < Height \/ (line = Prerender /\ dot' >= SprFetchStart))
  BY <1>1 DEF Drawn, Drawing
<1>4. RenderLine
  BY <1>3 DEF RenderLine
<1>5. rendering
  <2> SUFFICES ASSUME ~rendering PROVE FALSE
    OBVIOUS
  <2>1. steady' = steady
    BY <1>1 DEF Render
  <2> QED BY <1>3, <2>1 DEF Drawn, Typed
<1>6. Begins(dot + 1)
  BY <1>1, <1>4, <1>5 DEF Render
<1>7. ASSUME ~(line = Prerender /\ dot + 1 = SprFetchStart) PROVE InY /\ InX
  <2>1. steady
    BY <1>3, <1>6, <1>7 DEF Begins, CopiesX
  <2>2. line < Height \/ (line = Prerender /\ dot >= SprFetchStart)
    BY <1>1, <1>2, <1>3, <1>7, Dots
  <2> QED BY <2>1, <2>2 DEF Drawn, InPlace, Drawing
<1> QED BY <1>1, <1>2, <1>3, <1>4, <1>5, <1>6, <1>7

LEMMA NothingCopied ==
  ASSUME NEW d, Begins(d), ~CopiesX(d), ~CopiesY(d)
  PROVE  UNCHANGED <<column, top>>
BY DEF Begins

(* In the picture. *)
LEMMA InPicture ==
  ASSUME Drawn, dot < VisibleEnd
  PROVE  /\ dot' = dot + 1 /\ line < Height /\ line \in Nat /\ Due = line
         /\ InY /\ InX /\ UNCHANGED <<mirroring, column, top>>
         /\ KnownY => At(v, Row(line))
         /\ Fetching(2 + dot \div TileWidth, dot % TileWidth, line)
         /\ 2 + dot \div TileWidth = 2 /\ dot % TileWidth = 0 /\ Known => curr_palette = PaletteOf(2, line)
<1>1. dot \in Nat /\ line \in Nat
  BY DEF Drawn, Typed
<1>2. dot' = dot + 1 /\ dot + 1 # SprFetchStart
  BY <1>1, DrawnDot, Dots
<1>3. line < Height /\ line # Prerender
  BY <1>1, <1>2, DrawnDot, Dots
<1>4. Due = line
  BY <1>1, <1>3, Dots DEF Due
<1>5. InY /\ InX
  BY <1>2, DrawnDot
<1>6. UNCHANGED <<mirroring, column, top>>
  BY <1>1, PictureDots, NothingCopied, DrawnDot DEF Steps
<1>7. KnownY => At(v, Row(line))
  BY <1>3, <1>4, <1>5 DEF InY
<1>8. Fetching(2 + dot \div TileWidth, dot % TileWidth, line)
  BY <1>4, <1>5 DEF InX
<1>9. ASSUME 2 + dot \div TileWidth = 2, dot % TileWidth = 0, Known PROVE curr_palette = PaletteOf(2, line)
  <2>1. PICK q, s : q = dot \div TileWidth /\ s = dot % TileWidth
    OBVIOUS
  <2>2. q \in Nat /\ dot = TileWidth * q + s
    BY <1>1, <2>1, TileSteps
  <2>3. q = 0 /\ s = 0
    BY <1>9, <2>1, <2>2
  <2>4. dot = 0
    BY <2>2, <2>3, Sizes
  <2> QED BY <1>4, <1>5, <1>9, <2>4 DEF InX
<1> QED BY <1>1, <1>2, <1>3, <1>4, <1>5, <1>6, <1>7, <1>8, <1>9

(* The dots of a line, part by part. *)
LEMMA PictureDotKept ==
  ASSUME Drawn, dot < VisibleEnd
  PROVE  InY' /\ InX'
<1>1. /\ dot' = dot + 1 /\ line < Height /\ line \in Nat /\ UNCHANGED <<mirroring, column, top>>
      /\ KnownY => At(v, Row(line))
      /\ Fetching(2 + dot \div TileWidth, dot % TileWidth, line)
      /\ 2 + dot \div TileWidth = 2 /\ dot % TileWidth = 0 /\ Known => curr_palette = PaletteOf(2, line)
  BY InPicture
<1>2. rendering /\ RenderLine /\ Render(dot + 1) /\ line' = line /\ dot \in Nat /\ Typed
  BY DrawnDot DEF Drawn
<1>3. PICK d, q, m, s : d = dot + 1 /\ q = dot \div TileWidth /\ m = 2 + q /\ s = dot % TileWidth
  OBVIOUS
<1>4. /\ Steps(d, m, s)
      /\ IF s = TileWidth - 1 THEN d \div TileWidth = q + 1 /\ d % TileWidth = 0
         ELSE d \div TileWidth = q /\ d % TileWidth = s + 1
  BY <1>2, <1>3, PictureDots
<1>5. Fetching(m, s, line) /\ (m = 2 /\ s = 0 /\ Known => curr_palette = PaletteOf(2, line)) /\ Render(d)
  BY <1>1, <1>2, <1>3
<1>6. q \in Nat
  BY <1>2, <1>3, TileSteps
<1>7. CASE d # VisibleEnd
  <2>1. d < VisibleEnd
    BY <1>2, <1>3, <1>7, Dots
  <2>2. /\ IF s = TileWidth - 1 THEN Fetching(m + 1, 0, line)' ELSE Fetching(m, s + 1, line)'
        /\ KnownY' => At(v, Row(line))'
    <3>1. PICK n : n = line
      OBVIOUS
    <3>2. /\ IF s = TileWidth - 1 THEN Fetching(m + 1, 0, n)' ELSE Fetching(m, s + 1, n)'
          /\ KnownY' => At(v, Row(n))'
      BY <1>1, <1>2, <1>4, <1>5, <1>7, <3>1, StepKept
    <3>3. n = line'
      BY <1>2, <3>1
    <3> QED BY <3>2, <3>3
  <2>3. Due' = line'
    BY <1>1, <1>2, <1>3, <2>1, Dots DEF Due
  <2>4. InY'
    BY <2>2, <2>3 DEF InY
  <2>5. Fetching(2 + dot \div TileWidth, dot % TileWidth, Due)'
    <3>1. CASE s = TileWidth - 1
      <4>1. 2 + dot' \div TileWidth = m + 1 /\ dot' % TileWidth = 0
        BY <1>1, <1>3, <1>4, <1>6, <3>1
      <4> QED BY <2>2, <2>3, <3>1, <4>1
    <3>2. CASE s # TileWidth - 1
      <4>1. 2 + dot' \div TileWidth = m /\ dot' % TileWidth = s + 1
        BY <1>1, <1>3, <1>4, <1>6, <3>2
      <4> QED BY <2>2, <2>3, <3>2, <4>1
    <3> QED BY <3>1, <3>2
  <2>6. dot' < VisibleEnd /\ dot' # 0
    BY <1>1, <1>2, <1>3, <2>1
  <2>7. ~(SprFetchStart <= dot') /\ ~(SprFetchEnd <= dot') /\ ~(dot' >= PrefetchEnd) /\ ~(dot' > PrefetchEnd)
    BY <1>2, <1>1, <2>6, Dots
  <2> QED BY <2>4, <2>5, <2>6, <2>7 DEF InX
<1>8. CASE d = VisibleEnd
  <2>1. Due' = line + 1
    BY <1>1, <1>2, <1>3, <1>8, Dots DEF Due
  <2>2. v' = IncrementY(MovedX(d))
    BY <1>2, <1>5, <1>8, Working DEF Moved
  <2>3. v \in Nat /\ MovedX(d) \in Nat
    BY <1>2, MovedIsAddr DEF Typed
  <2>4. KnownY => At(v', Row(line + 1))
    <3> SUFFICES ASSUME KnownY PROVE At(v', Row(line + 1))
      OBVIOUS
    <3>1. Begun(top)
      BY <1>2 DEF Typed, KnownY, NtIn, YIn, Begun
    <3>2. At(v, Row(line)) /\ InWorld(Row(line)) /\ Row(line + 1) = After(Row(line))
      BY <1>1, <3>1, NextRow
    <3>3. At(MovedX(d), Row(line))
      BY <2>3, <3>2, XKeepsRow DEF MovedX
    <3> QED BY <2>2, <2>3, <3>2, <3>3, RowBelow
  <2>5. InY'
    <3>1. KnownY' <=> KnownY
      BY <1>1, SamePlaces
    <3>2. Row(Due)' = Row(line + 1)
      <4>1. PICK n : n = line + 1
        OBVIOUS
      <4>2. Row(n)' = Row(n)
        BY <1>1, SamePlaces
      <4> QED BY <2>1, <4>1, <4>2
    <3> QED BY <2>4, <3>1, <3>2 DEF InY, At, NtY, CoarseY, FineY
  <2>6. dot' = VisibleEnd
    BY <1>1, <1>3, <1>8
  <2>7. /\ ~(SprFetchStart <= dot') /\ ~(SprFetchEnd <= dot') /\ ~(dot' >= PrefetchEnd) /\ ~(dot' > PrefetchEnd)
        /\ ~(dot' < VisibleEnd) /\ dot' # 0
    BY <2>6, Dots
  <2> QED BY <2>5, <2>7 DEF InX
<1> QED BY <1>7, <1>8

(* At the end of the picture's dots, X is copied. *)
LEMMA BorderDotKept ==
  ASSUME Drawn, dot = VisibleEnd
  PROVE  InY' /\ InX'
<1>1. PICK d : d = dot + 1
  OBVIOUS
<1>2. /\ rendering /\ RenderLine /\ Render(d) /\ Begins(d) /\ line' = line /\ line \in Nat
      /\ dot' = d /\ d = SprFetchStart
  BY <1>1, DrawnDot, Dots DEF Drawn, Typed
<1>3. d # VisibleEnd /\ CopiesX(d) /\ ~CopiesY(d)
  BY <1>2, Dots DEF CopiesX, CopiesY
<1>4. column' = [nt |-> want.nt, x |-> want.x] /\ top' = top
  BY <1>2, <1>3 DEF Begins
<1>5. v' = CopyX(v)
  BY <1>2, <1>3, Working DEF Moved
<1>6. /\ v' \in Nat /\ FineY(v') = FineY(v) /\ NtY(v') = NtY(v) /\ CoarseY(v') = CoarseY(v)
      /\ NtX(v') = NtX(t) /\ CoarseX(v') = CoarseX(t)
  BY <1>5, Copied DEF Drawn, Typed, Has
<1>7. KnownX' => AtTile(v, 0)'
  <2> SUFFICES ASSUME KnownX' PROVE AtTile(v, 0)'
    OBVIOUS
  <2>1. want.nt # Unknown /\ want.x # Unknown
    BY <1>4 DEF KnownX
  <2>2. want.nt \in 0..3 /\ want.x \in Nat /\ want.x < TileWidth * Cols
    BY <2>1, Sizes DEF Drawn, Typed, NtIn, XIn
  <2>3. PICK q : q = want.x \div TileWidth
    OBVIOUS
  <2>4. q \in Nat /\ q < Cols
    <3>1. PICK w : w = TileWidth
      OBVIOUS
    <3>2. w \in Nat /\ w >= 1 /\ want.x < w * Cols /\ Cols \in Nat
      BY <2>2, <3>1, Sizes
    <3>3. want.x \div w \in Nat /\ want.x \div w < Cols
      BY <2>2, <3>2, Quotients, SmallQuotient
    <3> QED BY <2>3, <3>1, <3>3
  <2>5. q + 0 = q /\ q \div Cols = 0 /\ q % Cols = q /\ want.nt + 0 = want.nt
    BY <2>2, <2>4, Sizes, Below
  <2>6. TileNt(0)' = want.nt % 2 /\ TileCol(0)' = q
    BY <1>4, <2>3, <2>5 DEF TileNt, TileCol, Tiles
  <2>7. NtX(t) = want.nt % 2 /\ CoarseX(t) = q
    BY <2>1, <2>3 DEF Drawn, Asks
  <2> QED BY <1>6, <2>6, <2>7 DEF AtTile, NtX, CoarseX
<1>8. InY'
  <2>1. CASE line = Prerender
    BY <1>2, <2>1 DEF InY
  <2>2. CASE line # Prerender
    <3>1. InY
      BY <1>1, <2>2, DrawnDot
    <3>2. Due = line + 1 /\ Due' = line + 1
      BY <1>2, <2>2, Dots DEF Due
    <3>3. KnownY => At(v, Row(line + 1))
      BY <2>2, <3>1, <3>2 DEF InY
    <3>4. PICK n : n = line + 1
      OBVIOUS
    <3>5. Row(n)' = Row(n) /\ (KnownY' <=> KnownY)
      BY <1>4, RowIs DEF KnownY
    <3>6. KnownY' => At(v, Row(n))'
      BY <1>6, <3>3, <3>4, <3>5 DEF At, NtY, CoarseY, FineY
    <3> QED BY <3>2, <3>4, <3>6 DEF InY
  <2> QED BY <2>1, <2>2
<1>9. /\ ~(dot' < VisibleEnd) /\ ~(SprFetchEnd <= dot') /\ ~(dot' >= PrefetchEnd) /\ ~(dot' > PrefetchEnd) /\ dot' # 0
  BY <1>2, Dots
<1> QED BY <1>7, <1>8, <1>9 DEF InX

(* During the fetches for sprites Y is copied, before a picture. *)
LEMMA SpriteDotKept ==
  ASSUME Drawn, SprFetchStart <= dot, dot < SprFetchEnd
  PROVE  InY' /\ InX'
<1>1. PICK d : d = dot + 1
  OBVIOUS
<1>2. /\ rendering /\ RenderLine /\ Render(d) /\ Begins(d) /\ line' = line /\ line \in Nat /\ dot \in Nat
      /\ dot' = d /\ InY /\ InX
  BY <1>1, DrawnDot, Dots DEF Drawn, Typed
<1>3. d # VisibleEnd /\ ~CopiesX(d) /\ ~Fetches(d)
  BY <1>1, <1>2, Dots DEF CopiesX, Fetches, Shows
<1>4. column' = column
  BY <1>2, <1>3 DEF Begins
<1>5. v' = IF CopiesY(d) THEN CopyY(v) ELSE v
  BY <1>2, <1>3, Working DEF Moved, MovedX
<1>6. /\ v' \in Nat /\ NtX(v') = NtX(v) /\ CoarseX(v') = CoarseX(v)
      /\ CopiesY(d) => FineY(v') = FineY(t) /\ NtY(v') = NtY(t) /\ CoarseY(v') = CoarseY(t)
  BY <1>5, Copied DEF Drawn, Typed, Has
<1>7. KnownX' => AtTile(v, 0)'
  <2>1. KnownX => AtTile(v, 0)
    BY <1>2 DEF InX
  <2>2. (KnownX' <=> KnownX) /\ TileNt(0)' = TileNt(0) /\ TileCol(0)' = TileCol(0)
    BY <1>4 DEF KnownX, TileNt, TileCol, Tiles
  <2> QED BY <1>6, <2>1, <2>2 DEF AtTile, NtX, CoarseX
<1>8. Due' = Due
  BY <1>1, <1>2, Dots DEF Due
<1>9. KnownY' => At(v, Row(Due))'
  <2>1. CASE CopiesY(d)
    <3>1. top' = [nt |-> want.nt, y |-> want.y] /\ line = Prerender
      BY <1>2, <2>1 DEF Begins, CopiesY
    <3> SUFFICES ASSUME KnownY' PROVE At(v, Row(Due))'
      OBVIOUS
    <3>2. want.nt # Unknown /\ want.y # Unknown
      BY <3>1 DEF KnownY
    <3>3. Begun(top')
      BY <3>1, <3>2 DEF Begun, Drawn, Typed, NtIn, YIn
    <3>4. Row(0)' = [nt_y |-> want.nt \div 2, y |-> want.y]
      BY <3>1, <3>3, RowIs, FirstRow
    <3>5. Due' = 0
      BY <1>2, <3>1 DEF Due
    <3>6. NtY(t) = want.nt \div 2 /\ CoarseY(t) = want.y \div FineRows /\ FineY(t) = want.y % FineRows
      BY <3>2 DEF Drawn, Asks
    <3>7. At(v', [nt_y |-> want.nt \div 2, y |-> want.y])
      BY <1>6, <2>1, <3>6 DEF At
    <3>8. Row(Due)' = [nt_y |-> want.nt \div 2, y |-> want.y]
      BY <3>4, <3>5
    <3> QED BY <3>7, <3>8 DEF At, NtY, CoarseY, FineY
  <2>2. CASE ~CopiesY(d)
    <3>1. top' = top /\ v' = v
      BY <1>2, <1>5, <2>2 DEF Begins
    <3>2. line = Prerender => dot # SprFetchStart
      BY <1>1, <1>2, <2>2, Dots DEF CopiesY
    <3>3. KnownY => At(v, Row(Due))
      BY <1>2, <3>2 DEF InY
    <3>4. PICK n : n = Due
      OBVIOUS
    <3>5. Row(n)' = Row(n) /\ (KnownY' <=> KnownY)
      BY <3>1, RowIs DEF KnownY
    <3>6. KnownY' => At(v, Row(n))'
      BY <3>1, <3>3, <3>4, <3>5 DEF At, NtY, CoarseY, FineY
    <3> QED BY <1>8, <3>4, <3>6
  <2> QED BY <2>1, <2>2
<1>10. InY'
  BY <1>9 DEF InY
<1>11. dot' >= SprFetchStart /\ ~(dot' < VisibleEnd) /\ ~(dot' >= PrefetchEnd) /\ ~(dot' > PrefetchEnd) /\ dot' # 0
  BY <1>1, <1>2, Dots
<1>12. SprFetchEnd <= dot' => Fetching((dot - SprFetchEnd) \div TileWidth, (dot - SprFetchEnd) % TileWidth, Due)'
  <2> SUFFICES ASSUME SprFetchEnd <= dot'
               PROVE  Fetching((dot - SprFetchEnd) \div TileWidth, (dot - SprFetchEnd) % TileWidth, Due)'
    OBVIOUS
  <2>1. dot' - SprFetchEnd = 0
    BY <1>1, <1>2, Dots
  <2>2. 0 \div TileWidth = 0 /\ 0 % TileWidth = 0
    BY Sizes, Below
  <2>3. Fetching(0, 0, Due)'
    <3>1. ~(0 >= 1) /\ ~(0 >= 3) /\ ~(0 >= 2)
      OBVIOUS
    <3>2. \A i \in 1..(2 * TileWidth) : ~(i + 0 > 2 * TileWidth)
      BY Sizes
    <3>3. Lanes(Loaded(tile_shift), 0, 0, Due)'
      BY <3>1, <3>2 DEF Lanes, Filled, InLane
    <3>4. Comes(0, Due)'
      BY <3>1, <3>3 DEF Comes
    <3> QED BY <1>7, <3>4 DEF Fetching
  <2> QED BY <2>1, <2>2, <2>3
<1> QED BY <1>7, <1>10, <1>11, <1>12 DEF InX

(* The first two tiles of the next line. *)
LEMMA PrefetchDotKept ==
  ASSUME Drawn, SprFetchEnd <= dot, dot < PrefetchEnd
  PROVE  InY' /\ InX'
<1>1. PICK d, e, q, s : d = dot + 1 /\ e = dot - SprFetchEnd /\ q = e \div TileWidth /\ s = e % TileWidth
  OBVIOUS
<1>2. /\ rendering /\ RenderLine /\ Render(d) /\ Begins(d) /\ line' = line /\ line \in Nat /\ dot \in Nat
      /\ dot' = d /\ InY /\ InX /\ Typed /\ mirroring' = mirroring
  BY <1>1, DrawnDot, Dots DEF Drawn, Typed
<1>3. /\ Steps(d, q, s) /\ d # VisibleEnd /\ e \in Nat /\ q \in {0, 1}
      /\ IF s = TileWidth - 1 THEN (e + 1) \div TileWidth = q + 1 /\ (e + 1) % TileWidth = 0
         ELSE (e + 1) \div TileWidth = q /\ (e + 1) % TileWidth = s + 1
      /\ d = PrefetchEnd <=> (q = 1 /\ s = TileWidth - 1)
  BY <1>1, <1>2, PrefetchDots
<1>4. UNCHANGED <<mirroring, column, top>>
  BY <1>2, <1>3, NothingCopied DEF Steps
<1>5. PICK n : n = Due
  OBVIOUS
<1>6. Due' = n
  BY <1>1, <1>2, <1>5, Dots DEF Due
<1>7. KnownY => At(v, Row(n))
  <2>1. ~(line = Prerender /\ dot = SprFetchStart)
    BY <1>2, Dots
  <2> QED BY <1>2, <1>5, <2>1 DEF InY
<1>8. Fetching(q, s, n)
  BY <1>1, <1>2, <1>5 DEF InX
<1>9. q # 2
  BY <1>3
<1>10. /\ IF s = TileWidth - 1 THEN Fetching(q + 1, 0, n)' ELSE Fetching(q, s + 1, n)'
       /\ KnownY' => At(v, Row(n))'
  BY <1>2, <1>3, <1>4, <1>7, <1>8, <1>9, StepKept
<1>11. InY'
  BY <1>6, <1>10 DEF InY
<1>12. dot' - SprFetchEnd = e + 1
  BY <1>1, <1>2, Dots
<1>13. Fetching((dot - SprFetchEnd) \div TileWidth, (dot - SprFetchEnd) % TileWidth, Due)'
  <2>1. CASE s = TileWidth - 1
    <3>1. (e + 1) \div TileWidth = q + 1 /\ (e + 1) % TileWidth = 0
      BY <1>3, <2>1
    <3>2. Fetching(q + 1, 0, n)'
      BY <1>10, <2>1
    <3> QED BY <1>6, <1>12, <3>1, <3>2
  <2>2. CASE s # TileWidth - 1
    <3>1. (e + 1) \div TileWidth = q /\ (e + 1) % TileWidth = s + 1
      BY <1>3, <2>2
    <3>2. Fetching(q, s + 1, n)'
      BY <1>10, <2>2
    <3> QED BY <1>6, <1>12, <3>1, <3>2
  <2> QED BY <2>1, <2>2
<1>14. dot' >= PrefetchEnd => Fetching(2, 0, Due)'
  <2> SUFFICES ASSUME dot' >= PrefetchEnd PROVE Fetching(2, 0, Due)'
    OBVIOUS
  <2>1. d = PrefetchEnd
    BY <1>1, <1>2, Dots
  <2>2. q = 1 /\ s = TileWidth - 1
    BY <1>3, <2>1
  <2>3. q + 1 = 2
    BY <2>2
  <2> QED BY <1>6, <1>10, <2>2, <2>3
<1>15. /\ ~(dot' < VisibleEnd) /\ ~(dot' > PrefetchEnd) /\ dot' # 0 /\ ~(dot' < SprFetchEnd)
  BY <1>1, <1>2, Dots
<1> QED BY <1>11, <1>13, <1>14, <1>15 DEF InX

LEMMA LoadedTwice ==
  ASSUME tile' = tile, tile_shift' = Loaded(tile_shift)
  PROVE  Loaded(tile_shift)' = Loaded(tile_shift)
<1>1. PICK p, w : p = Loaded(tile_shift) /\ w = tile_shift
  OBVIOUS
<1>2. p = [i \in 1..(2 * TileWidth) |-> IF i <= TileWidth THEN w[i] ELSE w[i] \union {<<tile, i - TileWidth - 1>>}]
  BY <1>1 DEF Loaded
<1>3. \A i \in 1..(2 * TileWidth) : p[i] = IF i <= TileWidth THEN w[i] ELSE w[i] \union {<<tile, i - TileWidth - 1>>}
  BY <1>2
<1>4. Loaded(tile_shift)' =
        [i \in 1..(2 * TileWidth) |-> IF i <= TileWidth THEN p[i] ELSE p[i] \union {<<tile, i - TileWidth - 1>>}]
  BY <1>1 DEF Loaded
<1>5. \A i \in 1..(2 * TileWidth) :
        (IF i <= TileWidth THEN p[i] ELSE p[i] \union {<<tile, i - TileWidth - 1>>}) = p[i]
  BY <1>3
<1>6. Loaded(tile_shift)' = [i \in 1..(2 * TileWidth) |-> p[i]]
  BY <1>4, <1>5
<1>7. p = [i \in 1..(2 * TileWidth) |-> p[i]]
  BY <1>2
<1> QED BY <1>1, <1>6, <1>7

(* The fetches that nothing comes of but another palette. *)
LEMMA DummyDotKept ==
  ASSUME Drawn, dot >= PrefetchEnd
  PROVE  InY' /\ InX'
<1>1. PICK d : d = dot + 1
  OBVIOUS
<1>2. /\ rendering /\ RenderLine /\ Render(d) /\ Begins(d) /\ line' = line /\ line \in Nat /\ dot \in Nat
      /\ dot' \in Nat /\ dot' > PrefetchEnd /\ InY /\ InX /\ mirroring' = mirroring
  BY <1>1, DrawnDot, Dots DEF Drawn, Typed
<1>3. d > PrefetchEnd /\ d \in Nat
  BY <1>1, <1>2, Dots
<1>4. ~Fetches(d) /\ ~SprDot(d) /\ DummyDot(d) /\ ~CopiesX(d) /\ ~CopiesY(d) /\ d # VisibleEnd
  <2>1. ~Fetches(d)
    BY <1>3, Dots DEF Fetches, Shows
  <2>2. ~SprDot(d)
    BY <1>3, Dots DEF SprDot
  <2>3. DummyDot(d) /\ ~CopiesX(d) /\ d # VisibleEnd
    BY <1>3, Dots DEF DummyDot, CopiesX
  <2>4. ~CopiesY(d)
    BY <1>3, Dots DEF CopiesY
  <2> QED BY <2>1, <2>2, <2>3, <2>4
<1>5. FetchesNt(d) /\ ~FetchesAttr(d) /\ ~FetchesTile(d)
  BY <1>4 DEF FetchesNt, FetchesAttr, FetchesTile
<1>6. UNCHANGED <<mirroring, column, top>>
  BY <1>2, <1>4, NothingCopied
<1>7. v' = v /\ tile' = tile /\ next_palette' = next_palette /\ curr_palette' = next_palette
      /\ tile_shift' = Loaded(tile_shift)
  BY <1>2, <1>4, <1>5, Working DEF Moved, MovedX, ShiftAt, CurrAt
<1>8. PICK n : n = Due
  OBVIOUS
<1>9. Due' = n
  BY <1>2, <1>8, Dots DEF Due
<1>10. InY'
  <2>1. KnownY => At(v, Row(n))
    BY <1>2, <1>8, Dots DEF InY
  <2>2. KnownY' => At(v, Row(n))'
    BY <1>6, <1>7, <2>1, SamePlaces DEF At, NtY, CoarseY, FineY
  <2> QED BY <1>9, <2>2 DEF InY
<1>11. Fetching(2, 0, n)
  BY <1>2, <1>8 DEF InX
<1>12. (KnownX' <=> KnownX) /\ (Known' <=> Known)
  BY <1>6, SamePlaces
<1>13. KnownX' => AtTile(v, 2)'
  BY <1>6, <1>7, <1>11, <1>12, SamePlaces DEF Fetching, AtTile, NtX, CoarseX
<1>14. Known' => Comes(2, n)' /\ curr_palette' = PaletteOf(2, n)'
  <2> SUFFICES ASSUME Known' PROVE Comes(2, n)' /\ curr_palette' = PaletteOf(2, n)'
    OBVIOUS
  <2>1. Comes(2, n)
    BY <1>11, <1>12 DEF Fetching
  <2>2. tile = TileAt(1, n) /\ next_palette = PaletteAt(1, n) /\ Lanes(Loaded(tile_shift), 2, 0, n)
    BY <2>1 DEF Comes
  <2>3. /\ TileAt(1, n)' = TileAt(1, n) /\ TileAt(0, n)' = TileAt(0, n) /\ PaletteAt(1, n)' = PaletteAt(1, n)
    BY <1>6, SamePlaces
  <2>4. Lanes(Loaded(tile_shift), 2, 0, n)'
    <3>1. PICK p, a, b : p = Loaded(tile_shift) /\ a = TileAt(0, n) /\ b = TileAt(1, n)
      OBVIOUS
    <3>2. p = Loaded(tile_shift)' /\ a = TileAt(0, n)' /\ b = TileAt(1, n)'
      BY <1>7, <2>3, <3>1, LoadedTwice
    <3>3. Filled(p, 2, 0, a, b)
      BY <2>2, <3>1 DEF Lanes
    <3> QED BY <3>2, <3>3 DEF Lanes, Filled, InLane
  <2>5. tile' = TileAt(1, n)' /\ next_palette' = PaletteAt(1, n)' /\ curr_palette' = PaletteAt(1, n)'
    BY <1>7, <2>2, <2>3
  <2>6. Comes(2, n)'
    BY <2>4, <2>5 DEF Comes
  <2>7. PaletteOf(2, n)' = PaletteAt(1, n)'
    BY DEF PaletteOf
  <2> QED BY <2>5, <2>6, <2>7
<1>15. Fetching(2, 0, n)'
  BY <1>13, <1>14 DEF Fetching
<1>16. /\ ~(dot' < VisibleEnd) /\ ~(dot' < SprFetchEnd) /\ ~(dot' < PrefetchEnd)
  BY <1>2, DrawnDot, Dots
<1>17. Known' => curr_palette' = PaletteOf(2, Due)'
  BY <1>9, <1>14
<1> QED BY <1>9, <1>10, <1>15, <1>16, <1>17 DEF InX

-----------------------------------------------------------------------------
(* The pixels. *)

(* What is at a dot of a line. *)
PatternOf(d, n) ==
  [page |-> Page(Column(d).nt_x, Row(n).nt_y), row |-> Row(n).y \div FineRows,
   col |-> Column(d).x \div TileWidth, fine_y |-> Row(n).y % FineRows]

PaletteIn(d, n) ==
  [page |-> Page(Column(d).nt_x, Row(n).nt_y), row |-> (Row(n).y \div FineRows) \div 2,
   col |-> (Column(d).x \div TileWidth) \div 2]

First(d) == x + d - 1 < TileWidth

Wanted(d, n, p) ==
  /\ p.pattern = {<<PatternOf(d, n), Column(d).x % TileWidth>>}
  /\ p.palette = PaletteIn(IF First(d) THEN d + TileWidth ELSE d, n)

(* Where a dot is in its tile, and which tile of the line that is. *)
LEMMA OfTile ==
  ASSUME InScreen(column), x \in Nat, NEW d \in Nat, NEW n, NEW k \in Nat, NEW f \in Nat, f < TileWidth,
         x + d = (TileWidth * k + f) + 1
  PROVE  PatternOf(d, n) = TileAt(k, n) /\ Column(d).x % TileWidth = f /\ PaletteIn(d, n) = PaletteAt(k, n)
BY ColumnIs DEF PatternOf, PaletteIn, TileAt, PaletteAt

(* The pixel of a dot is taken from one of the two tiles in the registers. *)
LEMMA PixelIsWanted ==
  ASSUME InScreen(column), x \in Nat, x < TileWidth, NEW d, NEW q \in Nat, NEW m, NEW s \in Nat, NEW n,
         m = 2 + q, s < TileWidth, d = (TileWidth * q + s) + 1, (d - 1) % TileWidth = s,
         NEW shift, NEW prev, NEW curr,
         Lanes(shift, m, s, n), curr = PaletteAt(m - 1, n), prev = PaletteOf(m, n)
  PROVE  Wanted(d, n, Pixel(d, shift, prev, curr))
<1>1. TileWidth \in Nat /\ TileWidth >= 4
  BY Sizes
<1>2. PICK g \in Nat : g = TileWidth * q
  BY <1>1
<1>3. d \in Nat /\ d = g + s + 1
  BY <1>1, <1>2
<1>4. Pixel(d, shift, prev, curr) = [pattern |-> shift[x + 1], palette |-> IF x + s < TileWidth THEN prev ELSE curr]
  BY DEF Pixel
<1>5. PICK i \in 1..(2 * TileWidth) : i = x + 1
  BY <1>1
<1>12. PICK p \in Nat : p = i + s
  BY <1>1, <1>5
<1>6. InLane(shift[i], p, m, TileAt(m - 2, n), TileAt(m - 1, n))
  BY <1>12 DEF Lanes, Filled
<1>7. m - 2 = q /\ m - 1 = q + 1 /\ m >= 1 /\ m >= 2 /\ p \in Nat /\ p = x + s + 1 /\ q + 1 \in Nat
  BY <1>5, <1>12
<1>8. TileWidth * (q + 1) = g + TileWidth
  BY <1>1, <1>2
<1>9. First(d) <=> (q = 0 /\ x + s < TileWidth)
  <2>1. CASE q = 0
    <3>1. g = 0
      BY <1>1, <1>2, <2>1
    <3> QED BY <1>1, <1>3, <2>1, <3>1 DEF First
  <2>2. CASE q # 0
    <3>1. TileWidth * 1 <= TileWidth * q
      BY <1>1, <2>2
    <3>2. g >= TileWidth
      BY <1>1, <1>2, <3>1
    <3> QED BY <1>1, <1>3, <2>2, <3>2 DEF First
  <2> QED BY <2>1, <2>2
<1>10. CASE x + s < TileWidth
  <2>1. PICK f \in Nat : f = x + s /\ f < TileWidth /\ p - 1 = f
    BY <1>7, <1>10
  <2>2. x + d = (TileWidth * q + f) + 1
    BY <1>2, <1>3, <2>1
  <2>3. PatternOf(d, n) = TileAt(q, n) /\ Column(d).x % TileWidth = f /\ PaletteIn(d, n) = PaletteAt(q, n)
    BY <1>3, <2>1, <2>2, OfTile
  <2>4. shift[i] = {<<TileAt(m - 2, n), p - 1>>}
    <3>1. p <= TileWidth
      BY <1>1, <1>7, <1>10
    <3> QED BY <1>6, <1>7, <3>1 DEF InLane
  <2>5. shift[x + 1] = {<<PatternOf(d, n), Column(d).x % TileWidth>>}
    BY <1>5, <1>7, <2>1, <2>3, <2>4
  <2>6. CASE q = 0
    <3>1. PICK e : e = d + TileWidth
      OBVIOUS
    <3>2. e \in Nat /\ x + e = (TileWidth * (q + 1) + f) + 1
      BY <1>1, <1>2, <1>3, <1>8, <2>1, <3>1
    <3>3. PaletteIn(e, n) = PaletteAt(q + 1, n)
      BY <1>7, <2>1, <3>2, OfTile
    <3>4. prev = PaletteAt(1, n)
      BY <2>6 DEF PaletteOf
    <3>5. q + 1 = 1
      BY <2>6
    <3> QED BY <1>4, <1>9, <1>10, <2>5, <2>6, <3>1, <3>3, <3>4, <3>5 DEF Wanted
  <2>7. CASE q # 0
    <3>1. prev = PaletteAt(q, n)
      <4>1. m # 2
        BY <2>7
      <4> QED BY <1>7, <4>1 DEF PaletteOf
    <3>2. ~First(d)
      BY <1>9, <2>7
    <3> QED BY <1>4, <1>10, <2>3, <2>5, <3>1, <3>2 DEF Wanted
  <2> QED BY <2>6, <2>7
<1>11. CASE ~(x + s < TileWidth)
  <2>1. PICK f \in Nat : f = x + s - TileWidth /\ f < TileWidth /\ p - TileWidth - 1 = f
    BY <1>1, <1>7, <1>11
  <2>2. x + d = (TileWidth * (q + 1) + f) + 1
    BY <1>1, <1>3, <1>8, <2>1
  <2>3. PatternOf(d, n) = TileAt(q + 1, n) /\ Column(d).x % TileWidth = f /\ PaletteIn(d, n) = PaletteAt(q + 1, n)
    BY <1>3, <1>7, <2>1, <2>2, OfTile
  <2>4. shift[i] = {<<TileAt(m - 1, n), p - TileWidth - 1>>}
    <3>1. TileWidth < p /\ p <= 2 * TileWidth
      BY <1>1, <1>7, <1>11
    <3> QED BY <1>6, <1>7, <3>1 DEF InLane
  <2>5. shift[x + 1] = {<<PatternOf(d, n), Column(d).x % TileWidth>>}
    BY <1>5, <1>7, <2>1, <2>3, <2>4
  <2>6. ~First(d)
    BY <1>9, <1>11
  <2> QED BY <1>4, <1>7, <1>11, <2>3, <2>5, <2>6 DEF Wanted
<1> QED BY <1>10, <1>11

LEMMA WantedIsInPlace ==
  ASSUME \A p \in pixel' : Wanted(dot, line, p)'
  PROVE  PictureInPlace'
<1>1. PatternInPlace'
  BY DEF PatternInPlace, Wanted, PatternOf
<1>2. PaletteInPlace'
  BY DEF PaletteInPlace, Wanted, PaletteIn, First
<1> QED BY <1>1, <1>2 DEF PictureInPlace

(* A dot of a known picture draws a pixel in its place. *)
LEMMA PictureDotInPlace ==
  ASSUME Drawn, dot < VisibleEnd, Known
  PROVE  PictureInPlace'
<1>1. /\ dot' = dot + 1 /\ line < Height /\ line \in Nat /\ UNCHANGED <<mirroring, column, top>>
      /\ KnownY => At(v, Row(line))
      /\ Fetching(2 + dot \div TileWidth, dot % TileWidth, line)
      /\ 2 + dot \div TileWidth = 2 /\ dot % TileWidth = 0 /\ Known => curr_palette = PaletteOf(2, line)
  BY InPicture
<1>2. rendering /\ RenderLine /\ Render(dot + 1) /\ line' = line /\ dot \in Nat /\ Typed /\ x' = x
  BY DrawnDot DEF Drawn, Dot
<1>3. PICK d, q, m, s, n : d = dot + 1 /\ q = dot \div TileWidth /\ m = 2 + q /\ s = dot % TileWidth /\ n = line
  OBVIOUS
<1>4. q \in Nat /\ s \in Nat /\ s < TileWidth /\ dot = TileWidth * q + s
  BY <1>2, <1>3, TileSteps
<1>5. Steps(d, m, s) /\ Shows(d)
  BY <1>2, <1>3, PictureDots
<1>6. PICK shift, prev, curr : shift = ShiftAt(d) /\ prev = PrevAt(d) /\ curr = CurrAt(d)
  OBVIOUS
<1>7. Lanes(shift, m, s, n) /\ curr = PaletteAt(m - 1, n) /\ prev = PaletteOf(m, n)
  <2>1. Fetching(m, s, n) /\ (m = 2 /\ s = 0 => curr_palette = PaletteOf(2, n))
    BY <1>1, <1>3
  <2>2. m >= 1 /\ m >= 2
    BY <1>3, <1>4
  <2> QED BY <1>5, <1>6, <2>1, <2>2, WorksWith
<1>8. pixel' = {Pixel(d, shift, prev, curr)}
  BY <1>1, <1>2, <1>3, <1>5, <1>6, Working
<1>9. Wanted(d, n, Pixel(d, shift, prev, curr))
  <2>1. InScreen(column)
    BY <1>2 DEF Typed, NtIn, XIn, Known, KnownX, InScreen
  <2>2. d = (TileWidth * q + s) + 1 /\ (d - 1) % TileWidth = s
    <3>1. d - 1 = dot
      BY <1>2, <1>3
    <3> QED BY <1>3, <1>4, <3>1
  <2>3. x \in Nat /\ x < TileWidth
    BY <1>2 DEF Typed
  <2> QED BY <1>3, <1>4, <1>7, <2>1, <2>2, <2>3, PixelIsWanted
<1>10. \A p : Wanted(d, n, p) => Wanted(dot, line, p)'
  <2>1. \A e : Column(e)' = Column(e)
    BY <1>1, <1>2 DEF Column
  <2>2. Row(n)' = Row(n)
    BY <1>1, SamePlaces
  <2>3. dot' = d /\ line' = n
    BY <1>1, <1>2, <1>3
  <2>4. PatternOf(dot, line)' = PatternOf(d, n) /\ Column(dot)' = Column(d)
    BY <1>1, <2>1, <2>2, <2>3 DEF PatternOf, Page
  <2>5. First(dot)' <=> First(d)
    BY <1>2, <2>3 DEF First
  <2>6. \A e : PaletteIn(e, line)' = PaletteIn(e, n)
    BY <1>1, <2>1, <2>2, <2>3 DEF PaletteIn, Page
  <2>7. PaletteIn(IF First(dot) THEN dot + TileWidth ELSE dot, line)' =
          PaletteIn(IF First(d) THEN d + TileWidth ELSE d, n)
    BY <2>3, <2>5, <2>6
  <2> QED BY <2>4, <2>7 DEF Wanted
<1> QED BY <1>8, <1>9, <1>10, WantedIsInPlace

(* What a dot of rendering does. *)
LEMMA DotAsks ==
  ASSUME Typed, Asks, Dot
  PROVE  Asks'
BY DEF Asks, Dot, NtX, NtY, CoarseX, CoarseY, FineY, Cells

(* No dot disturbs v and the fetches. *)
LEMMA DotInPlace ==
  ASSUME Typed, Asks, InPlace, Dot
  PROVE  InPlace'
<1> SUFFICES ASSUME Drawing'
             PROVE  InY' /\ InX'
  BY DEF InPlace
<1>1. Drawn
  BY DEF Drawn
<1>2. dot \in Nat
  BY DEF Typed
<1>3. /\ VisibleEnd \in Nat /\ SprFetchEnd \in Nat /\ PrefetchEnd \in Nat
      /\ SprFetchStart = VisibleEnd + 1
  BY Dots DEF SprFetchStart
<1>4. CASE dot < VisibleEnd
  BY <1>1, <1>4, PictureDotKept
<1>5. CASE dot = VisibleEnd
  BY <1>1, <1>5, BorderDotKept
<1>6. CASE SprFetchStart <= dot /\ dot < SprFetchEnd
  BY <1>1, <1>6, SpriteDotKept
<1>7. CASE SprFetchEnd <= dot /\ dot < PrefetchEnd
  BY <1>1, <1>7, PrefetchDotKept
<1>8. CASE dot >= PrefetchEnd
  BY <1>1, <1>8, DummyDotKept
<1> QED BY <1>2, <1>3, <1>4, <1>5, <1>6, <1>7, <1>8

LEMMA UnjudgedInPlace ==
  ASSUME ~Judged'
  PROVE  PictureInPlace'
BY DEF PictureInPlace, PatternInPlace, PaletteInPlace

LEMMA DotPicture ==
  ASSUME Typed, Asks, InPlace, Dot
  PROVE  PictureInPlace'
<1>1. CASE ~Judged'
  BY <1>1, UnjudgedInPlace
<1>2. CASE Judged'
  <2>1. steady' /\ pixel' # {} /\ Known'
    BY <1>2 DEF Judged, Known, KnownX, KnownY
  <2>2. Shows(dot + 1) /\ line < Height /\ line' = line /\ dot \in Nat
    BY <2>1 DEF Dot, Render, Typed
  <2>3. Drawing'
    <3>1. Height' = Height
      OBVIOUS
    <3> QED BY <2>1, <2>2, <3>1 DEF Drawing
  <2>4. Drawn
    BY <2>3 DEF Drawn
  <2>5. dot < VisibleEnd
    BY <2>2, Dots DEF Shows
  <2>6. Known
    <3>1. UNCHANGED <<mirroring, column, top>>
      BY <2>4, <2>5, InPicture
    <3> QED BY <2>1, <3>1, SamePlaces
  <2> QED BY <2>4, <2>5, <2>6, PictureDotInPlace
<1> QED BY <1>1, <1>2

LEMMA InitInv == Init => IInv
<1> SUFFICES ASSUME Init
             PROVE  IInv
  OBVIOUS
<1>1. Typed /\ Asks
  BY InitTypes
<1>2. ~steady
  BY DEF Init
<1> QED BY <1>1, <1>2 DEF IInv, InPlace, Drawing, PictureInPlace, PatternInPlace, PaletteInPlace, Judged

LEMMA KeptInv ==
  ASSUME Kept
  PROVE  IInv'
<1>1. ~Judged'
  BY DEF Kept, Judged
<1> QED BY <1>1, UnjudgedInPlace DEF Kept, IInv

(* The invariant is inductive. *)
LEMMA NextInv == IInv /\ [Next]_vars => IInv'
<1> SUFFICES ASSUME IInv, [Next]_vars
             PROVE  IInv'
  OBVIOUS
<1>1. Typed /\ Asks /\ InPlace /\ PictureInPlace
  BY DEF IInv
<1>2. CASE Dot
  BY <1>1, <1>2, DotTypes, DotAsks, DotInPlace, DotPicture DEF IInv
<1>3. CASE NextLine
  BY <1>1, <1>3, NextLineKept, KeptInv
<1>4. ASSUME NEW nt \in Tables, WriteCtrl(nt)
      PROVE  IInv'
  BY <1>1, <1>4, WriteCtrlKept, KeptInv
<1>5. CASE WriteMask \/ ReadStatus \/ AccessData \/ \E hard \in BOOLEAN : Reset(hard)
  BY <1>1, <1>5, OtherAccessKept, KeptInv
<1>6. ASSUME NEW val \in XScrolls \union YScrolls, WriteScroll(val)
      PROVE  IInv'
  BY <1>1, <1>6, WriteScrollKept, KeptInv
<1>7. ASSUME NEW val \in HiBytes \union LoBytes, WriteAddr(val)
      PROVE  IInv'
  BY <1>1, <1>7, WriteAddrKept, KeptInv
<1>8. CASE UNCHANGED vars
  <2>1. /\ UNCHANGED <<mirroring, line, dot, rendering, v, t, x, write_latch>>
        /\ UNCHANGED <<fetches, pixel, want, second, column, top, steady>>
    BY <1>8 DEF vars, beam, registers, asked
  <2>2. Typed'
    BY <1>1, <2>1 DEF Typed, Holds, NtIn, XIn, YIn, fetches, Prerender, CycleEnd
  <2>3. Asks'
    BY <1>1, <2>1 DEF Asks, NtX, NtY, CoarseX, CoarseY, FineY, Cells
  <2>4. InPlace'
    BY <1>1, <2>1, Undisturbed
  <2>5. PictureInPlace'
    <3>1. /\ Judged' <=> Judged
          /\ \A d : Column(d)' = Column(d)
          /\ \A n : Row(n)' = Row(n)
          /\ \A a, b : Page(a, b)' = Page(a, b)
      BY <2>1, SamePlaces DEF Judged, Column, Page
    <3> QED BY <1>1, <2>1, <3>1 DEF PictureInPlace, PatternInPlace, PaletteInPlace
  <2> QED BY <2>2, <2>3, <2>4, <2>5 DEF IInv
<1> QED BY <1>2, <1>3, <1>4, <1>5, <1>6, <1>7, <1>8 DEF Next

(* The invariant holds in every state: at every dot of an undisturbed      *)
(* picture v is at the tile to fetch, and the shift registers hold the two *)
(* tiles before it (Ppu::tick, fetch_background).                          *)
THEOREM Invariance == Spec => []IInv
<1>1. Init => IInv
  BY InitInv
<1>2. IInv /\ [Next]_vars => IInv'
  BY NextInv
<1> QED BY <1>1, <1>2, PTL DEF Spec

(* As long as the program leaves v and rendering alone, every pixel of the *)
(* picture is that of the world at its place, with the palette of its      *)
(* block (Ppu::tick, pixel_color over PpuScroll).                          *)
THEOREM PicturesInPlace == Spec => []PictureInPlace
<1>1. IInv => PictureInPlace
  BY DEF IInv
<1> QED BY <1>1, Invariance, PTL

=============================================================================
