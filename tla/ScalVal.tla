------------------------------- MODULE ScalVal -------------------------------
(***************************************************************************)
(* The conversions of scalar values (cpsw_sval.cc): from the bytes of a    *)
(* device to the integers of the program and back, on a little-endian      *)
(* host.  A byte has ByteBits bits.  Buffers are functions from 0..n-1.    *)
(***************************************************************************)
EXTENDS Integers, FiniteSets

CONSTANT ByteBits       \* 8

ASSUME ByteAssumption == ByteBits \in Nat \ {0}

Byte    == 0..(2^ByteBits - 1)
Low(n)  == 2^n - 1                      \* n bits set
Len0(w) == Cardinality(DOMAIN w)

Nothing == [i \in {} |-> 0]            \* no bytes
Window(b, off, n) == [i \in 0..(n - 1) |-> b[off + i]]

\* The bytes w take the place of those from off on.  (TLC evaluates what \E or
\* CHOOSE binds only once.)
Paste(b, off, w) ==
    CHOOSE p \in {[i \in DOMAIN c |-> IF i - off \in DOMAIN v THEN v[i - off] ELSE c[i]] :
                     c \in {b}, v \in {w}} : TRUE

-----------------------------------------------------------------------------
(* Properties of an entry f: [sizeBits, lsBit, isSigned, wordSwap,         *)
(* byteOrder].                                                             *)

b2B(bits) == (bits + ByteBits - 1) \div ByteBits

\* One word that fills the entry needs no swap.
WordSwap(f) == IF f.wordSwap = b2B(f.sizeBits) THEN 0 ELSE f.wordSwap

\* CIntEntryImpl::checkArgs() for an entry that can be written.
checkArgs(f) ==
    /\ f.lsBit < ByteBits
    /\ WordSwap(f) > 0 => /\ b2B(f.sizeBits) % WordSwap(f) = 0
                          /\ f.sizeBits % ByteBits = 0

\* An entry of at least one bit that CIntEntryImpl() accepts for writing.
Valid(f) ==
    /\ f \in [sizeBits : Nat \ {0}, lsBit : Nat, isSigned : BOOLEAN, wordSwap : Nat,
              byteOrder : {"LE", "BE"}]
    /\ checkArgs(f)

computeSize(f) ==
    IF WordSwap(f) > 0 THEN b2B(f.sizeBits) + (IF f.lsBit # 0 THEN 1 ELSE 0)
                       ELSE b2B(f.sizeBits + f.lsBit)

-----------------------------------------------------------------------------
(* SignExtender, Swapper and BitShifter.                                   *)

\* The sign is taken from the top bit of the byte.
SignExtend_topBit(w, isSigned, sizeBits) ==
    LET signByte == (sizeBits - 1) \div ByteBits
        signBit  == (sizeBits - 1) % ByteBits
        negative == isSigned /\ w[signByte] > Low(ByteBits - 1)
    IN  [j \in DOMAIN w |->
            IF j < signByte THEN w[j]
            ELSE (IF j = signByte THEN w[j] % 2^(signBit + 1) ELSE 0)
                 + (IF ~negative THEN 0
                    ELSE IF j = signByte THEN Low(ByteBits) - Low(signBit + 1) ELSE Low(ByteBits))]

SignExtend(w, isSigned, sizeBits) ==
    LET signByte == (sizeBits - 1) \div ByteBits
        signBit  == (sizeBits - 1) % ByteBits
        negative == isSigned /\ (w[signByte] \div 2^signBit) % 2 = 1
    IN  [j \in DOMAIN w |->
            IF j < signByte THEN w[j]
            ELSE (IF j = signByte THEN w[j] % 2^(signBit + 1) ELSE 0)
                 + (IF ~negative THEN 0
                    ELSE IF j = signByte THEN Low(ByteBits) - Low(signBit + 1) ELSE Low(ByteBits))]

\* The first n bytes are words of wlen bytes; their order is reversed.
Swap(w, n, wlen) ==
    [i \in DOMAIN w |->
        IF wlen = 0 \/ i >= n THEN w[i]
        ELSE w[((n \div wlen) - 1 - (i \div wlen)) * wlen + (i % wlen)]]

ShiftRight(w, shift) ==
    [j \in DOMAIN w |->
        (((IF j + 1 \in DOMAIN w THEN w[j + 1] * 2^ByteBits ELSE 0) + w[j]) \div 2^shift)
            % 2^ByteBits]

ShiftLeft(w, shift) ==
    [j \in DOMAIN w |->
        (w[j] * 2^shift + (IF j > 0 THEN (w[j - 1] * 2^shift) \div 2^ByteBits ELSE 0))
            % 2^ByteBits]

-----------------------------------------------------------------------------
(* CGetIntValContext: nelms elements of computeSize(f) bytes, read into    *)
(* the user's buffer if they fit there, become integers of elsz bytes, the *)
(* last one first.                                                         *)

InPlace(f, elsz) == computeSize(f) <= elsz

SwapEndian(f, w) == IF f.byteOrder = "BE" THEN Swap(w, Len0(w), 1) ELSE w

\* The bytes of an element, up to the word swap.
FromDevice(f, w) ==
    Swap(ShiftRight(SwapEndian(f, w), f.lsBit), b2B(f.sizeBits), WordSwap(f))

\* Element k: the bytes that the read brought, in, are converted where they are
\* and moved to the output, out, where the sign is extended.
Element(f, k, in, out, elsz) ==
    LET size  == computeSize(f)
        w     == FromDevice(f, Window(in, k * size, size))
        base  == IF InPlace(f, elsz) THEN Paste(out, k * size, w) ELSE out
        moved == [j \in 0..(elsz - 1) |-> IF j < size THEN w[j] ELSE base[k * elsz + j]]
    IN  Paste(base, k * elsz, IF f.sizeBits >= ByteBits * elsz THEN moved
                              ELSE SignExtend(moved, f.isSigned, f.sizeBits))

doComplete(f, ibuf, nelms, elsz) ==
    LET done[n \in 0..nelms] ==
            IF n = 0
            THEN IF InPlace(f, elsz) THEN ibuf ELSE [j \in 0..(nelms * elsz - 1) |-> 0]
            ELSE CHOOSE b \in {Element(f, nelms - n, IF InPlace(f, elsz) THEN a ELSE ibuf, a, elsz) :
                                  a \in {done[n - 1]}} : TRUE
    IN  done[nelms]

-----------------------------------------------------------------------------
(* IIntEntryAdapt::setVal() for one element w of elsz bytes.  The buffer   *)
(* it is converted in holds anything before.                               *)

ToDevice(f, w, junk) ==
    LET size == computeSize(f)
        elsz == Len0(w)
        obuf == [j \in 0..(size - 1) |-> IF j < elsz THEN w[j] ELSE junk]
        ext  == IF f.sizeBits > ByteBits * elsz
                THEN SignExtend(obuf, f.isSigned, ByteBits * elsz) ELSE obuf
    IN  Paste(obuf, 0, SwapEndian(f, ShiftLeft(Swap(ext, b2B(f.sizeBits), WordSwap(f)), f.lsBit)))

\* Knows little-endian devices only.
Masks_LE(f) ==
    LET low  == Low(f.lsBit)
        used == (f.lsBit + f.sizeBits) % ByteBits
        high == IF used = 0 THEN 0 ELSE Low(ByteBits) - Low(used)
    IN  [msk1 |-> low, mskn |-> high]

\* The bits of the first and of the last byte that are not the entry's (none when
\* no conversion is necessary).
Masks(f) ==
    LET low  == Low(f.lsBit)
        used == (f.lsBit + f.sizeBits) % ByteBits
        high == IF used = 0 THEN 0 ELSE Low(ByteBits) - Low(used)
    IN  IF f.byteOrder = "BE" THEN [msk1 |-> high, mskn |-> low]
                              ELSE [msk1 |-> low, mskn |-> high]

\* ( old & msk ) | ( new & ~msk )
Merge(old, new, msk) ==
    LET bit(x, i) == (x \div 2^i) % 2
        sum[i \in 0..ByteBits] ==
            IF i = 0 THEN 0
            ELSE sum[i - 1] + 2^(i - 1) * bit(IF bit(msk, i - 1) = 1 THEN old ELSE new, i - 1)
    IN  sum[ByteBits]

\* write_func8() of the memory device (cpsw_mem_dev.cc) at offset off.
write_func8(mem, off, src, m) ==
    LET n == Len0(src)
        msk(j) == CASE n = 1 -> Merge(m.msk1, m.mskn, m.msk1)      \* msk1 | mskn
                    [] n > 1 /\ j = 0 -> m.msk1
                    [] n > 1 /\ j = n - 1 -> m.mskn
                    [] n > 1 /\ j \notin {0, n - 1} -> 0
    IN  Paste(mem, off, [j \in DOMAIN src |-> Merge(mem[off + j], src[j], msk(j))])

\* setVal() of an array: MMIO writes element after element.
setVal(f, mem, stride, vals, nelms, elsz, junk) ==
    LET done[n \in 0..nelms] ==
            IF n = 0 THEN mem
            ELSE CHOOSE b \in
                     {write_func8(a, (n - 1) * stride, w, Masks(f)) :
                         a \in {done[n - 1]},
                         w \in {ToDevice(f, Window(vals, (n - 1) * elsz, elsz), junk)}} : TRUE
    IN  done[nelms]

-----------------------------------------------------------------------------
(* What an entry means: bits lsBit, lsBit + 1, ... of the number that its  *)
(* bytes make up in the byte order of the device, in words of reversed     *)
(* order if it is word-swapped.                                            *)

Number(w) ==
    LET sum[i \in 0..Len0(w)] ==
            IF i = 0 THEN 0 ELSE sum[i - 1] + w[i - 1] * 2^(ByteBits * (i - 1))
    IN  sum[Len0(w)]

ToBytes(v, n) == [i \in 0..(n - 1) |-> (v \div 2^(ByteBits * i)) % 2^ByteBits]

Signed(v, bits, isSigned) == IF isSigned /\ v >= 2^(bits - 1) THEN v - 2^bits ELSE v

\* v with the order of its words reversed.
Words(f, v) ==
    LET word == ByteBits * WordSwap(f)
        n    == f.sizeBits \div word
        sum[i \in 0..n] ==
            IF i = 0 THEN 0
            ELSE sum[i - 1] + ((v \div 2^(word * (n - i))) % 2^word) * 2^(word * (i - 1))
    IN  IF WordSwap(f) = 0 THEN v ELSE sum[n]

Whole(f, w) == Number(SwapEndian(f, w))

FieldValue(f, w) ==
    Signed(Words(f, (Whole(f, w) \div 2^f.lsBit) % 2^f.sizeBits), f.sizeBits, f.isSigned)

\* The bytes of an element after v was stored in it.
Stored(f, w, v) ==
    LET x   == Whole(f, w)
        old == (x \div 2^f.lsBit) % 2^f.sizeBits
        new == Words(f, v % 2^f.sizeBits)
    IN  SwapEndian(f, ToBytes(x + (new - old) * 2^f.lsBit, Len0(w)))
==============================================================================
