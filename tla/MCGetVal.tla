------------------------------ MODULE MCGetVal ------------------------------
EXTENDS GetVal

Fields ==
    {f \in [sizeBits : {1, 2, 3, 4, 6, 8}, lsBit : 0..1, isSigned : BOOLEAN, wordSwap : 0..2,
            byteOrder : {"LE", "BE"}] : checkArgs(f)}

\* The contents of the memory and the values to be stored; between them the bits
\* of all four combinations.
Mixed  == [i \in 0..15 |-> (i * i + 3 * i + 1 + i \div 3) % 4]
Values == [i \in 0..15 |-> (3 * i + 2 + i \div 2) % 4]

Request(f, e, n, stride, cached, vals) ==
    [f |-> f, elsz |-> e, nelms |-> n, stride |-> stride, cached |-> cached, vals |-> vals]

\* One thread stores two values and reads them back, as integers of one, two or
\* four bytes, in one transaction.
Convert ==
    {[mem |-> Mixed, junk |-> 3,
      reqs |-> <<Request(f, e, 2, computeSize(f), TRUE, [i \in 0..(2 * e - 1) |-> Values[i]])>>] :
        f \in Fields, e \in {1, 2, 4}}

\* Elements that do not lie side by side, or that may not be cached, take a
\* transaction each.  One thread reads two such elements, or two threads read.
Signed3 == [sizeBits |-> 3, lsBit |-> 1, isSigned |-> TRUE, wordSwap |-> 0, byteOrder |-> "BE"]
Narrow  == [sizeBits |-> 2, lsBit |-> 0, isSigned |-> FALSE, wordSwap |-> 0, byteOrder |-> "LE"]
Race ==
    {[mem |-> Mixed, junk |-> 0, reqs |-> r] :
        r \in {<<Request(Signed3, 4, 2, 3, TRUE, Nothing)>>,
               <<Request(Signed3, 4, 2, 2, TRUE, Nothing), Request(Narrow, 1, 1, 1, FALSE, Nothing)>>,
               <<Request(Narrow, 1, 2, 1, FALSE, Nothing)>>}}

ConvertAndRace == Convert \union Race

\* All of them are orderly, and no value is stored over another.
ASSUME OrderlyAssumption == Orderly
ASSUME ApartAssumption   == Apart
=============================================================================
