---- MODULE JobIntake ----
\* What becomes a job: the parsing of a node's block template (Job::from_rpc)
\* and of a pool's job (Job::from_stratum) in main.rs, the compact difficulty
\* of a header, and the account grammar of wire.rs.  A node's template says
\* everything twice: in JSON fields beside the header blob, and in the header
\* the blob encodes, which is what is hashed.
\*
\* Data is scaled, its arithmetic kept: a target is `Width` digits of base
\* `Base` (32 bytes), a compact mantissa three such digits of which the top
\* half means negative, an account a sequence over three classes of
\* characters with the length limits `MinAccount` and `MaxAccount`.  Integers
\* of a header are below `Word`, those of JSON need not be.
\*
\* Variants used to check that the properties bite: LooseThresholds,
\* UnshiftedMantissa, TargetAsClaimed, UnboundedBlob, AnyOffset,
\* AdjacentSeparators.
EXTENDS Integers, Sequences, FiniteSets

CONSTANTS
    Base,       \* values of a digit of a target
    Width,      \* digits of a target
    Word,       \* values of a header's 32-bit integers
    NonceSize,  \* bytes of the nonce
    MaxBlob,    \* MAX_BLOB_BYTES
    KeySize,    \* bytes of a node's RandomX key
    MinAccount, MaxAccount

ASSUME JobIntakeAssumption ==
    /\ Base \in Nat \ {0, 1} /\ Base % 2 = 0 /\ Width \in Nat /\ Width >= 3
    /\ Word \in Nat \ {0, 1} /\ NonceSize \in Nat \ {0}
    /\ MaxBlob \in Nat /\ MaxBlob >= NonceSize
    /\ KeySize \in Nat \ {0} /\ MinAccount \in Nat \ {0} /\ MaxAccount >= MinAccount

VARIABLES
    offer,  \* the last template or pool job received
    job     \* the set of jobs made of it: empty when it was refused

intakeVars == <<offer, job>>

Largest(S) == CHOOSE n \in S : \A m \in S : n >= m
Smallest(S) == CHOOSE n \in S : \A m \in S : n <= m

\* Powers of the base.
Power[n \in Nat] == IF n = 0 THEN 1 ELSE Base * Power[n - 1]

----
\* target_from_compact.  Both results are sets: empty for None.
Half == (Base * Base * Base) \div 2
Size(bits) == bits.size
Negative(bits) == bits.mantissa >= Half

UnshiftedMantissa(bits) == bits.mantissa % Half

\* A mantissa of a size of at most three loses its low digits.
ShortMantissa(bits) == (bits.mantissa % Half) \div Power[3 - Size(bits)]

Digit(n, i) == (n \div Power[2 - i]) % Base
Zero == [i \in 0..(Width - 1) |-> 0]

\* The last three digits of a target hold `n`.
Ending(n) == [i \in 0..(Width - 1) |-> IF i < Width - 3 THEN 0 ELSE Digit(n, i - (Width - 3))]

\* The digits of the mantissa at Width - size, Width - size + 1, Width - size + 2,
\* those of them that are in the target.
Placed(n, size) ==
    [i \in 0..(Width - 1) |->
        LET offset == i + size - Width IN IF offset \in 0..2 THEN Digit(n, offset) ELSE 0]

LooseThresholds(n, size) == size > Width + 2
Overflows(n, size) ==
    \/ size > Width + 2
    \/ n > Base - 1 /\ size > Width + 1
    \/ n > Base * Base - 1 /\ size > Width

CompactTarget(bits) ==
    LET n == bits.mantissa % Half IN
    IF Negative(bits) THEN {}
    ELSE IF n = 0 THEN {Zero}
    ELSE IF Overflows(n, Size(bits)) THEN {}
    ELSE IF Size(bits) <= 3 THEN {Ending(ShortMantissa(bits))}
    ELSE {Placed(n, Size(bits))}

----
\* validate_account_id
Letter == "a"
Separator == "-"
Other == " "
Characters == {Letter, Separator, Other}

AdjacentSeparators(s) == TRUE
SeparatorsApart(s) == \A i \in 2..Len(s) : ~ (s[i] = Separator /\ s[i - 1] = Separator)

ValidAccount(s) ==
    /\ Len(s) \in MinAccount..MaxAccount
    /\ s[1] # Separator /\ s[Len(s)] # Separator
    /\ \A i \in 1..Len(s) : s[i] # Other
    /\ SeparatorsApart(s)

Trim(s) ==
    LET kept == {i \in 1..Len(s) : s[i] # Other}
    IN IF kept = {} THEN <<>> ELSE SubSeq(s, Smallest(kept), Largest(kept))

----
\* template_id_for_blob: BLAKE3, which tells any two blobs apart.
TemplateId(blob) == <<"id", blob>>

\* An optional field agrees when it is absent or no u64 (NoNumber), or when it
\* fits 32 bits and is the header's.
NoNumber == -1
Agrees(claimed, encoded) == claimed = NoNumber \/ (claimed < Word /\ claimed = encoded)

TargetAsClaimed(t) == TRUE
TargetAgrees(t) == t.target \in CompactTarget(t.blob.header.bits)

\* The reward account of a template: its proposer, trimmed.
Coinbase(p) == Trim(p)

AnyOffset(o) == TRUE
\* The nonce is the last bytes of the blob.
NonceTrails(o) == o.nonceOffset = o.blob.len - NonceSize

UnboundedBlob(o) == o.blob.len >= NonceSize
BlobFits(o) == o.blob.len \in NonceSize..MaxBlob

\* Job::from_rpc
FromRpc(t) ==
    LET h == t.blob.header
        account == Coinbase(t.proposer)
    IN  IF /\ BlobFits(t) /\ NonceTrails(t)
           /\ t.algo \in {"RandomX", "Sha256d"}
           /\ t.keyLen = KeySize
           /\ account # <<>> /\ ValidAccount(account)
           /\ t.blob.decodes
           /\ h.proposer = account
           /\ h.height = t.height /\ h.timestamp = t.timestamp
           /\ Agrees(t.versionBits, h.versionBits)
           /\ Agrees(t.bits, h.bits.size * Power[3] + h.bits.mantissa)
           /\ TargetAgrees(t)
           /\ t.id = TemplateId(t.blob)
        THEN {[blob |-> t.blob, nonceOffset |-> t.nonceOffset, target |-> t.target,
               blockTarget |-> {t.target}, algo |-> t.algo, keyLen |-> t.keyLen,
               height |-> t.height, coinbase |-> {account}]}
        ELSE {}

KeyGiven(o) == o.algo = "RandomX" => o.keyLen > 0

\* The field a chain of get / or_else reads: the second only when the first is
\* not there at all.  A field is Missing, of another kind (Garbage), or
\* a value.
Missing == "missing"
Garbage == "garbage"
Empty == ""
FirstPresent(a, b) == IF a = Missing THEN b ELSE a

\* Job::from_stratum.  A target that is not `Width` digits is refused; a
\* network target that is no string is none at all.
FromStratum(o) ==
    LET network == FirstPresent(o.networkFull, o.network)
        reward == FirstPresent(o.coinbase, o.coinbaseAccount)
    IN  IF /\ o.idLen \in 1..256
           /\ BlobFits(o) /\ o.nonceSize = NonceSize /\ NonceTrails(o)
           /\ o.targetLen = Width
           /\ network \in {Missing, Garbage, "whole"}
           /\ o.algo \in {"RandomX", "Sha256d"}
           /\ KeyGiven(o)
        THEN {[blob |-> o.blob, nonceOffset |-> o.nonceOffset, target |-> <<"share">>,
               blockTarget |-> IF network = "whole" THEN {<<"network">>} ELSE {},
               algo |-> o.algo, keyLen |-> o.keyLen, height |-> 1,
               coinbase |-> IF reward \in {Missing, Garbage, Empty} THEN {} ELSE {reward}]}
        ELSE {}

----
Accounts == UNION {[1..n -> Characters] : n \in 0..(MaxAccount + 1)}
Sizes == 0..(Width + 4)
AllBits == [size : Sizes, mantissa : 0..(Base * Base * Base - 1)]
SomeBits == {[size |-> 4, mantissa |-> 1]}
SomeAccount == <<Letter, Separator, Letter>>

Header(bits, account) ==
    [height |-> 2, timestamp |-> 5, proposer |-> account, versionBits |-> 1, bits |-> bits]
Blob(h) == [len |-> NonceSize + 1, decodes |-> TRUE, header |-> h]

\* What an honest node says of a header: the target its bits mean, in the
\* terms of the consensus (below), and the same fields again.
Mantissa(bits) == bits.mantissa % Half
Meant(bits) ==
    IF bits.size >= 3 THEN Mantissa(bits) * Power[bits.size - 3]
    ELSE Mantissa(bits) \div Power[3 - bits.size]
Digits(n) == [i \in 0..(Width - 1) |-> (n \div Power[Width - 1 - i]) % Base]
Meaningful(bits) == bits.mantissa < Half /\ Meant(bits) < Power[Width]

HonestOf(blob) ==
    [kind |-> "template", blob |-> blob, id |-> TemplateId(blob),
     nonceOffset |-> blob.len - NonceSize, algo |-> "RandomX", keyLen |-> KeySize,
     proposer |-> blob.header.proposer, height |-> blob.header.height,
     timestamp |-> blob.header.timestamp, versionBits |-> blob.header.versionBits,
     bits |-> NoNumber, target |-> Digits(Meant(blob.header.bits) % Power[Width])]

Honest(bits, account) == HonestOf(Blob(Header(bits, account)))

\* The ways a field of a template may differ from an honest one.
Deviations ==
    [id |-> {TemplateId(Blob(Header([size |-> 4, mantissa |-> 2], SomeAccount)))},
     nonceOffset |-> {0, 2, MaxBlob + 1 - NonceSize}, algo |-> {"Sha256d", "other"}, keyLen |-> {0, KeySize - 1, KeySize + 1},
     proposer |-> {<<>>, <<Other>>, <<Letter, Letter>>, <<Other>> \o SomeAccount, <<Separator>> \o SomeAccount},
     height |-> {1, 2 + Word}, timestamp |-> {4},
     versionBits |-> {0, 1 + Word, NoNumber}, bits |-> {Power[3] * 4 + 1, Power[3] * 4 + 2},
     target |-> {Zero, Digits(Power[Width] - 1)},
     blob |-> [len : {NonceSize - 1, NonceSize, MaxBlob, MaxBlob + 1}, decodes : BOOLEAN,
               header : {Header(b, SomeAccount) : b \in SomeBits}]]

Varied(t, f) == {[t EXCEPT ![f] = v] : v \in Deviations[f]}

OneDeviation == UNION {Varied(Honest(b, SomeAccount), f) : b \in SomeBits, f \in DOMAIN Deviations}
TwoDeviations == UNION {UNION {Varied(t, f) : f \in DOMAIN Deviations} : t \in OneDeviation}

Templates ==
    {Honest(b, SomeAccount) : b \in AllBits} \union {Honest(b, a) : b \in SomeBits, a \in Accounts}
        \union OneDeviation \union TwoDeviations

PoolJobs ==
    [kind : {"pool"}, idLen : {0, 1, 256, 257},
     blob : {[len |-> n] : n \in {NonceSize - 1, NonceSize, NonceSize + 1, MaxBlob + 1}},
     nonceOffset : {0, 1, MaxBlob + 1 - NonceSize}, nonceSize : {NonceSize, NonceSize - 1}, targetLen : {Width, Width - 1},
     algo : {"RandomX", "Sha256d", "other"}, keyLen : {0, 1},
     networkFull : {Missing, Garbage, "whole"}, network : {Missing, "whole", "short"},
     coinbase : {Missing, Garbage, Empty, "account"}, coinbaseAccount : {Missing, "account"}]

IntakeInit == offer = {} /\ job = {}

ReceiveTemplate == offer = {} /\ \E t \in Templates : offer' = {t} /\ job' = FromRpc(t)
ReceivePoolJob == offer = {} /\ \E o \in PoolJobs : offer' = {o} /\ job' = FromStratum(o)

IntakeNext == ReceiveTemplate \/ ReceivePoolJob

----
IntakeTypeOK ==
    /\ Cardinality(offer) <= 1 /\ Cardinality(job) <= 1
    /\ \A j \in job : /\ j.blob.len \in NonceSize..MaxBlob
                      /\ j.algo \in {"RandomX", "Sha256d"}
                      /\ Cardinality(j.blockTarget) <= 1 /\ Cardinality(j.coinbase) <= 1

FromNode == offer # {} /\ \A o \in offer : o.kind = "template"

\* The numbers that the first i digits of a target are; all of them are its value.
Leading(t) ==
    LET upto[i \in 0..Width] == IF i = 0 THEN 0 ELSE Base * upto[i - 1] + t[i - 1]
    IN upto
Value(t) == Leading(t)[Width]

\* The target a template is mined to is the number its header's compact bits
\* stand for, digit for digit; there is none for a negative number or one that
\* does not fit.
CompactExact ==
    FromNode => \A j \in job :
        LET bits == j.blob.header.bits IN Meaningful(bits) /\ Value(j.target) = Meant(bits)

\* Whatever the JSON of a template claims beside its blob, the job is the work
\* of that blob: its id, height, time, version and reward account are those of
\* the header that is hashed, and so (CompactExact) is its threshold: a node
\* cannot have one block mined and another displayed.
WorkIsAuthentic ==
    FromNode => \A j \in job, o \in offer :
        LET h == o.blob.header IN
        /\ o.blob.decodes /\ o.id = TemplateId(j.blob) /\ j.blob = o.blob
        /\ j.height = h.height /\ o.timestamp = h.timestamp
        /\ o.versionBits \in {NoNumber, h.versionBits}
        /\ j.coinbase = {h.proposer}

\* Words of letters and digits with single separators between them, of the
\* right length.
WellFormed(a) ==
    /\ Len(a) >= MinAccount /\ Len(a) <= MaxAccount
    /\ {i \in 1..Len(a) : a[i] = Other} = {}
    /\ \A i \in 1..Len(a) : a[i] = Separator =>
          i - 1 \in 1..Len(a) /\ i + 1 \in 1..Len(a) /\ a[i - 1] = Letter /\ a[i + 1] = Letter

\* The reward account of a node's job is one the chain would accept.
AccountGrammar == FromNode => \A j \in job : \A a \in j.coinbase : WellFormed(a)

\* A worker can write its nonce: the nonce is inside the blob and at its end,
\* and RandomX work comes with a key to build its dataset from.
JobUsable ==
    \A j \in job :
        /\ j.nonceOffset >= 0 /\ j.nonceOffset + NonceSize = j.blob.len
        /\ j.algo = "RandomX" => j.keyLen > 0

\* Nothing an honest node serves is refused.
HonestAccepted ==
    FromNode => \A o \in offer :
        /\ o = HonestOf(o.blob) /\ BlobFits(o) /\ o.blob.decodes
        /\ Meaningful(o.blob.header.bits) /\ WellFormed(o.blob.header.proposer)
        => job # {}

\* A job is the work of the header that will be hashed, usable, for the right
\* threshold and account; and every honest offer becomes one.
JobSound ==
    /\ IntakeTypeOK
    /\ CompactExact /\ WorkIsAuthentic /\ AccountGrammar
    /\ JobUsable /\ HonestAccepted

====
