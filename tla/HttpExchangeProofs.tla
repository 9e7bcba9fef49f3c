------------------------- MODULE HttpExchangeProofs -------------------------
(***************************************************************************)
(* Proofs about HttpExchange for bodies of any length, any number of calls *)
(* and any room for header fields.                                         *)
(*                                                                         *)
(* ResponseIsFramed speaks of what the client has received; that follows   *)
(* from what the response object has counted and kept only while the two   *)
(* move together, which FramingInv states for the three phases of a        *)
(* response: before Begin, begun with a length, begun in chunks.  The      *)
(* difficult part is the header block: it is written once, after a Begin   *)
(* that may have failed before, from names that are distinct and none of   *)
(* the platform's own, because framing names are refused (FieldsInv).      *)
(***************************************************************************)
EXTENDS HttpExchange, TLAPS

Wires == [blocks : Nat, length : Lengths \union {Unknown}, fields : Seq(Names), body : Nat,
          ends : Nat, torn : BOOLEAN]

TypeInv ==
    /\ head \in BOOLEAN /\ keepAlive \in BOOLEAN /\ told \in BOOLEAN
    /\ contentLen \in Nat /\ bodyRead \in Nat /\ got \in Nat
    /\ header \in [ok : BOOLEAN, length : Nat, capacity : Nat, written : Nat]
    /\ begun \in BOOLEAN /\ completed \in BOOLEAN /\ failed \in BOOLEAN /\ aborted \in BOOLEAN
    /\ expected \in Lengths \union {Unknown} /\ bytesWritten \in Nat
    /\ fields \in Seq(Names) /\ native \in Seq(Names)
    /\ wire \in Wires
    /\ offered \in Nat /\ writes \in Nat

\* ReadBody hands out what it counts, and the last ReadHeader was whole.
RequestInv ==
    /\ got = bodyRead /\ bodyRead <= contentLen /\ (told => bodyRead = contentLen)
    /\ header.ok <=> header.length \in 1 .. header.capacity
    /\ header.ok => header.written = header.length

Distinct(names) ==
    \A i, j \in DOMAIN names : HeaderNameEquals(names[i], names[j]) => i = j

Block == fields \o ConnectionClose

\* The block as it is sent: with the field that says how the body is framed.
Headed(word) == <<Own(word)>> \o Block

\* The fields are distinct and no framing fields.  ESP-IDF has been given none,
\* or as many as it has room for by a Begin that failed and will fail again.
FieldsInv ==
    /\ Distinct(fields)
    /\ \A i \in DOMAIN fields : ~IsFramingHeader(fields[i])
    /\ ~begun => native = <<>> \/ (Len(native) = MaxFields /\ Len(Block) > 0)
    /\ begun /\ expected = Unknown => native = Block

\* What the client has received, phase by phase, as long as nothing has failed.
FramingInv ==
    /\ aborted => completed
    /\ ~failed =>
          /\ ~wire.torn
          /\ offered = bytesWritten
          /\ wire.body = IF head THEN 0 ELSE offered
          /\ completed /\ ~aborted => begun
          /\ ~begun => /\ wire.blocks = 0 /\ wire.ends = 0 /\ offered = 0
                       /\ wire.length = Unknown /\ wire.fields = <<>>
          /\ begun => wire.length = expected
          /\ begun /\ expected # Unknown =>
                /\ wire.blocks = 1 /\ wire.fields = Headed("Content-Length") /\ wire.ends = 0
                /\ bytesWritten <= expected
                /\ completed /\ ~aborted => bytesWritten = expected
          /\ begun /\ expected = Unknown =>
                /\ \/ wire.blocks = 0 /\ wire.fields = <<>>
                   \/ wire.blocks = 1 /\ wire.fields = Headed("Transfer-Encoding")
                /\ IF completed /\ ~aborted THEN wire.ends = 1 /\ wire.blocks = 1
                                            ELSE wire.ends = 0

Inv == TypeInv /\ RequestInv /\ FieldsInv /\ FramingInv

-----------------------------------------------------------------------------
(* Numbers and sequences *)

\* Lesser is the minimum.
LEMMA LesserOfTwo ==
    ASSUME NEW a \in Nat, NEW b \in Nat
    PROVE  Lesser(a, b) \in Nat /\ Lesser(a, b) <= a /\ Lesser(a, b) <= b
                                /\ Lesser(a, b) \in {a, b}
  BY DEF Lesser

\* The field that the platform may add is a Connection field.
LEMMA CloseField ==
    ASSUME TypeInv
    PROVE  /\ ConnectionClose \in Seq(Names)
           /\ Len(ConnectionClose) <= 1
           /\ \A i \in DOMAIN ConnectionClose : ConnectionClose[i] = Own("Connection")
           /\ keepAlive <=> Len(ConnectionClose) = 0
           /\ Block \in Seq(Names) /\ Len(Block) = Len(fields) + Len(ConnectionClose)
  <1>1. ConnectionClose \in Seq(Names)
    <2>1. Own("Connection") \in Names
      BY DEF Own, Names, Words, Framing
    <2>2. QED
      BY <2>1 DEF ConnectionClose
  <1>2. Len(ConnectionClose) <= 1
    BY DEF ConnectionClose
  <1>3. /\ \A i \in DOMAIN ConnectionClose : ConnectionClose[i] = Own("Connection")
        /\ keepAlive <=> Len(ConnectionClose) = 0
    BY DEF ConnectionClose, TypeInv
  <1>4. Block \in Seq(Names) /\ Len(Block) = Len(fields) + Len(ConnectionClose)
    BY <1>1 DEF Block, TypeInv
  <1>5. QED
    BY <1>1, <1>2, <1>3, <1>4

\* Field by field, what is sent: the platform's framing field, the application's
\* fields, and Connection if the platform closes.
LEMMA HeadedFields ==
    ASSUME TypeInv, NEW word \in Framing
    PROVE  /\ Headed(word) \in Seq(Names) /\ Len(fields) \in Nat
           /\ DOMAIN Headed(word) = 1 .. Len(fields) + 1 + Len(ConnectionClose)
           /\ Headed(word)[1] = Own(word)
           /\ \A k \in DOMAIN fields : Headed(word)[k + 1] = fields[k]
           /\ ~keepAlive => Headed(word)[Len(fields) + 2] = Own("Connection")
           /\ Len(ConnectionClose) = IF keepAlive THEN 0 ELSE 1
  <1>1. Own(word) \in Names
    BY DEF Own, Names, Words
  <1>2. /\ fields \in Seq(Names) /\ ConnectionClose \in Seq(Names) /\ Block \in Seq(Names)
        /\ Len(Block) = Len(fields) + Len(ConnectionClose)
    BY CloseField DEF TypeInv
  <1>3. Len(ConnectionClose) = IF keepAlive THEN 0 ELSE 1
    <2>1. CASE keepAlive
      BY <2>1 DEF ConnectionClose
    <2>2. CASE ~keepAlive
      BY <2>2 DEF ConnectionClose
    <2>3. QED
      BY <2>1, <2>2
  <1>4. /\ Headed(word) \in Seq(Names) /\ Len(Headed(word)) = 1 + Len(Block)
        /\ Headed(word)[1] = Own(word)
        /\ \A k \in DOMAIN Block : Headed(word)[k + 1] = Block[k]
    BY <1>1, <1>2 DEF Headed
  <1>5. \A k \in DOMAIN fields : k \in DOMAIN Block /\ Block[k] = fields[k]
    BY <1>2 DEF Block
  <1>6. ASSUME ~keepAlive
        PROVE  /\ Len(fields) + 1 \in DOMAIN Block
               /\ Block[Len(fields) + 1] = Own("Connection")
    <2>1. Len(ConnectionClose) = 1 /\ ConnectionClose[1] = Own("Connection")
      BY <1>2, <1>3, <1>6, CloseField
    <2>2. QED
      BY <1>2, <2>1 DEF Block
  <1>7. ~keepAlive => Headed(word)[Len(fields) + 2] = Own("Connection")
    <2>1. Len(fields) + 1 + 1 = Len(fields) + 2
      BY <1>2
    <2>2. QED
      BY <1>4, <1>6, <2>1
  <1>8. QED
    BY <1>2, <1>3, <1>4, <1>5, <1>7

\* Every field that is sent is one of the three kinds.
LEMMA HeadedKinds ==
    ASSUME TypeInv, NEW word \in Framing, NEW i \in DOMAIN Headed(word)
    PROVE  \/ i = 1 /\ Headed(word)[i] = Own(word)
           \/ i - 1 \in DOMAIN fields /\ Headed(word)[i] = fields[i - 1]
           \/ ~keepAlive /\ i = Len(fields) + 2 /\ Headed(word)[i] = Own("Connection")
  <1>1. /\ Len(fields) \in Nat /\ fields \in Seq(Names)
        /\ i \in 1 .. Len(fields) + 1 + Len(ConnectionClose)
        /\ Len(ConnectionClose) = IF keepAlive THEN 0 ELSE 1
    BY HeadedFields DEF TypeInv
  <1>2. \/ i = 1
        \/ i - 1 \in 1 .. Len(fields)
        \/ ~keepAlive /\ i = Len(fields) + 2
    BY <1>1
  <1>3. ASSUME i - 1 \in 1 .. Len(fields)
        PROVE  i - 1 \in DOMAIN fields /\ Headed(word)[i] = fields[i - 1]
    <2>1. i - 1 \in DOMAIN fields /\ (i - 1) + 1 = i
      BY <1>1, <1>3
    <2>2. QED
      BY <2>1, HeadedFields
  <1>4. QED
    BY <1>2, <1>3, HeadedFields

\* No name is sent twice, and the framing fields are the platform's.
LEMMA HeadedIsFramed ==
    ASSUME TypeInv, FieldsInv, NEW word \in Framing \ {"Connection"}
    PROVE  /\ Distinct(Headed(word))
           /\ {Headed(word)[i].word : i \in DOMAIN Headed(word)} \cap Framing
                  = {word} \cup (IF keepAlive THEN {} ELSE {"Connection"})
  <1>1. \A k \in DOMAIN fields : fields[k].word \notin Framing
    BY DEF FieldsInv, IsFramingHeader
  <1>2. /\ Own(word).word = word /\ Own("Connection").word = "Connection"
        /\ "Connection" \in Framing
    BY DEF Own, Framing
  <1>3. fields \in Seq(Names) /\ Len(fields) \in Nat
    BY DEF TypeInv
  <1>4. ASSUME NEW i \in DOMAIN Headed(word), NEW j \in DOMAIN Headed(word),
               HeaderNameEquals(Headed(word)[i], Headed(word)[j])
        PROVE  i = j
    <2>1. Headed(word)[i].word = Headed(word)[j].word
      BY <1>4 DEF HeaderNameEquals
    <2>2. i \in Nat /\ j \in Nat
      BY HeadedFields
    <2>3. CASE i - 1 \in DOMAIN fields /\ Headed(word)[i] = fields[i - 1]
      <3>1. j - 1 \in DOMAIN fields /\ Headed(word)[j] = fields[j - 1]
        BY <1>1, <1>2, <2>1, <2>3, HeadedKinds
      <3>2. i - 1 = j - 1
        BY <1>4, <2>3, <3>1 DEF FieldsInv, Distinct
      <3>3. QED
        BY <2>2, <3>2
    <2>4. CASE i = 1 /\ Headed(word)[i] = Own(word)
      BY <1>1, <1>2, <2>1, <2>4, HeadedKinds
    <2>5. CASE ~keepAlive /\ i = Len(fields) + 2 /\ Headed(word)[i] = Own("Connection")
      BY <1>1, <1>2, <2>1, <2>5, HeadedKinds
    <2>6. QED
      BY <2>3, <2>4, <2>5, HeadedKinds
  <1>5. 1 \in DOMAIN Headed(word) /\ Headed(word)[1].word = word
    BY <1>2, <1>3, HeadedFields
  <1>6. ~keepAlive => /\ Len(fields) + 2 \in DOMAIN Headed(word)
                      /\ Headed(word)[Len(fields) + 2].word = "Connection"
    <2>1. SUFFICES ASSUME ~keepAlive
                   PROVE  /\ Len(fields) + 2 \in DOMAIN Headed(word)
                          /\ Headed(word)[Len(fields) + 2].word = "Connection"
      OBVIOUS
    <2>2. Len(ConnectionClose) = 1 /\ Headed(word)[Len(fields) + 2] = Own("Connection")
      BY <2>1, HeadedFields
    <2>3. Len(fields) + 2 \in 1 .. Len(fields) + 1 + Len(ConnectionClose)
      BY <1>3, <2>2
    <2>4. QED
      BY <1>2, <2>2, <2>3, HeadedFields
  <1>7. \A i \in DOMAIN Headed(word) :
           Headed(word)[i].word \in Framing =>
              Headed(word)[i].word = word \/ (~keepAlive /\ Headed(word)[i].word = "Connection")
    BY <1>1, <1>2, HeadedKinds
  <1>8. {Headed(word)[i].word : i \in DOMAIN Headed(word)} \cap Framing
           = {word} \cup (IF keepAlive THEN {} ELSE {"Connection"})
    <2>1. CASE keepAlive
      BY <1>5, <1>7, <2>1
    <2>2. CASE ~keepAlive
      BY <1>2, <1>5, <1>6, <1>7, <2>2
    <2>3. QED
      BY <2>1, <2>2
  <1>9. QED
    BY <1>4, <1>8 DEF Distinct

-----------------------------------------------------------------------------
(* Types *)

\* The initial state satisfies the whole invariant.
LEMMA InitInv == Init => Inv
  <1> SUFFICES ASSUME Init PROVE Inv
    OBVIOUS
  <1>1. Lengths \subseteq Nat
    BY DEF Lengths
  <1>2. wire \in Wires
    BY DEF Init, Wires, Unknown
  <1>3. TypeInv
    <2>1. header \in [ok : BOOLEAN, length : Nat, capacity : Nat, written : Nat]
      BY DEF Init
    <2>2. fields \in Seq(Names) /\ native \in Seq(Names)
      BY DEF Init
    <2>3. /\ told \in BOOLEAN /\ begun \in BOOLEAN /\ completed \in BOOLEAN
          /\ failed \in BOOLEAN /\ aborted \in BOOLEAN
      BY DEF Init
    <2>4. QED
      BY <1>1, <1>2, <2>1, <2>2, <2>3 DEF Init, TypeInv
  <1>4. RequestInv
    BY <1>1 DEF Init, RequestInv
  <1>5. FieldsInv
    BY DEF Init, FieldsInv, Distinct
  <1>6. FramingInv
    BY DEF Init, FramingInv
  <1>7. QED
    BY <1>3, <1>4, <1>5, <1>6 DEF Inv

\* What the client has received stays well typed when body goes out.
LEMMA WireType ==
    ASSUME TypeInv, NEW size \in Nat
    PROVE  /\ [wire EXCEPT !.body = @ + size] \in Wires
           /\ [wire EXCEPT !.body = @ + size, !.torn = TRUE] \in Wires
           /\ [wire EXCEPT !.torn = TRUE] \in Wires
           /\ SentChunk(size) \in Wires
  <1> DEFINE sent == <<Own("Transfer-Encoding")>> \o native
  <1>1. wire \in Wires /\ native \in Seq(Names)
    BY DEF TypeInv
  <1>2. wire.body + size \in Nat /\ wire.ends + 1 \in Nat
    BY <1>1 DEF Wires
  <1>3. sent \in Seq(Names)
    <2>1. Own("Transfer-Encoding") \in Names
      BY DEF Own, Names, Words, Framing
    <2>2. QED
      BY <1>1, <2>1
  <1>4. SentChunk(size) = [wire EXCEPT !.blocks = 1, !.fields = sent, !.body = @ + size,
                                       !.ends = IF size = 0 THEN @ + 1 ELSE @]
    BY DEF SentChunk
  <1> HIDE DEF sent
  <1>5. SentChunk(size) \in Wires
    <2>1. PICK ends \in Nat : ends = IF size = 0 THEN wire.ends + 1 ELSE wire.ends
      BY <1>1, <1>2 DEF Wires
    <2>2. SentChunk(size) = [blocks |-> 1, length |-> wire.length, fields |-> sent,
                             body |-> wire.body + size, ends |-> ends, torn |-> wire.torn]
      BY <1>1, <1>4, <2>1 DEF Wires
    <2>3. QED
      BY <1>1, <1>2, <1>3, <2>2 DEF Wires
  <1>6. QED
    BY <1>1, <1>2, <1>5 DEF Wires

\* ReadHeader and ReadBody deliver the request and touch nothing else.
LEMMA RequestStep ==
    ASSUME Inv,
           \/ \E length, capacity \in 0 .. MaxLength :
                 capacity > 0 /\ ReadHeader(length, capacity)
           \/ \E capacity \in 1 .. MaxLength : ReadBody(capacity)
    PROVE  Inv'
  <1> USE DEF Inv
  <1>1. UNCHANGED <<head, contentLen, keepAlive, control, wire, history>>
    BY DEF ReadHeader, ReadBody
  <1>2. FieldsInv' /\ FramingInv'
    BY <1>1 DEF FieldsInv, FramingInv, Headed, Block, ConnectionClose, control, history
  <1>3. ASSUME NEW length \in 0 .. MaxLength, NEW capacity \in 0 .. MaxLength,
               ReadHeader(length, capacity)
        PROVE  TypeInv' /\ RequestInv'
    <2>1. length \in Nat /\ capacity \in Nat
      BY BoundsAssumption
    <2>2. /\ header' = [ok |-> length \in 1 .. capacity, length |-> length,
                        capacity |-> capacity,
                        written |-> IF length \in 1 .. capacity THEN length ELSE 0]
          /\ UNCHANGED <<bodyRead, got, told>>
      BY <1>3, <2>1 DEF ReadHeader, NativeCopies
    <2>3. header' \in [ok : BOOLEAN, length : Nat, capacity : Nat, written : Nat]
      BY <2>1, <2>2
    <2>4. TypeInv'
      BY <1>1, <2>2, <2>3 DEF TypeInv, control, history
    <2>5. RequestInv'
      BY <1>1, <2>1, <2>2 DEF RequestInv
    <2>6. QED
      BY <2>4, <2>5
  <1>4. ASSUME NEW capacity \in 1 .. MaxLength, ReadBody(capacity)
        PROVE  TypeInv' /\ RequestInv'
    <2>1. capacity \in Nat
      BY BoundsAssumption
    <2>2. CASE bodyRead >= contentLen
      <3>1. told' = TRUE /\ UNCHANGED <<bodyRead, got, header>>
        BY <1>4, <2>2 DEF ReadBody
      <3>2. QED
        BY <1>1, <2>2, <3>1 DEF TypeInv, RequestInv, control, history
    <2>3. CASE ~(bodyRead >= contentLen)
      <3>1. contentLen - bodyRead \in Nat
        BY <2>3 DEF TypeInv
      <3>2. PICK received \in 0 .. Lesser(capacity, contentLen - bodyRead) :
               /\ bodyRead' = bodyRead + received /\ got' = got + received
               /\ told' = (told \/ bodyRead + received >= contentLen)
        BY <1>4, <2>3 DEF ReadBody
      <3>3. received \in Nat /\ received <= contentLen - bodyRead
        BY <2>1, <3>1, LesserOfTwo
      <3>4. UNCHANGED header
        BY <1>4 DEF ReadBody
      <3>5. /\ bodyRead' \in Nat /\ got' \in Nat /\ got' = bodyRead'
            /\ bodyRead' <= contentLen
        BY <3>2, <3>3 DEF TypeInv, RequestInv
      <3>6. told' \in BOOLEAN /\ (told' => bodyRead' = contentLen)
        BY <2>3, <3>2, <3>3 DEF TypeInv, RequestInv
      <3>7. QED
        BY <1>1, <3>4, <3>5, <3>6 DEF TypeInv, RequestInv, control, history
    <2>4. QED
      BY <2>2, <2>3
  <1>5. QED
    BY <1>2, <1>3, <1>4

\* SetHeader adds a field that is not there yet, before Begin.
LEMMA SetHeaderStep ==
    ASSUME Inv, NEW name \in Names, SetHeader(name)
    PROVE  Inv'
  <1> USE DEF Inv
  <1>1. /\ ~begun /\ ~IsFramingHeader(name) /\ fields' = Append(fields, name)
        /\ \A i \in DOMAIN fields : ~HeaderNameEquals(fields[i], name)
        /\ UNCHANGED <<request, keepAlive, begun, completed, expected, bytesWritten, native,
                       wire, history>>
    BY DEF SetHeader
  <1>2. fields \in Seq(Names) /\ Len(fields) \in Nat
    BY DEF TypeInv
  <1>3. /\ fields' \in Seq(Names) /\ Len(fields') = Len(fields) + 1
        /\ \A i \in DOMAIN fields' :
              \/ i \in DOMAIN fields /\ fields'[i] = fields[i]
              \/ i = Len(fields) + 1 /\ fields'[i] = name
    BY <1>1, <1>2
  <1>4. TypeInv'
    BY <1>1, <1>3 DEF TypeInv, request, history
  <1>5. RequestInv'
    BY <1>1 DEF RequestInv, request
  <1>6. FieldsInv'
    <2>1. \A a, b : HeaderNameEquals(a, b) <=> HeaderNameEquals(b, a)
      BY DEF HeaderNameEquals
    <2>2. Distinct(fields')
      BY <1>1, <1>3, <2>1 DEF FieldsInv, Distinct
    <2>3. Len(Block') > 0
      <3>1. Block' = fields' \o ConnectionClose
        BY <1>1 DEF Block, ConnectionClose
      <3>2. ConnectionClose \in Seq(Names)
        BY CloseField
      <3>3. QED
        BY <1>2, <1>3, <3>1, <3>2
    <2>4. QED
      BY <1>1, <1>3, <2>2, <2>3 DEF FieldsInv
  <1>7. FramingInv'
    BY <1>1 DEF FramingInv, request, history
  <1>8. QED
    BY <1>4, <1>5, <1>6, <1>7

\* A Begin with a length sends the whole block, or fails.
LEMMA BeginKnownStep ==
    ASSUME Inv, NEW length \in Lengths, BeginKnown(length)
    PROVE  Inv'
  <1> USE DEF Inv
  <1>1. /\ ~begun /\ expected' = length
        /\ UNCHANGED <<request, keepAlive, completed, bytesWritten, fields, native, offered,
                       writes, aborted>>
    BY DEF BeginKnown
  <1>2. /\ Headed("Content-Length") \in Seq(Names) /\ Block' = Block /\ wire \in Wires
        /\ Headed("Content-Length")' = Headed("Content-Length")
    BY <1>1, HeadedFields DEF Headed, Block, ConnectionClose, TypeInv, Framing
  <1>3. length # Unknown /\ length \in Nat
    BY BoundsAssumption DEF Lengths, Unknown
  <1>4. RequestInv'
    BY <1>1 DEF RequestInv, request
  <1>5. CASE /\ begun' = TRUE /\ UNCHANGED failed
             /\ wire' = [wire EXCEPT !.blocks = @ + 1, !.length = length,
                                     !.fields = Headed("Content-Length")]
    <2>1. wire' \in Wires
      <3>1. wire.blocks + 1 \in Nat /\ length \in Lengths \union {Unknown}
        BY <1>2 DEF Wires
      <3>2. QED
        BY <1>2, <1>5, <3>1 DEF Wires
    <2>2. TypeInv'
      BY <1>1, <1>5, <2>1 DEF TypeInv, request
    <2>3. FieldsInv'
      BY <1>1, <1>3, <1>5 DEF FieldsInv
    <2>4. FramingInv'
      BY <1>1, <1>2, <1>3, <1>5 DEF FramingInv, request, Wires, TypeInv
    <2>5. QED
      BY <1>4, <2>2, <2>3, <2>4
  <1>6. CASE /\ failed' = TRUE /\ UNCHANGED begun
             /\ wire' = [wire EXCEPT !.torn = TRUE]
    <2>1. TypeInv'
      BY <1>1, <1>6, WireType DEF TypeInv, request
    <2>2. FieldsInv'
      BY <1>1, <1>2, <1>6 DEF FieldsInv
    <2>3. FramingInv'
      BY <1>1, <1>6 DEF FramingInv
    <2>4. QED
      BY <1>4, <2>1, <2>2, <2>3
  <1>7. QED
    BY <1>5, <1>6 DEF BeginKnown, Headed, Block

\* A Begin in chunks succeeds only when ESP-IDF was given nothing before: what
\* an earlier one has left there never fits together with the block.
LEMMA BeginChunkedStep ==
    ASSUME Inv, BeginChunked
    PROVE  Inv'
  <1> USE DEF Inv
  <1> DEFINE given == native \o fields \o ConnectionClose
  <1>1. /\ ~begun /\ expected' = Unknown
        /\ begun' = (Len(given) <= MaxFields)
        /\ native' = SubSeq(given, 1, Lesser(Len(given), MaxFields))
        /\ UNCHANGED <<request, keepAlive, completed, bytesWritten, fields, wire, history>>
    BY DEF BeginChunked
  <1>2. /\ native \in Seq(Names) /\ fields \in Seq(Names) /\ ConnectionClose \in Seq(Names)
        /\ Block \in Seq(Names) /\ MaxFields \in Nat
    BY CloseField, BoundsAssumption DEF TypeInv
  <1>3. Block' = Block
    BY <1>1 DEF Block, ConnectionClose
  <1>4. given \in Seq(Names) /\ Len(given) = Len(native) + Len(Block)
    BY <1>2 DEF Block
  <1> HIDE DEF given
  <1>5. Len(given) \in Nat /\ Len(native) \in Nat /\ Len(Block) \in Nat
    BY <1>2, <1>4
  <1>6. native = <<>> \/ (Len(native) = MaxFields /\ Len(Block) > 0)
    BY <1>1 DEF FieldsInv
  <1>7. RequestInv' /\ FramingInv'
    BY <1>1, <1>3 DEF RequestInv, FramingInv, request, history
  <1>8. CASE Len(given) <= MaxFields
    <2>1. begun' = TRUE
      BY <1>1, <1>8
    <2>2. native = <<>>
      BY <1>2, <1>4, <1>5, <1>6, <1>8
    <2>3. given = Block
      BY <1>2, <2>2 DEF given, Block
    <2>4. Lesser(Len(given), MaxFields) = Len(given)
      BY <1>2, <1>5, <1>8 DEF Lesser
    <2>5. native' = SubSeq(Block, 1, Len(Block))
      BY <1>1, <2>3, <2>4
    <2>6. native' = Block
      BY <1>2, <2>5
    <2>7. TypeInv'
      BY <1>1, <1>2, <2>1, <2>6 DEF TypeInv, request, history
    <2>8. FieldsInv'
      BY <1>1, <1>3, <2>1, <2>6 DEF FieldsInv
    <2>9. QED
      BY <1>7, <2>7, <2>8
  <1>9. CASE ~(Len(given) <= MaxFields)
    <2>1. begun' = FALSE
      <3>1. ~begun'
        BY <1>1, <1>9
      <3>2. begun' \in BOOLEAN
        BY <1>1
      <3>3. QED
        BY <3>1, <3>2
    <2>2. Lesser(Len(given), MaxFields) = MaxFields /\ MaxFields \in 0 .. Len(given)
      BY <1>2, <1>5, <1>9 DEF Lesser
    <2>3. native' = SubSeq(given, 1, MaxFields)
      BY <1>1, <2>2
    <2>4. native' \in Seq(Names) /\ Len(native') = MaxFields
      BY <1>4, <2>2, <2>3
    <2>5. Len(Block) > 0
      BY <1>2, <1>4, <1>5, <1>6, <1>9
    <2>6. TypeInv'
      BY <1>1, <2>1, <2>4 DEF TypeInv, request, history
    <2>7. FieldsInv'
      BY <1>1, <1>3, <2>1, <2>4, <2>5 DEF FieldsInv
    <2>8. QED
      BY <1>7, <2>6, <2>7
  <1>10. QED
    BY <1>8, <1>9

\* Write counts what it sends, and never sends more than was announced.
LEMMA WriteStep ==
    ASSUME Inv, NEW size \in 1 .. MaxLength, Write(size)
    PROVE  Inv'
  <1> USE DEF Inv
  <1>1. /\ begun /\ ~completed
        /\ expected # Unknown => bytesWritten + size <= expected
        /\ writes' = writes + 1
        /\ UNCHANGED <<request, keepAlive, begun, completed, expected, fields, native,
                       aborted>>
    BY DEF Write
  <1>2. /\ size \in Nat /\ Block' = Block /\ wire \in Wires
        /\ Headed("Content-Length")' = Headed("Content-Length")
        /\ Headed("Transfer-Encoding")' = Headed("Transfer-Encoding")
    BY <1>1, BoundsAssumption DEF Headed, Block, ConnectionClose, TypeInv
  <1>3. RequestInv' /\ FieldsInv'
    BY <1>1, <1>2 DEF RequestInv, FieldsInv, request
  <1>4. CASE /\ bytesWritten' = bytesWritten + size /\ offered' = offered + size
             /\ wire' = IF head THEN wire
                        ELSE IF expected = Unknown THEN SentChunk(size)
                        ELSE [wire EXCEPT !.body = @ + size]
             /\ UNCHANGED failed
    <2>1. wire' \in Wires
      BY <1>2, <1>4, WireType
    <2>2. TypeInv'
      BY <1>1, <1>2, <1>4, <2>1 DEF TypeInv, request
    <2>3. SUFFICES ASSUME ~failed PROVE FramingInv'
      BY <1>1, <1>3, <1>4, <2>2 DEF FramingInv
    <2>4. CASE head
      BY <1>1, <1>2, <1>4, <2>3, <2>4 DEF FramingInv, request, TypeInv
    <2>5. CASE ~head /\ expected # Unknown
      BY <1>1, <1>2, <1>4, <2>3, <2>5 DEF FramingInv, request, TypeInv, Wires
    <2>6. CASE ~head /\ expected = Unknown
      <3>1. /\ wire'.blocks = 1 /\ wire'.fields = <<Own("Transfer-Encoding")>> \o native
            /\ wire'.body = wire.body + size /\ wire'.ends = wire.ends /\ wire'.length = wire.length /\ wire'.torn = wire.torn
        BY <1>2, <1>4, <2>6 DEF SentChunk, Wires
      <3>2. wire'.fields = Headed("Transfer-Encoding")
        BY <1>1, <2>6, <3>1 DEF FieldsInv, Headed
      <3>3. QED
        BY <1>1, <1>2, <1>4, <2>3, <2>6, <3>1, <3>2 DEF FramingInv, request, TypeInv, Wires
    <2>7. QED
      BY <2>4, <2>5, <2>6
  <1>5. CASE /\ failed' = TRUE
             /\ \E sent \in 0 .. size - 1 :
                   wire' = [wire EXCEPT !.body = @ + sent, !.torn = TRUE]
             /\ UNCHANGED <<bytesWritten, offered>>
    <2>1. PICK sent \in 0 .. size - 1 : wire' = [wire EXCEPT !.body = @ + sent, !.torn = TRUE]
      BY <1>5
    <2>2. sent \in Nat
      BY <1>2
    <2>3. wire' \in Wires
      BY <2>1, <2>2, WireType
    <2>4. TypeInv'
      BY <1>1, <1>5, <2>3 DEF TypeInv, request
    <2>5. QED
      BY <1>1, <1>3, <1>5, <2>4 DEF FramingInv
  <1>6. QED
    BY <1>4, <1>5 DEF Write

\* Complete ends what has been written in full; Abort ends anything.
LEMMA EndStep ==
    ASSUME Inv, Complete \/ Abort
    PROVE  Inv'
  <1> USE DEF Inv
  <1>1. UNCHANGED <<request, keepAlive, begun, expected, bytesWritten, fields, native, offered,
                    writes>>
    BY DEF Complete, Abort
  <1>2. /\ Block' = Block /\ wire \in Wires
        /\ Headed("Content-Length")' = Headed("Content-Length")
        /\ Headed("Transfer-Encoding")' = Headed("Transfer-Encoding")
    BY <1>1 DEF Headed, Block, ConnectionClose, TypeInv
  <1>3. RequestInv' /\ FieldsInv'
    BY <1>1, <1>2 DEF RequestInv, FieldsInv, request
  <1>4. TypeInv'
    BY <1>1, WireType DEF Complete, Abort, TypeInv, request
  <1>5. FramingInv'
    <2>1. CASE Abort
      BY <1>1, <1>2, <2>1 DEF Abort, FramingInv, request
    <2>2. CASE Complete /\ failed' = TRUE
      <3>1. UNCHANGED aborted /\ (completed' = TRUE \/ UNCHANGED completed)
        BY <2>2 DEF Complete
      <3>2. QED
        BY <2>2, <3>1 DEF FramingInv
    <2>3. CASE Complete /\ UNCHANGED failed /\ expected # Unknown
      BY <1>1, <1>2, <2>3 DEF Complete, MayComplete, FramingInv, request
    <2>4. CASE Complete /\ UNCHANGED failed /\ expected = Unknown /\ completed' = TRUE
      <3>1. begun /\ ~completed /\ UNCHANGED aborted /\ wire' = SentChunk(0)
        BY <2>4 DEF Complete, MayComplete
      <3>2. <<Own("Transfer-Encoding")>> \o native = Headed("Transfer-Encoding")
        BY <2>4, <3>1 DEF FieldsInv, Headed
      <3>3. /\ wire'.blocks = 1 /\ wire'.fields = <<Own("Transfer-Encoding")>> \o native
            /\ wire'.body = wire.body
            /\ wire'.ends = wire.ends + 1 /\ wire'.length = wire.length
            /\ wire'.torn = wire.torn
        BY <1>2, <3>1 DEF SentChunk, Wires
      <3>4. ~failed => /\ ~wire.torn /\ offered = bytesWritten /\ wire.ends = 0
                       /\ wire.body = IF head THEN 0 ELSE offered
                       /\ wire.length = expected
        BY <2>4, <3>1 DEF FramingInv
      <3>5. wire'.fields = Headed("Transfer-Encoding")' /\ expected' = Unknown /\ begun'
        BY <1>1, <1>2, <2>4, <3>1, <3>2, <3>3
      <3>6. ~failed' =>
               /\ ~wire'.torn /\ offered' = bytesWritten'
               /\ wire'.body = IF head' THEN 0 ELSE offered'
               /\ wire'.length = expected' /\ wire'.ends = 1 /\ wire'.blocks = 1
        BY <1>1, <2>4, <3>3, <3>4 DEF request
      <3>7. (aborted' => completed') /\ completed' /\ ~aborted'
        BY <2>4, <3>1 DEF FramingInv
      <3>8. QED
        BY <3>5, <3>6, <3>7 DEF FramingInv
    <2>5. QED
      BY <2>1, <2>2, <2>3, <2>4 DEF Complete
  <1>6. QED
    BY <1>3, <1>4, <1>5

-----------------------------------------------------------------------------
(* The properties *)

\* Every reachable state satisfies the invariant.
THEOREM Invariant == Spec => []Inv
  <1>1. Inv /\ Next => Inv'
    BY RequestStep, SetHeaderStep, BeginKnownStep, BeginChunkedStep, WriteStep, EndStep
       DEF Next
  <1>2. Inv /\ UNCHANGED vars => Inv'
    BY DEF Inv, TypeInv, RequestInv, FieldsInv, FramingInv, Headed, Block, ConnectionClose,
           vars, request, control, history
  <1>3. QED
    BY InitInv, <1>1, <1>2, PTL DEF Spec

\* What the dispatcher reads is the request and nothing else, whatever it asks
\* for and however the socket delivers it.
THEOREM RequestStaysWhole == Spec => []RequestIsWhole
  <1>1. Inv => RequestIsWhole
    BY DEF Inv, TypeInv, RequestInv, RequestIsWhole
  <1>2. QED
    BY Invariant, <1>1, PTL

\* As long as nothing has failed, the client can tell where the response ends.
THEOREM ResponseStaysFramed == Spec => []ResponseIsFramed
  <1>1. ASSUME Inv PROVE ResponseIsFramed
    <2>1. SUFFICES ASSUME ~failed PROVE ResponseIsFramed
      BY DEF ResponseIsFramed
    <2>2. wire.blocks # 1 => Distinct(wire.fields)
      <3>0. SUFFICES ASSUME wire.blocks # 1 PROVE Distinct(wire.fields)
        OBVIOUS
      <3>1. wire.fields = <<>> /\ wire.blocks <= 1
        BY <1>1, <2>1, <3>0 DEF Inv, FramingInv, TypeInv
      <3>2. QED
        BY <3>1 DEF Distinct
    <2>3. ASSUME wire.blocks = 1
          PROVE  /\ Distinct(wire.fields)
                 /\ FramedBy = {IF wire.length = Unknown THEN "Transfer-Encoding"
                                                         ELSE "Content-Length"}
                               \cup (IF keepAlive THEN {} ELSE {"Connection"})
      <3>1. wire.fields = Headed(IF wire.length = Unknown THEN "Transfer-Encoding"
                                                          ELSE "Content-Length")
        BY <1>1, <2>1, <2>3 DEF Inv, FramingInv, TypeInv
      <3>2. (IF wire.length = Unknown THEN "Transfer-Encoding" ELSE "Content-Length")
               \in Framing \ {"Connection"}
        BY DEF Framing
      <3>3. QED
        BY <1>1, <3>1, <3>2, HeadedIsFramed DEF Inv, FramedBy
    <2>4. /\ wire.blocks <= 1 /\ ~wire.torn /\ wire.ends <= 1 /\ (head => wire.body = 0)
          /\ wire.length # Unknown => wire.body <= wire.length
      BY <1>1, <2>1 DEF Inv, FramingInv, TypeInv, Lengths
    <2>5. completed /\ ~aborted =>
              /\ wire.blocks = 1
              /\ ~head => wire.body = offered
              /\ wire.length # Unknown => wire.ends = 0 /\ (~head => wire.body = wire.length)
              /\ wire.length = Unknown /\ ~head => wire.ends = 1
      BY <1>1, <2>1 DEF Inv, FramingInv, TypeInv
    <2>6. /\ Distinct(wire.fields)
          /\ wire.blocks = 1 =>
                FramedBy = {IF wire.length = Unknown THEN "Transfer-Encoding"
                                                     ELSE "Content-Length"}
                           \cup (IF keepAlive THEN {} ELSE {"Connection"})
      BY <2>2, <2>3
    <2>7. QED
      BY <2>4, <2>5, <2>6 DEF ResponseIsFramed, Distinct
  <1>2. QED
    BY Invariant, <1>1, PTL

=============================================================================
