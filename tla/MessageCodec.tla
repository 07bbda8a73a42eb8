---------------------------- MODULE MessageCodec ----------------------------
(***************************************************************************)
(* The bytes of a message: Message::encode, Message::decode and the Reader *)
(* of crates/protocol/src/message.rs.  A byte is a number below 256, a     *)
(* text the sequence of its UTF-8 bytes, an integer keeps its width.       *)
(* encode and decode are written apart in the code, and so are Puts and    *)
(* Gets here: for each kind of message the fields that the one appends and *)
(* those that the other takes, in order.  The two limits on lengths, the   *)
(* one on displays and the length of a hash are constants, to be small.    *)
(***************************************************************************)
EXTENDS Integers, Sequences, SequencesExt, Functions

CONSTANTS
    MaxFrame,       \* MAX_FRAME_BYTES
    MaxString,      \* MAX_STRING_BYTES
    MaxDisplays,    \* MAX_DISPLAYS
    HashBytes       \* the length of a SHA-256 or of an HMAC

ASSUME LimitsAssumption ==
    /\ {MaxFrame, MaxString, MaxDisplays, HashBytes} \subseteq Nat \ {0}
    /\ MaxFrame <= 8 * 1024 * 1024
    /\ MaxString < 256 * 256
    /\ MaxDisplays < 256 * 256

\* The type byte, and for input events the kind after it.
Tag == [
    Hello |-> <<1>>, HelloAck |-> <<2>>, Displays |-> <<3>>, Video |-> <<4>>,
    MouseMove |-> <<5, 1>>, MouseButton |-> <<5, 2>>, MouseWheel |-> <<5, 3>>, Key |-> <<5, 4>>,
    FileOffer |-> <<6>>, FileAccept |-> <<7>>, FileChunk |-> <<8>>, FileAck |-> <<9>>,
    FileComplete |-> <<10>>, FileCancel |-> <<11>>, Ping |-> <<12>>, Pong |-> <<13>>,
    Auth |-> <<14>>, AuthConfirm |-> <<15>>, AuthDenied |-> <<16>>]

Width == [u8 |-> 1, u16 |-> 2, u32 |-> 4, i32 |-> 4, u64 |-> 8]

Byte == 0..255

\* to_le_bytes: the width last bytes of v, the lowest first.  \div rounds down,
\* so a negative v comes out in two's complement.
LittleEndian(v, width) ==
    LET rest[i \in 1..width] == IF i = 1 THEN v ELSE rest[i - 1] \div 256
    IN  [i \in 1..width |-> rest[i] % 256]

\* from_le_bytes, with the sign extended for an i32.
Number(bytes, signed) ==
    LET from[i \in 1..(Len(bytes) + 1)] ==
            IF i <= Len(bytes) THEN bytes[i] + 256 * from[i + 1]
            ELSE IF signed /\ Last(bytes) >= 128 THEN -1 ELSE 0
    IN  from[1]

\* The bytes that must follow a byte that starts a character.
Following(b) ==
    CASE b < 128 -> 0
      [] b \in 194..223 -> 1
      [] b \in 224..239 -> 2
      [] b \in 240..244 -> 3
      [] OTHER -> -1

\* String::from_utf8 accepts: each character has all its bytes.  (-1: it is
\* broken; n: n bytes of the last character are missing.)
Utf8(text) ==
    0 = FoldLeft(LAMBDA missing, b :
                    CASE missing = 0 -> Following(b)
                      [] missing > 0 /\ b \in 128..191 -> missing - 1
                      [] OTHER -> -1,
                 0, text)

-----------------------------------------------------------------------------
(* encode *)

Puts == [
    Hello |-> << <<"version", "u16">>, <<"name", "str">> >>,
    HelloAck |-> << <<"version", "u16">> >>,
    Video |-> << <<"display_id", "u32">>, <<"pts_ms", "u32">>, <<"keyframe", "bool">>, <<"data", "bytes">> >>,
    MouseMove |-> << <<"display_id", "u32">>, <<"x", "u32">>, <<"y", "u32">> >>,
    MouseButton |-> << <<"display_id", "u32">>, <<"button", "u8">>, <<"pressed", "bool">> >>,
    MouseWheel |-> << <<"display_id", "u32">>, <<"dx", "i32">>, <<"dy", "i32">> >>,
    Key |-> << <<"code", "u16">>, <<"pressed", "bool">> >>,
    FileOffer |-> << <<"id", "u32">>, <<"size", "u64">>, <<"name", "str">> >>,
    FileAccept |-> << <<"id", "u32">> >>,
    FileChunk |-> << <<"id", "u32">>, <<"offset", "u64">>, <<"data", "bytes">> >>,
    FileAck |-> << <<"id", "u32">>, <<"offset", "u64">> >>,
    FileComplete |-> << <<"id", "u32">>, <<"sha256", "hash">> >>,
    FileCancel |-> << <<"id", "u32">>, <<"reason", "str">> >>,
    Ping |-> << <<"nonce", "u64">> >>,
    Pong |-> << <<"nonce", "u64">> >>,
    Auth |-> << <<"spake2", "bytes">> >>,
    AuthConfirm |-> << <<"mac", "hash">> >>,
    AuthDenied |-> << <<"retry_after_secs", "u32">>, <<"reason", "str">> >>]

DisplayPuts ==
    << <<"id", "u32">>, <<"x", "i32">>, <<"y", "i32">>, <<"width", "u32">>, <<"height", "u32">>,
       <<"scale_percent", "u16">>, <<"name", "str">> >>

\* What is above the three lowest bytes.
Above(v) == ((v \div 256) \div 256) \div 256

U16 == {v \in Int : v \div 256 \in Byte}
U32 == {v \in Int : Above(v) \in Byte}
I32 == {v \in Int : Above(v) \in -128..127}
U64 == {v \in Int : Above(Above(v)) \div 256 \in Byte}

\* The values of each kind: the Rust type they have.
Values == [
    u8 |-> Byte, u16 |-> U16, u32 |-> U32, i32 |-> I32, u64 |-> U64, bool |-> BOOLEAN,
    hash |-> {v \in Seq(Byte) : Len(v) = HashBytes}, bytes |-> Seq(Byte), str |-> Seq(Byte)]

Names(shape) == {shape[i][1] : i \in DOMAIN shape}

\* r has the fields of the shape and those named, and no others.
HasShape(r, shape, more) ==
    /\ DOMAIN r = Names(shape) \cup more
    /\ r = [f \in DOMAIN r |-> r[f]]
    /\ \A i \in DOMAIN shape : r[shape[i][1]] \in Values[shape[i][2]]

\* A capture has a picture that is not empty and a scale.
IsDisplay(d) == HasShape(d, DisplayPuts, {}) /\ 0 \notin {d.width, d.height, d.scale_percent}

\* What the program can ask encode for.
IsMessage(m) ==
    /\ m.type \in DOMAIN Tag
    /\ IF m.type = "Displays"
         THEN /\ m = [type |-> "Displays", displays |-> m.displays]
              /\ m.displays \in Seq(Range(m.displays))
              /\ \A i \in DOMAIN m.displays : IsDisplay(m.displays[i])
         ELSE HasShape(m, Puts[m.type], {"type"})

\* What put_str keeps of a text: its first bytes, wherever a character ends.
Clip(text) == SubSeq(text, 1, IF Len(text) < MaxString THEN Len(text) ELSE MaxString)

PutStr(text) == LittleEndian(Len(Clip(text)), 2) \o Clip(text)

Put(v, kind) ==
    CASE kind \in DOMAIN Width -> LittleEndian(v, Width[kind])
      [] kind = "bool" -> <<IF v THEN 1 ELSE 0>>
      [] kind = "hash" -> v
      [] kind = "bytes" -> LittleEndian(Len(v), 4) \o v
      [] kind = "str" -> PutStr(v)

PutFields(r, shape) == FlattenSeq([i \in DOMAIN shape |-> Put(r[shape[i][1]], shape[i][2])])

\* The number of displays is written whatever it is.
PutDisplays(ds) ==
    LittleEndian(Len(ds), 2) \o FlattenSeq([i \in DOMAIN ds |-> PutFields(ds[i], DisplayPuts)])

Encode(m) ==
    Tag[m.type] \o IF m.type = "Displays" THEN PutDisplays(m.displays)
                                          ELSE PutFields(m, Puts[m.type])

-----------------------------------------------------------------------------
(* decode.  A result is what was read and where the Reader is now, or an     *)
(* error, which `?` hands on.                                                *)

Ok(at, v) == [err |-> "", at |-> at, v |-> v]
Err(err) == [err |-> err, at |-> 0, v |-> <<>>]

\* (x is bound to r, so that TLC evaluates r once.)
Then(r, Continue(_, _)) ==
    CHOOSE y \in {IF x.err # "" THEN x ELSE Continue(x.at, x.v) : x \in {r}} : TRUE

Take(buf, at, n) ==
    IF at + n > Len(buf) THEN Err("Truncated") ELSE Ok(at + n, SubSeq(buf, at + 1, at + n))

GetNumber(buf, at, kind) ==
    Then(Take(buf, at, Width[kind]), LAMBDA p, raw : Ok(p, Number(raw, kind = "i32")))

\* pressed must be 0 or 1 ...
GetPressed(buf, at) ==
    Then(Take(buf, at, 1), LAMBDA p, raw :
        IF raw[1] \in {0, 1} THEN Ok(p, raw[1] = 1) ELSE Err("Invalid"))

\* ... of the flags of a picture only bit 0 counts.
GetKeyframe(buf, at) == Then(Take(buf, at, 1), LAMBDA p, raw : Ok(p, raw[1] % 2 = 1))

GetBytes(buf, at) ==
    Then(GetNumber(buf, at, "u32"), LAMBDA p, len :
        IF len > MaxFrame THEN Err("Invalid") ELSE Take(buf, p, len))

\* Mutant of GetStr: an off-by-one at the limit.
GetStrShorter(buf, at) ==
    Then(GetNumber(buf, at, "u16"), LAMBDA p, len :
        IF len >= MaxString THEN Err("Invalid")
        ELSE Then(Take(buf, p, len), LAMBDA q, text :
                IF Utf8(text) THEN Ok(q, text) ELSE Err("Utf8")))

GetStr(buf, at) ==
    Then(GetNumber(buf, at, "u16"), LAMBDA p, len :
        IF len > MaxString THEN Err("Invalid")
        ELSE Then(Take(buf, p, len), LAMBDA q, text :
                IF Utf8(text) THEN Ok(q, text) ELSE Err("Utf8")))

Get(buf, at, kind) ==
    CASE kind \in DOMAIN Width -> GetNumber(buf, at, kind)
      [] kind = "pressed" -> GetPressed(buf, at)
      [] kind = "keyframe" -> GetKeyframe(buf, at)
      [] kind = "hash" -> Take(buf, at, HashBytes)
      [] kind = "bytes" -> GetBytes(buf, at)
      [] kind = "str" -> GetStr(buf, at)

Gets == [
    Hello |-> << <<"version", "u16">>, <<"name", "str">> >>,
    HelloAck |-> << <<"version", "u16">> >>,
    Video |-> << <<"display_id", "u32">>, <<"pts_ms", "u32">>, <<"keyframe", "keyframe">>, <<"data", "bytes">> >>,
    MouseMove |-> << <<"display_id", "u32">>, <<"x", "u32">>, <<"y", "u32">> >>,
    MouseButton |-> << <<"display_id", "u32">>, <<"button", "u8">>, <<"pressed", "pressed">> >>,
    MouseWheel |-> << <<"display_id", "u32">>, <<"dx", "i32">>, <<"dy", "i32">> >>,
    Key |-> << <<"code", "u16">>, <<"pressed", "pressed">> >>,
    FileOffer |-> << <<"id", "u32">>, <<"size", "u64">>, <<"name", "str">> >>,
    FileAccept |-> << <<"id", "u32">> >>,
    FileChunk |-> << <<"id", "u32">>, <<"offset", "u64">>, <<"data", "bytes">> >>,
    FileAck |-> << <<"id", "u32">>, <<"offset", "u64">> >>,
    FileComplete |-> << <<"id", "u32">>, <<"sha256", "hash">> >>,
    FileCancel |-> << <<"id", "u32">>, <<"reason", "str">> >>,
    Ping |-> << <<"nonce", "u64">> >>,
    Pong |-> << <<"nonce", "u64">> >>,
    Auth |-> << <<"spake2", "bytes">> >>,
    AuthConfirm |-> << <<"mac", "hash">> >>,
    AuthDenied |-> << <<"retry_after_secs", "u32">>, <<"reason", "str">> >>]

DisplayGets ==
    << <<"id", "u32">>, <<"x", "i32">>, <<"y", "i32">>, <<"width", "u32">>, <<"height", "u32">>,
       <<"scale_percent", "u16">>, <<"name", "str">> >>

\* One more value behind those read.
GetNext(buf, sofar, kind) ==
    Then(sofar, LAMBDA at, values :
        Then(Get(buf, at, kind), LAMBDA p, v : Ok(p, Append(values, v))))

\* The fields of a shape, one after the other, and the record they make.
GetFields(buf, start, shape) ==
    LET read[i \in 0..Len(shape)] ==
            IF i = 0 THEN Ok(start, <<>>) ELSE GetNext(buf, read[i - 1], shape[i][2])
        place(name) == CHOOSE i \in DOMAIN shape : shape[i][1] = name
    IN  Then(read[Len(shape)], LAMBDA at, values :
            Ok(at, [name \in Names(shape) |-> values[place(name)]]))

\* None is without a size or a scale.
GetDisplay(buf, at) ==
    Then(GetFields(buf, at, DisplayGets), LAMBDA p, d :
        IF 0 \in {d.width, d.height, d.scale_percent} THEN Err("Invalid") ELSE Ok(p, d))

GetNextDisplay(buf, sofar) ==
    Then(sofar, LAMBDA at, ds : Then(GetDisplay(buf, at), LAMBDA p, d : Ok(p, Append(ds, d))))

\* At most MaxDisplays of them.
GetDisplays(buf, start) ==
    Then(GetNumber(buf, start, "u16"), LAMBDA first, count :
        IF count > MaxDisplays THEN Err("Invalid")
        ELSE LET read[i \in 0..count] ==
                     IF i = 0 THEN Ok(first, <<>>) ELSE GetNextDisplay(buf, read[i - 1])
             IN  read[count])

TypeOf(at, tag, err) ==
    IF \E type \in DOMAIN Tag : Tag[type] = tag
      THEN Ok(at, CHOOSE type \in DOMAIN Tag : Tag[type] = tag)
      ELSE Err(err)

\* The kind of message that the first byte or two name.
GetType(buf) ==
    Then(Take(buf, 0, 1), LAMBDA p, kind :
        IF kind # <<5>> THEN TypeOf(p, kind, "UnknownType")
        ELSE Then(Take(buf, p, 1), LAMBDA q, input : TypeOf(q, kind \o input, "Invalid")))

OfType(type, m) == [f \in DOMAIN m \cup {"type"} |-> IF f = "type" THEN type ELSE m[f]]

\* Nothing may follow the last field.
Decode(buf) ==
    Then(GetType(buf), LAMBDA p, type :
        Then(IF type = "Displays"
               THEN Then(GetDisplays(buf, p), LAMBDA q, ds : Ok(q, [displays |-> ds]))
               ELSE GetFields(buf, p, Gets[type]),
             LAMBDA at, m : IF at < Len(buf) THEN Err("Invalid") ELSE Ok(at, OfType(type, m))))

=============================================================================
