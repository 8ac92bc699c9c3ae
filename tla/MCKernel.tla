------------------------------- MODULE MCKernel -------------------------------
EXTENDS Kernel, TLC

CONSTANTS r1, r2, bad

-----------------------------------------------------------------------------
(* Bytes *)

\* A one-byte key and a checksum of what is signed.
MCSign(key, id) == <<key[1], FoldLeft(LAMBDA a, x : (31 * a + x) % 256, 7, id)>>
MCUtf8(b) == \A i \in DOMAIN b : b[i] < 128
MCMaxI64 == <<127, 255, 255, 255, 255, 255, 255, 255>>

\* Heads of every major type and width, a break, and what may follow them.
MCAlphabet == {0, 24, 25, 32, 65, 97, 129, 130, 161, 192, 246, 255}
MCNoise == {0, 24, 33, 255}

BelowI64 == Nint(<<128, 0, 0, 0, 0, 0, 0, 0>>)
Seven == Text(<<55>>)                          \* "7"
Hexlike == Text(<<104, 101, 120, 58, 48>>)     \* "hex:0"
Txtlike == Text(<<116, 120, 116, 58>>)         \* "txt:"

MCAtoms ==
  {Uint(<<24>>), BelowI64, Bytes(<<254>>), Hexlike, Bool(TRUE),
   Map(<<>>), Map(<<Entry(Seven, Null), Entry(Uint(<<7>>), Array(<<>>))>>)}
MCKeys == {Uint(<<7>>), Nint(<<>>), Seven, Txtlike}

MCDrafts ==
  {[kind |-> <<>>, key |-> <<9>>, id |-> <<0>>, created_at |-> Nint(<<4>>), refs |-> <<>>],
   [kind |-> <<32>>, key |-> <<9>>, id |-> <<8>>, created_at |-> Uint(<<1, 0>>),
    refs |-> <<[type |-> <<>>, hash |-> <<3>>], [type |-> <<1>>, hash |-> <<4>>]>>]}

-----------------------------------------------------------------------------
(* Frames; a name is one byte *)

MCNames ==
  [REQ |-> 82, CLOSE |-> 67, PUB |-> 80, REC |-> 99, EOSE |-> 69, OK |-> 79, CLOSED |-> 68,
   kinds |-> 107, authors |-> 97, refs |-> 114, ids |-> 105, since |-> 115, limit |-> 108]
MCName(n) == <<MCNames[n]>>

Sub == Text(<<49>>)
AnId == Bytes(<<5>>)
AFilter ==
  [kinds |-> Array(<<Uint(<<>>), Uint(<<32>>)>>), authors |-> Array(<<AnId>>),
   since |-> Uint(<<1, 0>>), limit |-> Uint(<<>>)]
NoFilter == [k \in {} |-> Null]
C(tag, args) == [table |-> ClientArgs, frame |-> Frame(tag, args)]
R(tag, args) == [table |-> RelayArgs, frame |-> Frame(tag, args)]

MCFrames ==
  {C("REQ", <<Sub, AFilter>>), C("REQ", <<Sub, NoFilter>>), C("CLOSE", <<Sub>>),
   C("PUB", <<Bytes(<<1, 2>>), Null>>), C("PUB", <<Bytes(<<1, 2>>), Uint(<<24>>)>>),
   R("REC", <<Sub, Uint(<<1, 0, 0>>), Bytes(<<1>>)>>), R("EOSE", <<Text(<<>>)>>),
   R("OK", <<AnId, Bool(FALSE), Text(<<120>>)>>), R("CLOSED", <<Sub, Text(<<>>)>>)}

\* A frame and a record with an element more than they have.
MCStrays ==
  {Array(<<Tag("EOSE"), Sub, Null>>),
   Map(Append(ToValue(SignAs([kind |-> <<>>, created_at |-> Uint(<<1>>), refs |-> <<>>, body |-> Map(<<>>)],
                             <<9>>, <<0>>).v, TRUE).is, Entry(Uint(<<8>>), Null)))}

-----------------------------------------------------------------------------
(* Bundles: a part holds two bytes, and blobs of more than two are cut *)

Export1(recs, bs) == [records |-> recs, blobs |-> bs]

\* Records twice and one that does not verify; blobs whose last part is short or full,
\* one after the other.
MCExports ==
  {Export1(<<r1, r2, bad, r1>>, <<>>),
   Export1(<<r1>>, <<<<1>>, <<1, 2, 3>>, <<4, 5, 6, 7, 8>>>>),
   Export1(<<r1>>, <<<<1, 2, 3, 4>>, <<5, 6, 7>>>>),
   Export1(<<>>, <<<<1, 2, 3, 4>>, <<1, 2, 3, 4>>, <<9>>, <<5, 6, 7, 8>>>>)}

-----------------------------------------------------------------------------
(* Kinds: one record of each, with every key it may have *)

Str(x)  == Kinds!Text(x, 9)
Hash(x) == Kinds!Bytes(x, 32)
Num(n)  == Kinds!Uint(n)
List(v) == Kinds!Array(<<v>>)
Key64   == Kinds!Bytes("wrapped", 64)
Hints   == List(Kinds!Array(<<Num(1), Str("https")>>))

OneMedia ==
  [blob |-> Hash("m"), size |-> Num(1048577), codec |-> Str("av1"), duration |-> Num(60),
   width |-> Num(16), height |-> Num(9), chunk_root |-> Hash("root"), wrapped_key |-> Key64]
Producer == Kinds!Array(<<Hash("who"), Hash("producer")>>)
OneRendition ==
  OneMedia @@ [bitrate |-> Num(5), produced_by |-> Producer, derivation_sig |-> Kinds!Bytes("sig", 64)]
OneCaption ==
  [blob |-> Hash("c"), language |-> Str("en"), format |-> Str("vtt"), wrapped_key |-> Key64]
OneClaimant == Kinds!Map([name |-> Str("n"), contact |-> Str("c"), on_behalf_of |-> Str("o")])
Notice ==
  [regime |-> Str("r"), claimant |-> OneClaimant, statement |-> Str("s"), work |-> Str("w"),
   signature_name |-> Str("n")]

Bodies ==
  [profile |-> [name |-> Str("n"), about |-> Str("a"), avatar |-> Hash("a"), payment |-> Hints,
                relays |-> List(Str("r")), seeds |-> List(Str("s")),
                enc_key |-> Kinds!Array(<<Num(1), Hash("k")>>)],
   delegate |-> [grantee |-> Hash("g"), capability |-> Str("c"), expires_at |-> Kinds!Nint(3),
                 revoked |-> Kinds!Bool(TRUE)],
   manifest |-> [title |-> Str("t"), description |-> Str("d"), tags |-> List(Str("t")),
                 language |-> Str("en"), original |-> Kinds!Map(OneMedia),
                 renditions |-> List(Kinds!Map(OneRendition)), captions |-> List(Kinds!Map(OneCaption)),
                 thumbnail |-> Hash("t"),
                 encryption |-> Kinds!Map([scheme |-> Num(1), key_hint |-> Str("k")]),
                 license |-> Str("l"),
                 sponsorship |-> List(Kinds!Map([start_ms |-> Num(1), end_ms |-> Num(2), label |-> Str("l")])),
                 payment |-> Hints, hints |-> Hints],
   supersede |-> [target_kind |-> Num(2), body |-> Kinds!Map(Kinds!NoKeys)],
   retract |-> [reason |-> Str("r")],
   mirror |-> [hints |-> Hints],
   similarity |-> [method |-> Str("m"), score |-> Num(10000)],
   comment |-> [text |-> Str("t"), media |-> List(Hash("m"))],
   reaction |-> [reaction |-> Str("r")],
   follow |-> [note |-> Str("n")],
   playlist |-> [title |-> Str("t"), description |-> Str("d"), entries |-> List(Hash("e"))],
   channel |-> [title |-> Str("t"), description |-> Str("d"), avatar |-> Hash("a"), banner |-> Hash("b")],
   receipt |-> [amount |-> Num(1), currency |-> Str("c"), rail |-> Num(1), payee |-> Hash("p"),
                proof |-> Str("p"), message |-> Str("m")],
   attest |-> [statement |-> Str("s"), data |-> Kinds!Map(Kinds!NoKeys)],
   anchor |-> [root |-> Hash("r"), count |-> Num(3), system |-> Str("s"), proof |-> Hash("p")],
   keygrant |-> [recipient |-> Hash("r"), wrap_alg |-> Num(1), wrapped_key |-> Key64, note |-> Str("n")]]

Dotted ==
  ("claim.author" :> [statement |-> Str("s"), evidence |-> List(Hash("e"))])
  @@ ("claim.license" :> [license |-> Str("l"), terms |-> Str("t")])
  @@ ("claim.transfer" :> [assignee |-> Hash("a"), note |-> Str("n")])
  @@ ("claim.dispute" :> [statement |-> Str("s"), evidence |-> List(Hash("e"))])
  @@ ("notice.takedown" :> Notice)
  @@ ("notice.counter" :> Notice)
  @@ ("feed.takedown" :>
        [feed |-> Str("f"), seq |-> Num(1),
         add |-> List(Kinds!Array(<<Num(0), Hash("h"), Str("r"), Kinds!Null>>)),
         remove |-> List(Kinds!Array(<<Num(1), Hash("h")>>))])
  @@ ("endorse.gateway" :> [url |-> Str("https"), note |-> Str("n")])
  @@ ("live.manifest" :>
        [title |-> Str("t"), seq |-> Num(0),
         segments |-> List(Kinds!Array(<<Hash("s"), Num(4)>>)), final |-> Kinds!Bool(TRUE)])
  @@ ("live.chat" :> [text |-> Str("t")])

MCBodies == Bodies @@ Dotted

\* As many refs as the kind asks for.
SampleOf(k) ==
  [kind |-> k, body |-> MCBodies[k],
   refs |-> [i \in 1..Kinds!Registry[k].least |-> [type |-> "record"]]]

MCSamples == {SampleOf(k) : k \in DOMAIN MCBodies}
MCFillings ==
  {Kinds!Null, Num(0), Kinds!Text("empty", 0), Hash("other"), Kinds!Bool(FALSE),
   Kinds!Array(<<>>), Kinds!Map(Kinds!NoKeys)}

\* A video and a sound track.
MCRenditions ==
  {[media |-> m, original |-> Hash("o")] :
     m \in {OneRendition, [k \in DOMAIN OneRendition \ {"width", "height"} |-> OneRendition[k]]}}

-----------------------------------------------------------------------------
(* Announcements: of one video twice, and of another *)

AnAnnounce(root, ts) ==
  Pub!BuildAnnounce("author", <<root>>, Pub!MetaForRecord([kind |-> 2, id |-> <<1>>]), ts, Pub!NotDone)
MCAnnounces == {AnAnnounce("a", 1), AnAnnounce("a", 2), AnAnnounce("b", 1)}

===============================================================================
