----------------------------- MODULE MCAdmission ----------------------------
(***************************************************************************)
(* PacketAdmission with four packets, for TLC.                              *)
(***************************************************************************)
EXTENDS PacketAdmission, TLC

\* A key packet and a data packet recorded from one drone
\* (tests/drone_one_100data.txt:1-3).
RecordedKey == Bytes(
  <<
     20, 159, 155, 160, 240, 250, 172, 236,  38, 162,   5,   1, 105, 165,  33, 181,
    146,  38, 106, 212,  32,  75,  59,  90,  97, 102, 129, 177, 255,  38, 237, 225,
     56, 211,  99, 195, 155,  43, 199, 221,  12,  21, 205, 141, 102, 192, 241,  51,
    197, 141, 223,  88, 131, 183,  93,  97,  39,  12,  16, 160, 213, 110,  29, 164,
     81, 152, 199, 144, 165, 202,  82, 183,  88,  25,  94, 174, 145, 226, 165, 200,
    212, 155,  56, 165, 216, 240,  12, 153, 125, 223, 100, 127,  16, 222, 148, 215,
    137,  74,  42,  40, 234, 202, 192,   3, 110, 148, 113,  83, 135,  12,   8, 179,
    154, 113, 207, 208, 237,  60, 215,  19,  66, 141, 167, 176, 130, 224,  75, 201,
    112,  87,   3, 115, 211, 114,  49, 114, 155, 173, 114,   0, 199, 105, 245,  65,
    155,  93, 126, 129, 230, 100, 192,  14, 169,  76, 173,  98, 143, 167, 147, 170,
    173, 114,  84, 197, 243, 241, 122, 244,  53, 118, 113,   3, 113,  82, 229, 131>>)

RecordedData == Bytes(
  <<
    115, 168, 155,  55, 243, 198, 193, 190, 249, 227,  32, 202,  11, 222,  45, 110,
    105,  75, 164, 228, 133,  60, 219,  69,  71,  22, 192,  16,  52, 160, 193,  42,
     20,  51,   7, 110,  34, 134,  52, 171, 214,   5, 203,  96,  30,  38, 157,  90,
     33, 188,  73, 174,  77, 138, 191,   5,  96, 152, 157, 151, 248, 150, 150,  62,
    235, 168, 180,  42, 113, 174, 247,  46, 214,  71,  94, 100, 171, 113,  33,  36,
    203, 153, 133,  51,  44, 250,   0,  79, 226, 223, 139, 121, 194,  51,  40, 169,
    109,  90,   1,  53, 113,  16, 202, 159, 110, 148,  84, 164, 135,  48,  96,  50,
    134, 233, 176, 135, 237,  45, 184,  72,  57,  42, 223,   4, 196, 181, 239, 201,
    112, 110,   7, 167, 154, 211, 251, 196,   3,  68, 200, 106, 172, 238, 157,  35,
     91, 150, 107, 129, 124,  16, 235,  59, 193,  32, 173, 122, 250, 220,  68, 255,
    173,  47,  84,  64,  37, 229,  80, 145,  65,  92,  21, 116, 221,  20, 146,  20>>)

\* Two digits and a separator for each byte.
SeparatedString(x) ==
  [n \in 1 .. 528 |-> LET byte == x[(n - 1) \div 3] IN
                        CASE n % 3 = 1 -> byte \div 16
                          [] n % 3 = 2 -> byte % 16
                          [] n % 3 = 0 -> Separator]

\* Two useful packets, one of an unknown kind, and one that is too short.
SomeText ==
  [key |-> HexString(RecordedKey),
   data |-> SeparatedString(RecordedData),
   other |-> HexString([RecordedKey EXCEPT ![60] = 0]),
   short |-> Tail(HexString(RecordedKey))]

Inputs == DOMAIN SomeText

Parsed == [p \in Inputs |-> Parse(SomeText[p])]

UsefulInputs ==
  {p \in Inputs : Parsed[p].kind \in {"key_packet", "data_packet"}}

SomeTotals == {Unlimited, NoTotal, 1, 2}

ReqSymmetry == Permutations(Req)

\* The load balancer finds the server of a data packet by the drone of the key
\* packet: key and data packets of one drone, here those of a recording, that are in
\* progress together are told apart by their kind and not by their drone.
KeyAndDataAgree ==
  \A r, s \in Req : (Carries(r) /\ Carries(s) /\ req[r].packet # req[s].packet)
    => /\ Parsed[req[r].packet].kind # Parsed[req[s].packet].kind
       /\ Parsed[req[r].packet].drone = Parsed[req[s].packet].drone

=============================================================================
