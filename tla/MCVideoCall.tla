----------------------------- MODULE MCVideoCall -----------------------------
(***************************************************************************)
(* VideoCall with files of a key picture and another one, as encoders make *)
(* them: with or without access unit delimiters and an SEI unit, with long *)
(* or short start codes, with pictures that fit in a packet or do not, and *)
(* with or without a unit of one byte at the end.                          *)
(* The units' bytes include those of a start code as far as a unit may     *)
(* hold them: <<0, 0, 3, 1>>, and 1 as the header byte of a picture.       *)
(***************************************************************************)
EXTENDS VideoCall

Short == <<0, 0, 3, 1>>
Long == Short \o Short \o Short \o Short \o Short \o Short

U(code, head, body) == [code |-> code, head |-> head, body |-> body]
If(b, unit) == IF b THEN <<unit>> ELSE <<>>

File(aud, sei, code, first, second, ended) ==
    If(aud, U(4, 9, <<240>>))
        \o <<U(4, 103, <<66, 128>>), U(4, 104, <<206, 128>>)>>
        \o If(sei, U(code, 6, <<5, 128>>)) \o <<U(code, 101, first)>>
        \o If(aud, U(4, 9, <<240>>)) \o <<U(code, 1, second)>>
        \o If(ended, U(code, 10, <<>>))

MCFiles ==
    { File(FALSE, TRUE, 3, Long, Short, FALSE), File(TRUE, TRUE, 4, Short, Long, TRUE),
      File(TRUE, FALSE, 3, Short, Short, TRUE), File(FALSE, FALSE, 4, Long, Long, FALSE) }
=============================================================================
