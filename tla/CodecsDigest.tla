---------------------------- MODULE CodecsDigest ----------------------------
(***************************************************************************)
(* Codecs with the digest that is computed of the blocks.                   *)
(***************************************************************************)
EXTENDS Codecs, Md5Process

\* The digest is MD5: the test vectors of RFC 1321.
DigestIsMD5 ==
    Called("digest") => Digest(md5_finish(md5_append(md5_init, arg[1]))) = arg[2]
=============================================================================
