----------------------------- MODULE MCFileTree -----------------------------
(* Instances of FileTree. *)
EXTENDS FileTree

\* a/x.rs, a/y.rs, a/s/x.rs, b/z.rs: directories "a" and "a/s" of one system, "b" of another.
CONSTANTS ax, ay, asx, bz, small, big

FourFiles == <<ax, asx, ay, bz>>
ThreeFiles == <<ax, asx, bz>>
Directories == ax :> "a" @@ ay :> "a" @@ asx :> "a/s" @@ bz :> "b"
Paths == "." :> {} @@ "a" :> {"a"} @@ "a/s" :> {"a", "a/s"} @@ "b" :> {"b"}
Tops == "a" :> "a" @@ "a/s" :> "a" @@ "b" :> "b"
Parents == "a" :> "." @@ "a/s" :> "a" @@ "b" :> "."
LengthOf == small :> 1 @@ big :> 2
In(language, name) == [language |-> language, name |-> name]
Stems == ax :> In("rust", "x") @@ asx :> In("rust", "x") @@ ay :> In("none", "y") @@ bz :> In("rust", "z")
ImportLines == small :> {} @@ big :> {"x", "z"}

Whole == {Default}
Various == {Default,
            [Default EXCEPT !.maxFiles = 2, !.maxFileBytes = 1],
            [Default EXCEPT !.maxBytes = 3, !.include = <<"b", ".">>, !.skip = {"a/s", "b"}]}
=============================================================================
