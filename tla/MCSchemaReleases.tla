-------------------------- MODULE MCSchemaReleases --------------------------
(* Small histories of migration directories. *)
EXTENDS SchemaReleases

Migration(v, c) == [version |-> v, checksum |-> c]

\* Two files; a third one added; another branch's third file; the second file
\* edited; and a directory with two files of one version.
History ==
    [base |-> {Migration(1, 1), Migration(2, 1)},
     added |-> {Migration(1, 1), Migration(2, 1), Migration(3, 1)},
     branch |-> {Migration(1, 1), Migration(2, 1), Migration(4, 1)},
     edited |-> {Migration(1, 1), Migration(2, 2)},
     twice |-> {Migration(1, 1), Migration(1, 2)}]

\* Each release appends files to the one before.
ForwardHistory ==
    [base |-> {Migration(1, 1)},
     added |-> {Migration(1, 1), Migration(2, 1), Migration(3, 1)},
     latest |-> {Migration(1, 1), Migration(2, 1), Migration(3, 1),
                 Migration(4, 1)}]
=============================================================================
