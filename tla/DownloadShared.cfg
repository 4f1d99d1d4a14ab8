\* A model whose name has the labels of both variants.
SPECIFICATION Spec
CONSTANTS
    t1 = t1
    t2 = t2
    t3 = t3
    q4 = q4
    q8 = q8
    f1 = f1
    f2 = f2
    f3 = f3
    Terminals = {t1}
    Variants = {q4, q8}
    FilesOf <- MCFilesOf
    InName = {q4, q8}
    InSubdir = {q8}
    Nobody = Nobody
INVARIANTS
    DownloadedIsComplete
