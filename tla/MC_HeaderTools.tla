--------------------------- MODULE MC_HeaderTools ---------------------------
EXTENDS HeaderTools

CONSTANTS h1, h2

MCFiles == {h1, h2}

\* Word ranks in Python's string order ('#' < 'T' < lower case).
MCEmpty == 0
Inc == 1      \* "#include"
StarW == 2    \* "*"
TBX == 3      \* "TBX_API"
CharW == 4    \* "char"
Const == 5
Foo == 6
Get == 7
IntW == 8     \* "int"
Ts == 9       \* "typedef"
MCArgs == 10  \* "void);"
Zap == 11

Api(ret, star, name, text) ==
    [kind |-> "api", ret |-> ret, star |-> star, name |-> name, text |-> text]

\* TBX_API int foo(void);         TBX_API char *get(void);
\* TBX_API const char *get(void); TBX_API int * zap(void);
\* typedef struct foo_s foo_t;    #include "tbx/tbx_visibility.h"
ApiFoo == Api(<<IntW>>, "none", Foo, <<TBX, IntW, Foo>>)
ApiGet == Api(<<CharW>>, "attached", Get, <<TBX, CharW, Get>>)
ApiConstGet == Api(<<Const, CharW>>, "attached", Get, <<TBX, Const, CharW, Get>>)
ApiZap == Api(<<IntW>>, "detached", Zap, <<TBX, IntW, StarW, Zap>>)
TypeFoo == [kind |-> "type", ret |-> <<>>, star |-> "none", name |-> Foo,
            text |-> <<Ts, Foo>>]
Include == [kind |-> "other", ret |-> <<>>, star |-> "none", name |-> Inc,
            text |-> <<Inc>>]

MCLines == {ApiFoo, ApiGet, ApiConstGet, ApiZap, TypeFoo, Include}

MaxLines == 3

\* Headers of up to MaxLines lines whose functions have distinct names.
MCContents ==
    {c \in UNION {[1..n -> MCLines] : n \in 0..MaxLines} :
        \A i, j \in 1..Len(c) : i # j /\ c[i].kind = "api" /\ c[j].kind = "api"
                                => c[i].name # c[j].name}
=============================================================================
