--------------------------- MODULE MCUpdateCheck ---------------------------
(* Instances of UpdateCheck for TLC: what the tag of a release may be. *)
EXTENDS UpdateCheck

Version(core, prerelease, build) == [core |-> core, prerelease |-> prerelease, build |-> build]

zero == <<48>>  one == <<49>>  two == <<50>>  nine == <<57>>  ten == <<49, 48>>
eleven == <<49, 49>>  leading == <<48, 49>>
A == <<65>>  a == <<97>>  b == <<98>>  dash == <<97, 45>>

\* versions that differ in each way the precedence speaks of
MCReleases ==
  {Version(core, <<>>, <<>>) :
     core \in {<<one, zero, zero>>, <<one, zero, one>>, <<one, one, zero>>, <<nine, zero, zero>>,
              <<ten, zero, zero>>, <<zero, nine, two>>, <<zero, nine, ten>>}}
  \cup
  {Version(<<one, zero, zero>>, prerelease, <<>>) :
     prerelease \in {<<one>>, <<a>>, <<A>>, <<dash>>, <<a, one>>, <<a, A>>, <<a, b>>, <<b>>,
                    <<b, two>>, <<b, eleven>>}}
  \cup
  {Version(<<one, zero, zero>>, prerelease, <<leading>>) : prerelease \in {<<>>, <<a>>}}

\* texts that fail one rule each
MCMalformed ==
  {Version(core, <<>>, <<>>) :
     core \in {<< <<>> >>, <<one, zero>>, <<one, zero, zero, zero>>, <<leading, zero, zero>>,
              <<one, <<>>, zero>>, <<a, zero, zero>>}}
  \cup
  {Version(<<one, zero, zero>>, prerelease, <<>>) :
     prerelease \in {<< <<>> >>, <<b, leading>>, <<a, <<>> >>, << <<97, 32>> >>}}
  \cup
  {Version(<<one, zero, zero>>, <<>>, build) : build \in {<< <<>> >>, << <<98, 43>> >>}}
=============================================================================
