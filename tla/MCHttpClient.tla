---------------------------- MODULE MCHttpClient ----------------------------
(* Instances of HttpClient for TLC.                                        *)
EXTENDS HttpClient, TLC

length == <<<<"content", "length">>, <<"6">>>>
name == <<<<"icy", "name">>, <<"a", "b", "c", "d", "e">>>>
type(t) == <<ContentType, <<t>>>>
metaint == <<IcyMetaint, <<"1", "6">>>>

MCResponses == {
  <<type("mpeg"), metaint>>,
  <<length, type("aac")>>,
  <<name, type("ogg")>> }

TaskSymmetry == Permutations(Tasks)
=============================================================================
