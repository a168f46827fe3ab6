----------------------------- MODULE MCMatching -----------------------------
(* Notices, watch profiles and companies over CPV codes of two digits and  *)
(* NUTS codes of at most three, amounts in halves of a revenue of two.     *)
(* run_match passes no certifications and no buyers of a company; the      *)
(* tests of score_notice do.                                               *)
EXTENDS Matching, TLC

CONSTANTS training, fair, qualiopi, town

MCAreas == {<<1, 1, 1>>, <<1, 1, 2>>, <<1, 2, 1>>}

MCNotices ==
  [type : {"competition"}, country : {"FR"},
   codes : {<<>>, <<<<8, 0>>>>, <<<<8, 0>>, <<4, 5>>>>},
   places : {{}, {<<1>>}, {<<1, 1, 2>>, <<1, 2, 1>>}},
   deadline : {None, 1}, amount : {None, 1, 3}, procedure : {None},
   words : {{}, {training}}, certifications : {{qualiopi}}, buyer : {town}]
    \cup
  [type : {"award", "competition"}, country : {"FR", "LU"}, codes : {<<<<4, 5>>>>},
   places : {{<<1, 2>>}}, deadline : {2}, amount : {2}, procedure : {None, "open"},
   words : {{training}, {fair}}, certifications : {{}}, buyer : {town}]

MCFilters ==
  [types : {{"competition"}}, countries : {{"FR"}}, families : {{}, {<<8, Star>>}},
   nuts : {{}, {<<1, 1>>}}, minDays : {None, 1}, amountMin : {None}, amountMax : {None, 2},
   procedures : {{}}, include : {{}}, exclude : {{}}]
    \cup
  [types : {{"competition"}}, countries : {{}}, families : {{<<Star>>}}, nuts : {{<<1, 2, 1>>}},
   minDays : {0}, amountMin : {2}, amountMax : {None}, procedures : {{}, {"open"}},
   include : {{training}}, exclude : {{}, {fair}}]

MCCompanies ==
  [families : {{}, {<<8>>}}, zones : {{}, {<<1, 1>>}}, national : {FALSE},
   keywords : {{training}}, revenue : {2}, certifications : {{}, {qualiopi}}, buyers : {{}}]
    \cup
  [families : {{<<8, 0>>}}, zones : {{}}, national : {TRUE}, keywords : {{}},
   revenue : {0, 4}, certifications : {{qualiopi}}, buyers : {{town}}]
=============================================================================
