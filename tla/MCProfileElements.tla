------------------------ MODULE MCProfileElements ------------------------
(* A profile as in tests/unittests/test_esim_saip.py, with a USIM, an ISIM  *)
(* and their RFM; one whose ISIM has no PIN2; one with two USIMs, of which  *)
(* the second has the key of the first.                                     *)
EXTENDS ProfileElements

Start == <<PE("header", "-", "-"), PE("mf", "-", "-")>>
Usim(adf, aka) == <<PE("usim", adf, "-"), PE("opt-usim", "-", "-"), PE("pinCodes", "-", "template"), PE(aka, "-", "-")>>
Isim(pin2) == <<PE("isim", "isim", "-"), PE("pinCodes", "-", pin2), PE("akaParameter", "-", "-")>>
End == <<PE("securityDomain", "-", "-"), PE("rfm", "-", "-"), PE("rfm", "usim", "-"), PE("end", "-", "-")>>

Profile(list) == [pes |-> renumber_identification(list), svc |-> {"usim", "isim"}, gfste |-> {"usim", "opt-usim", "isim"}]

MCProfiles == {Profile(Start \o Usim("usim", "akaParameter") \o Isim("template") \o End),
               Profile(Start \o Usim("usim", "akaParameter") \o Isim("-") \o End),
               Profile(Start \o Usim("usim", "akaParameter") \o Usim("usim2", "akaMapping") \o Isim("template") \o End)}
=============================================================================
