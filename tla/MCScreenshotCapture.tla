------------------------- MODULE MCScreenshotCapture ------------------------
EXTENDS ScreenshotCapture

\* On and beside every bound; all that cannot be read is one answer.
MCAnswers ==
    [readable : {TRUE},
     productName : {None, 0, MaxName, MaxName + 1},
     brand : {None, 0, MaxBrand, MaxBrand + 1},
     price : {0, 4, 5, 10 * MaxCents + 4, 10 * MaxCents + 5, 10 * MaxCents + 6},
     category : BOOLEAN,
     uncertain : BOOLEAN]
    \union
    {[readable |-> FALSE, productName |-> None, brand |-> None, price |-> 0,
      category |-> FALSE, uncertain |-> FALSE]}

=============================================================================
