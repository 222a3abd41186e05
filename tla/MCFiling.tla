------------------------------ MODULE MCFiling ------------------------------
EXTENDS FilingSpecs

Band(service, low) ==
    [service |-> service, freq_low_mhz |-> low, freq_high_mhz |-> low + 1, direction |-> 2]
Report(length, planes, bands) ==
    [report |-> TRUE, raises |-> FALSE, length |-> length, satellites |-> 9, planes |-> planes,
     bands |-> bands]

\* Page breaks inside planes, a wrapped label, a wrapped label cut by a break, a band split by one;
\* a report of which the database refuses a value; the letter is no report.
MCIssues == [
    two    |-> Report(6, <<<<97, 10, 525, 525>>, <<45, 10, 103, 104>>>>,
                         <<Band(<<5, 6>>, 21), Band(<<7, 6>>, 23), Band(<<8>>, 25)>>),
    one    |-> Report(4, <<<<45, 10, 525, 526>>>>, <<Band(<<8>>, 21), Band(<<5, 6>>, 23)>>),
    odd    |-> [Report(9, <<>>, <<>>) EXCEPT !.raises = TRUE],
    letter |-> [Report(3, <<>>, <<>>) EXCEPT !.report = FALSE]]

MCDoc == {<<1, 1>>, <<1, 2>>, <<2, 1>>}
MCFirstServed == {[d \in MCDoc |-> IF d = <<1, 2>> THEN "letter" ELSE "two"]}

\* One filing behind another, whose document fails, is refused by the database, or is a letter.
MCTwoFilings == {<<1, 1>>, <<2, 1>>}
MCTwoServed == {[d \in MCTwoFilings |-> IF d = <<1, 1>> THEN first ELSE second] :
                   first \in {"truncated", "odd", "letter"}, second \in {"two", "http_error"}}
=============================================================================
