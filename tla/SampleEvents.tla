----------------------------- MODULE SampleEvents ---------------------------
(* Events for the instances of the filter and of the event stream: a       *)
(* warning with two segments, a plain bulletin and a statistics event.     *)
EXTENDS Integers, Sequences

Tornado == [vtec_phenomena |-> "TO", vtec_significance |-> "W", vtec_action |-> "NEW",
            vtec_office |-> "KBOU", etn |-> 7]
Flood   == [Tornado EXCEPT !.vtec_phenomena = "FL", !.vtec_significance = "A"]

Gauge == [hvtec_nwslid |-> "DENC2", hvtec_severity |-> "minor", hvtec_cause |-> "snowmelt",
          hvtec_record |-> "no_record"]

Area(county) == [state |-> {"CO"}, county |-> {county}, zone |-> {}, fire_zone |-> {},
                 marine_zone |-> {}]

Warning == [
    name |-> "file_complete",
    file |-> [
        filename |-> <<"a", "a", "b", "a", "b">>,
        size |-> 10,
        product |-> [pil |-> "TOR", source |-> "text_header"],
        headers |-> {[cccc |-> "KBOU", ttaaii |-> "WFUS55", afos |-> "TORBOU"]},
        issues |-> {[issue_kind |-> "latlon_parse", issue_code |-> "invalid_latlon"]},
        body |-> {
            [has_vtec |-> {Tornado}, has_ugc |-> {Area("COC001")}, has_hvtec |-> {},
             has_latlon |-> {{<<39, -105>>, <<40, -105>>}}, has_time_mot_loc |-> {},
             has_wind_hail |-> {[kind |-> "max_wind_gust", value |-> 60, units |-> "KTS"],
                                [kind |-> "max_hail_size", value |-> 1, units |-> "IN"]},
             points |-> {}],
            [has_vtec |-> {Flood}, has_ugc |-> {Area("COC013")}, has_hvtec |-> {Gauge},
             has_latlon |-> {}, has_time_mot_loc |-> {}, has_wind_hail |-> {},
             points |-> {<<41, -104>>}]}]]

Statistics == [name |-> "telemetry"]

\* A bulletin without a body: a file the parser found nothing in.
Bulletin == [
    name |-> "file_complete",
    file |-> [filename |-> <<"b">>, size |-> 2, product |-> [source |-> "unknown"],
              headers |-> {}, issues |-> {}, body |-> {}]]
=============================================================================
